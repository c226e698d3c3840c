-------------------------- MODULE MCKernelCallLibrary --------------------------
(***************************************************************************)
(* Instances of KernelCallLibrary for TLC.  With four blocks, one for the  *)
(* vtable and one for the trap, two that the kernel refused to take back   *)
(* leave room for another initialization.                                  *)
(***************************************************************************)
EXTENDS KernelCallLibrary, TLC

BlockSymmetry == Permutations(Blocks)

=============================================================================
