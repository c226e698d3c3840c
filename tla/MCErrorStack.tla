----------------------------- MODULE MCErrorStack -----------------------------
(* A small instance of ErrorStack: three data blocks, so that data runs out,*)
(* and enough errors to make the buffer grow twice beyond its first size.   *)
EXTENDS ErrorStack, TLC

BlockSymmetry == Permutations(Blocks)
=============================================================================
