----------------------------- MODULE MCSession -----------------------------
(***************************************************************************)
(* Instances of Session for TLC.                                           *)
(***************************************************************************)
EXTENDS Session, TLC

BlockSymmetry == Permutations(Blocks)

(* What commands ask for: enough for every stage of initialize, or for few. *)
SomeRequests == {KERNEL_SLIDE, PRIVESC, CLASS}

=============================================================================
