---------------------------- MODULE MCSegmentLog ----------------------------
(***************************************************************************)
(* SegmentLog and its inductive invariant on a small instance.             *)
(***************************************************************************)
EXTENDS SegmentLogInv

\* Nothing is promised after a reverted rename, so nothing is explored there.
PromiseHolds == ~reverted
=============================================================================
