----------------------------- MODULE MCOverlay ------------------------------
(***************************************************************************)
(* Overlay for TLC: the calls are interchangeable.                         *)
(***************************************************************************)
EXTENDS Overlay, TLC

CallSymmetry == Permutations(Calls)

=============================================================================
