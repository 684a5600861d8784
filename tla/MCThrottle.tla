----------------------------- MODULE MCThrottle -----------------------------
(* Instances of Throttle for TLC. *)
EXTENDS Throttle, TLC

LoopSymmetry == Permutations(Loops)
=============================================================================
