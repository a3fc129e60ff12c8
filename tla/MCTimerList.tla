---------------------------- MODULE MCTimerList ----------------------------
(***************************************************************************)
(* TimerList for model checking.  Addresses are interchangeable: nothing   *)
(* orders them, and a step of the specification stays one when they are    *)
(* permuted, so that the symmetry is sound for its safety properties.      *)
(***************************************************************************)
EXTENDS TimerList, TLC

Addresses == Permutations(Nodes)

=============================================================================
