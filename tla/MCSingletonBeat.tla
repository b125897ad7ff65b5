-------------------------- MODULE MCSingletonBeat --------------------------
(* Model checking of SingletonBeat: processes are interchangeable. *)
EXTENDS SingletonBeat, TLC

Symmetry == Permutations(Lockers)
=============================================================================
