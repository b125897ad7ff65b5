----------------------------- MODULE MCUniqTask -----------------------------
(* Model checking of UniqTask: callers and workers take the same lock. *)
EXTENDS UniqTask, TLC

MCLockers == Callers \cup Workers

Symmetry == Permutations(Callers) \cup Permutations(Workers)
=============================================================================
