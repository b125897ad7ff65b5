------------------------------- MODULE MCEtags -------------------------------
(* Model checking of Etags: two browsers, a row and one related to it. *)
EXTENDS Etags, TLC

CONSTANTS o1, other

MCRows == {o1, other}
MCRelated == {other}
MCCovers == [r \in Resources |-> Rows]
MCUuids == 1..6

Symmetry == Permutations(Clients)
=============================================================================
