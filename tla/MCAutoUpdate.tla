---------------------------- MODULE MCAutoUpdate ----------------------------
(* Model checking of AutoUpdate: from one object to another, from an object  *)
(* to the list, and from the list to an object.                              *)
EXTENDS AutoUpdate

CONSTANTS o1, o2

MCTours == {<<o1, o2>>, <<o1, List>>, <<List, o1>>}
=============================================================================
