-------------------------- MODULE ExclusiveSection --------------------------
(***************************************************************************)
(* What a lock promises: clients enter a section one at a time and each    *)
(* leaves by itself.  It says nothing of keys, payloads or time.           *)
(***************************************************************************)
CONSTANT Clients

VARIABLE inside   \* the clients in the section

Init == inside = {}

Enter(c) ==
  /\ inside = {}
  /\ inside' = {c}

Leave(c) ==
  /\ c \in inside
  /\ inside' = inside \ {c}

Next == \E c \in Clients : Enter(c) \/ Leave(c)

Spec == Init /\ [][Next]_inside
=============================================================================
