---------------------------- MODULE MCSupervisor ----------------------------
(* Model checking of Supervisor. *)
EXTENDS Supervisor
=============================================================================
