-------------------------- MODULE MCNotifications --------------------------
(* Model checking of Notifications. *)
EXTENDS Notifications
=============================================================================
