---------------------------- MODULE MCLifecycle ----------------------------
(* Lifecycle on a small instance: its configuration gives every constant. *)
EXTENDS Lifecycle
=============================================================================
