-------------------------- MODULE MCRequestLifecycle --------------------------
(* RequestLifecycle on small instances. *)
EXTENDS RequestLifecycle
=============================================================================
