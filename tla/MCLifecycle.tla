------------------------------ MODULE MCLifecycle ------------------------------
(* Lifecycle for TLC; the configurations give all the constants their values. *)
EXTENDS Lifecycle
================================================================================
