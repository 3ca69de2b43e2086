----------------------------- MODULE MCProvisioning -----------------------------
(* Values of the constants of Provisioning for TLC. *)
EXTENDS Provisioning

\* Filters: every node; every node or none.
MCAll == {Nodes}
MCFilters == {Nodes, {}}
================================================================================
