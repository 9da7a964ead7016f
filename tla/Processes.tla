------------------------------ MODULE Processes ------------------------------
(* The processes that share synchronisation primitives, whose modules can be *)
(* used together: each primitive has its own event, and all have these.      *)
CONSTANT Procs
==============================================================================
