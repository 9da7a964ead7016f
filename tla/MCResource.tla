----------------------------- MODULE MCResource -----------------------------
(* Resource with values for TLC.                                             *)
EXTENDS Resource
==============================================================================
