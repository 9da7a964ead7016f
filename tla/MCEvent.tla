------------------------------- MODULE MCEvent -------------------------------
(* Event with values for TLC.                                                *)
EXTENDS Event
==============================================================================
