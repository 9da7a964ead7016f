------------------------------ MODULE MCProcess ------------------------------
(* Process with values for TLC.                                              *)
EXTENDS Process
==============================================================================
