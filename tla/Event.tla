-------------------------------- MODULE Event --------------------------------
(* Process, with a main that goes on using an event after it has reset the   *)
(* environment.  The event keeps tokens where reset() does not see them.     *)
EXTENDS Process

ResetOnly == DestroyAll /\ UNCHANGED waiters

EventSpec == Init /\ [][Next \/ ResetOnly]_vars

-----------------------------------------------------------------------------
(* coroutine_data.ipp, resume(): assert(!complete_).                         *)
ResumedIsNotComplete == current # None => current \notin complete
==============================================================================
