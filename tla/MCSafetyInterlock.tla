-------------------------- MODULE MCSafetyInterlock --------------------------
(* Instance of SafetyInterlock for TLC.  The clock runs past a watchdog      *)
(* timeout, a communication timeout and the minimum time in safe mode; the   *)
(* log of two entries wraps round several times.                             *)
EXTENDS SafetyInterlock

MCRequests == {-9, 0, 1, 9, NAN}

=============================================================================
