--------------------------- MODULE MCSafetyService ---------------------------
(* Instance of SafetyService for TLC: two tokens (a replayed and a fresh    *)
(* one), two devices, two faults, a clock long enough for one complete      *)
(* challenge, a hands-off timeout and the clearing of the fault after it.   *)
EXTENDS SafetyService

=============================================================================
