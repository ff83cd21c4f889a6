--------------------------- MODULE MCFaultManager ---------------------------
(* FaultManager on a small instance: a three-tick ramp, two of everything    *)
(* that is counted, one fault that is only logged and one that ramps.        *)
EXTENDS FaultManager

MCOtherFaults == {"PluginOverrun", "SafetyInterlockViolation"}
=============================================================================
