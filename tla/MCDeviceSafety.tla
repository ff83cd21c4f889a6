--------------------------- MODULE MCDeviceSafety ---------------------------
(* One device and two clients.                                             *)
EXTENDS DeviceSafety
=============================================================================
