--------------------------- MODULE MCSpscChannel ---------------------------
(* A ring of three slots with frames of two words, and counters that wrap  *)
(* after nine frames: twelve frames are written.                           *)
EXTENDS SpscChannel
=============================================================================
