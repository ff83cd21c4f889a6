------------------------------ MODULE MCEngine ------------------------------
(* Engine on a small instance: over-range, negative and non-finite pipeline *)
(* outputs, and two-slot command channels.                                   *)
EXTENDS Engine

MCPipelineOutputs == {-2, 1, NAN}
=============================================================================
