---------------------------- MODULE MCPluginHost ----------------------------
(* Two tasks and one WASM plugin; two crashes or one overrun within a      *)
(* minute quarantine it, and a quarantine runs out with the next minute.   *)
EXTENDS PluginHost
=============================================================================
