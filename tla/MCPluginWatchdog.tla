-------------------------- MODULE MCPluginWatchdog --------------------------
(* Two threads, one plugin and one component.                              *)
EXTENDS PluginWatchdog
=============================================================================
