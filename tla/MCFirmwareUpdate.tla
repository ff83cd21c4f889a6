-------------------------- MODULE MCFirmwareUpdate --------------------------
(* FirmwareUpdate on small instances: images that fail their health check,   *)
(* and short ones, whose messages fit the progress channel to the last.      *)
EXTENDS FirmwareUpdate

CONSTANT Short   \* the images of one chunk less than a partition holds

MCLength ==
  [i \in Updaters \cup {FACTORY} |-> IF i \in Short THEN Chunks - 1 ELSE Chunks]
=============================================================================
