CONSTANTS
  PipelineOutputs <- MCPipelineOutputs
  NAN = NAN
  MaxSafeTorque = 1
  MaxHighTorque = 2
  Ramp = 2
  CommandCap = 2
  InputCap = 1
  RtHardening = TRUE
  MaxOrphans = 2
SPECIFICATION FairSpec
INVARIANTS
  TypeOK
  StopJoinsThreads
PROPERTIES
  ImplementsTorqueGate
  StopTerminates
  OrphansEnd
  EmergencyStopTakesEffect
