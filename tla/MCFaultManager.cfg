CONSTANTS
  NONE = NONE
  Torque = 3
  OtherFaults <- MCOtherFaults
  Ramp = 3
  UsbTimeout = 1
  MaxUsbFailures = 2
  NanWindow = 1
  MaxNans = 2
  MaxViolations = 2
  MinFaultTime = 1
  MaxCount = 3
  MaxTime = 3
SPECIFICATION Spec
INVARIANTS
  RampEndsAfterLastFault
PROPERTIES
  MultiplierFalls
