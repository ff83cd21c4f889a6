CONSTANTS
  Requests <- MCRequests
  FaultTypes = {usb_stall}
  FeedErrors = {"HardwareError"}
  NONE = NONE
  NAN = NAN
  WatchdogTimeout = 2
  CommTimeout = 1
  MinSafeTime = 2
  MaxTorque = 5
  SafeTorque = 1
  LogSize = 2
  MaxTime = 5
SPECIFICATION Spec
INVARIANT EmergencyStopNeedsReset
