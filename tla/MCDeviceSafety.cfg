SPECIFICATION FairSpec
CONSTANTS
  Devices = {wheel}
  Clients = {c1, c2}
  Tokens = {k1, k2, k3}
  FaultTypes = {InterlockViolation, UsbStall}
  InterlockViolation = InterlockViolation
  NONE = NONE
  challenge_timeout = 2
  hands_off_timeout = 1
  ManyFaults = 1
  fault_window = 2
  MaxHalvings = 2
INVARIANTS
  LimitFitsState
  UnlockedByChallenge
PROPERTIES
  HandsOffEndsHighTorque
