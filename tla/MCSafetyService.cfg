CONSTANTS
  Tokens = {t1, t2}
  DeviceIds = {d1, d2}
  DeviceTokens = {k1, k2}
  FaultTypes = {hands_off, usb_stall}
  HandsOffFault = hands_off
  NONE = NONE
  ChallengeTimeout = 3
  ComboHold = 2
  HandsOffTimeout = 1
  MinFaultTime = 1
  MaxSafeTorque = 5
  MaxHighTorque = 25
  MaxCount = 2
  MaxTime = 6
SPECIFICATION Spec
INVARIANTS
  TypeOK
  ChallengeMirrorsState
  NoHighTorqueAfterFault
  ActiveTokenRegistered
PROPERTIES
  RaiseNeedsInterlock
  FaultHoldsMinimumTime
