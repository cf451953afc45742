SPECIFICATION FairSpec
CONSTANTS
  Pods = {p1, p2}
  Events = {e1}
  NoJob = NoJob
  MaxAttempts = 2
  MaxClaims = 6
  MaxFaults = 1
INVARIANTS
  TypeOK
  NoDoubleDelivery
PROPERTIES
  SweepSparesLive
  DeadIsExhausted
  Settles
CHECK_DEADLOCK FALSE
