SPECIFICATION FairSpec
CONSTANTS
  Pods = {p1}
  MaxWrites = 2
  Faults = {"drop", "crash", "publish", "read", "overtake"}
  MaxFaults = 3
INVARIANTS
  TypeOK
  HeardIsSeen
PROPERTIES
  GettersCatchUp
CHECK_DEADLOCK FALSE
