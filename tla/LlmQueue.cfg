SPECIFICATION FairLlmSpec
CONSTANTS
  Calls = {c1, c2, s1}
  Queued = {c1, c2}
  Others = {o1}
  Limits = {0, 2}
  Depths = {0, 2}
  FailureThreshold = 3
  SuccessThreshold = 2
  MaxFailures = 4
INVARIANTS
  SingleProbe
  CountersAgree
  Accounted
PROPERTIES
  ImplementsBreaker
  Recovers
  Drains
