SPECIFICATION Spec
CONSTANTS
  Runtimes = {r1, r2, r3}
  NoRuntime = NoRuntime
  Intents = {i1}
  Pages = {p1}
  Modes = {"local", "conditional", "terminal"}
SYMMETRY Symmetry
CHECK_DEADLOCK FALSE
INVARIANTS
  TypeOK
  CancelledHadNoEffect
  VerdictHolds
  RetiredIsSilent
PROPERTIES
  NoBlindReissue
