SPECIFICATION Spec
CONSTANTS
  Runtimes = {r1}
  NoRuntime = NoRuntime
  Intents = {i1, i2}
  Pages = {p1, p2}
  Modes = {"prepare", "reference"}
SYMMETRY Symmetry
CHECK_DEADLOCK FALSE
INVARIANTS
  FrozenIsBaseline
  RevisionsCurrent
PROPERTY ImplementsOwnership
