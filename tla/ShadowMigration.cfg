SPECIFICATION Spec
CONSTANTS
  Pages = {p1}
  Texts = {short, t1}
  Short = {short}
  Models = {m1, m2}
  NoModel = NoModel
  Embedders = {e1}
  Admins = {a1, a2}
  MaxImages = 1
  MaxEpochs = 2
  Hazards = {}
SYMMETRY Symmetry
CHECK_DEADLOCK FALSE
INVARIANTS
  TypeOK
  OneSpace
  ExtraSpace
  CleanIsCurrent
  SchemaMatches
