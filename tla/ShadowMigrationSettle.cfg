SPECIFICATION Spec
CONSTANTS
  Pages = {p1}
  Texts = {short, t1}
  Short = {short}
  Models = {m1, m2}
  NoModel = NoModel
  Embedders = {e1}
  Admins = {a1}
  MaxImages = 0
  MaxEpochs = 1
  Hazards = {"settle"}
SYMMETRY Symmetry
CHECK_DEADLOCK FALSE
INVARIANT CleanIsCurrent
