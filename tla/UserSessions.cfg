SPECIFICATION Spec
CONSTANTS
  Users = {u1, u2}
  Requests = {r1, r2, r3}
  MaxLogins = 1
  MaxTokens = 3
  MaxChanges = 1
  Hazards = {}
SYMMETRY Symmetry
CHECK_DEADLOCK FALSE
INVARIANTS
  TypeOK
  OneLive
  EndedStaysEnded
  CurrentPrivilege
  LastAdmin
