SPECIFICATION Spec
CONSTANTS
    Pods = {p1, p2}
    Writers = {w1, w2}
    Readers = {}
    Authors = {u1}
    MaxAdmissions = 2
    MaxTries = 2
    MaxWrites = 1
    MaxFaults = 1
    Hazards = {}
SYMMETRY Symmetry
INVARIANTS TypeOK Survives CommitSeesAll OneSeed
CHECK_DEADLOCK FALSE
