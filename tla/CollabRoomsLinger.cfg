SPECIFICATION Spec
CONSTANTS
    Pods = {p1}
    Writers = {w1, w2}
    Readers = {q1}
    Authors = {u1}
    MaxAdmissions = 2
    MaxTries = 2
    MaxWrites = 1
    MaxFaults = 0
    Hazards = {"linger"}
SYMMETRY Symmetry
INVARIANTS Survives
CHECK_DEADLOCK FALSE
