SPECIFICATION Spec
SYMMETRY Symmetry
CONSTANTS
    Users = {1, 3}
    Vlans = {v1, v2}
    Absent = Absent
    Requests = {q1, q2, q3}
    Counts = {1, 2}
    MaxInt32 = 1
    MaxNode = 1
    MaxFaults = 1
INVARIANTS VlanClashIsARace CountExcessIsARace
CHECK_DEADLOCK FALSE
