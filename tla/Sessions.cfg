SPECIFICATION Spec
SYMMETRY Symmetry
CONSTANTS
    Replicas = {r1, r2}
    Names = {alice, bob}
    Requests = {q1, q2}
    Lifetime = 2
    Skew = 1
    MaxTime = 3
    MaxLogins = 1
    MaxFaults = 2
INVARIANTS TokensAreShared
PROPERTIES LoggedOutStaysOut LastUserGoesInARace
CHECK_DEADLOCK FALSE
