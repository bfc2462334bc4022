SPECIFICATION Spec
CONSTANTS
    Ports = {p1}
    Calls = {c1, c2, c3}
    Runs = {r1, r2}
    NoOne = NoOne
INVARIANT StartRacingCloseIsRefused
CHECK_DEADLOCK FALSE
