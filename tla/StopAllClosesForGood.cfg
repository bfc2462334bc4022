SPECIFICATION Spec
CONSTANTS
    Sessions = {s1, s2}
    Pods = {p1, p2}
    None = none
PROPERTY OnlyLeavingRefuses
CHECK_DEADLOCK FALSE
