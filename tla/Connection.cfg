SPECIFICATION FairSpec
CONSTANTS
    Ports = {p1}
    Calls = {c1, c2, c3}
    Runs = {r1, r2}
    NoOne = NoOne
PROPERTIES RestoresFollowTheTab Unwinds RestoreSettles
CHECK_DEADLOCK FALSE
