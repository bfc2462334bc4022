SPECIFICATION FairSpec
CONSTANTS
    Sessions = {s1, s2}
    Pods = {p1, p2}
    None = none
INVARIANTS NothingForgotten NoGhostShell StoppedIsGone
PROPERTIES ShutdownEnds
CHECK_DEADLOCK FALSE
