SPECIFICATION FairSpec
CONSTANTS
    f1 = f1
    f2 = f2
    c1 = c1
    p1 = p1
    AnyPort = AnyPort
    NoForward = NoForward
    k1 = k1
    k2 = k2
    Forwards = {f1}
    Clusters = {c1}
    ClusterOf <- OneClusterOf
    Internal = {}
    Ports = {p1}
    Wanted <- OneWanted
    Stoppers = {k1, k2}
    WindowTries = 2
PROPERTIES
    StopsReturn
    WindowEnds
    NudgeIsHeard
    StartsReturn
