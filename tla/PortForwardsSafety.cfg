SPECIFICATION Spec
CONSTANTS
    f1 = f1
    f2 = f2
    c1 = c1
    p1 = p1
    AnyPort = AnyPort
    NoForward = NoForward
    k1 = k1
    k2 = k2
    Forwards = {f1, f2}
    Clusters = {c1}
    ClusterOf <- TwoClusterOf
    Internal = {f2}
    Ports = {p1}
    Wanted <- TwoWanted
    Stoppers = {k1, k2}
    WindowTries = 1
INVARIANTS
    GoneHoldsNothing
    OneAttempt
    RowIsHonest
PROPERTIES ForwardsInCustody
SYMMETRY StopperSymmetry
