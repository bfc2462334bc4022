SPECIFICATION FairSpec
CONSTANTS
    Calls = {c1, c2}
    Intervals = {i1}
    DefaultInterval = i1
    NoCall = none
    MaxFaults = 1
    MaxStored = 1
INVARIANTS StoreAgrees NextLaunchAgrees
PROPERTIES UnreadableIsSetAside  CrashCostsItsOwnSample OffEmptiesTheDisk
