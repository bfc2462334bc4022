SPECIFICATION FairSpec
CONSTANTS
    Callers = {c1, c2}
    Sets = {w1}
    Watcher = watcher
    None = none
    MaxRewrites = 1
    MaxReleases = 2
INVARIANTS GuardedIsCurrent OnlyLateIsInherited NobodyBlocked
PROPERTIES NoClientReplaced RewriteReaches
