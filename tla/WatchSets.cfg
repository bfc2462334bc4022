\* Three sets let one cluster be watched again after its set was reaped or
\* forgotten while another one is watched; two stoppers race each other, the
\* sweeper and the reads.
CONSTANTS
    Clusters = {c1, c2}
    Sets = {s1, s2, s3}
    Stoppers = {t1, t2}
    Sweeper = sweeper
    None = None
SPECIFICATION FairSpec
INVARIANT StoppedForGood
PROPERTIES SetsInCustody StopsReturn IdleIsReaped
CHECK_DEADLOCK FALSE
