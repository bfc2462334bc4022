\* Two readers: one fetches while the other joins it, borrows it, or comes after
\* a forget and fetches beside it. Two forgets: a fetch before, between and after.
CONSTANTS
    Readers = {r1, r2}
    MaxEpoch = 2
    Narrow = {ns}
    Broad = all
    None = None
SPECIFICATION FairSpec
INVARIANT Coalesced
PROPERTIES ReadsAreFresh WaitersLeave
CHECK_DEADLOCK FALSE
