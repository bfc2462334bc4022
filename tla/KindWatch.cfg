\* Four versions: a first list, two stalls at different versions and a recovery.
CONSTANT MaxVersion = 4
SPECIFICATION FairSpec
PROPERTIES CondemnedForGood PromotedOnEvidence Recovers Ends
CHECK_DEADLOCK FALSE
