SPECIFICATION FairSpec
CONSTANTS
    MaxRetries = 2
    Overlapping = FALSE
INVARIANTS TypeOK ArmedMeansTimed
PROPERTIES KeepsContract WatchedIsTimed StartAnswered ShutdownEnds
CHECK_DEADLOCK FALSE
