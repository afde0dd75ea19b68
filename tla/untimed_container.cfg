SPECIFICATION Spec
CONSTANTS
    MaxRetries = 2
    Overlapping = TRUE
INVARIANT ArmedMeansTimed
CHECK_DEADLOCK FALSE
