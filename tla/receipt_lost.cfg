SPECIFICATION Spec
CONSTANTS
    Deployment = {d1, d2}
    Repository = {r1}
    Lag = 2
    Delay = 2
INVARIANTS ConcurrentReceiptKept
CHECK_DEADLOCK FALSE
