SPECIFICATION Spec
CONSTANTS
    Deployment = {d1, d2}
    Repository = {r1, r2}
    Lag = 2
    Delay = 2
SYMMETRY Symmetric
INVARIANTS TypeOK OneOwner NoOrphanMarker NamespaceSparesReceipts
CHECK_DEADLOCK FALSE
