SPECIFICATION Spec
CONSTANTS
    Version = {v1, v2, v3}
    None = None
    Unpushed = Unpushed
    NoReceipt = NoReceipt
    NoPlan = NoPlan
    Shared = {v3}
    MaxFaults = 2
    MaxCrashes = 1
SYMMETRY Symmetric
ACTION_CONSTRAINT Small
VIEW Looked
INVARIANTS TypeOK ActiveServes OkIsHealthy NothingLeftOver
PROPERTIES RemovedWithResources
CHECK_DEADLOCK FALSE
