SPECIFICATION Spec
CONSTANTS
    Version = {v1, v2}
    None = None
    Unpushed = Unpushed
    NoReceipt = NoReceipt
    NoPlan = NoPlan
    Shared = {}
    MaxFaults = 0
    MaxCrashes = 1
SYMMETRY Symmetric
INVARIANT UpgradeDelivers
CHECK_DEADLOCK FALSE
