SPECIFICATION Spec
CONSTANTS
    Version = {v1, v2}
    None = None
    Unpushed = Unpushed
    NoReceipt = NoReceipt
    NoPlan = NoPlan
    Shared = {}
    MaxFaults = 0
    MaxCrashes = 0
SYMMETRY Symmetric
CONSTRAINT NoCleanup
INVARIANT RunningImageKept
CHECK_DEADLOCK FALSE
