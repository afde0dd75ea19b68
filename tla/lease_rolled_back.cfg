CONSTANTS
  c1 = c1
  c2 = c2
  Command = {c1, c2}
  NoReceipt = NoReceipt
  NoLease = NoLease
  NoCommand = NoCommand
  Ttl = 15
  Heartbeat = 5
  PollLimit = 2
  HistoryLimit = 2
  Records <- InstallRecords
  Scenarios <- RolledBack
SPECIFICATION Spec
INVARIANT RepairSparesTheLiving
SYMMETRY Symmetry
CHECK_DEADLOCK FALSE
