CONSTANTS
  c1 = c1
  c2 = c2
  Command = {c1}
  NoReceipt = NoReceipt
  NoLease = NoLease
  NoCommand = NoCommand
  Ttl = 15
  Heartbeat = 5
  PollLimit = 2
  HistoryLimit = 2
  Records <- ChangeRecords
  Scenarios <- Alone
SPECIFICATION Spec
INVARIANT SettledIsReleased
CHECK_DEADLOCK FALSE
