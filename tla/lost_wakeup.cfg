SPECIFICATION JitneySpec
CONSTANTS
  Jobs = {1, 2}
  MaxAttempts = 1
  Deliveries <- WebhookEvents
  Conclusions = {"failure"}
  MaxPendingJobs = 2
  MaxActiveAttempts = 2
  AssignmentTimeout = 3
  RuntimeTimeout = 3
  SchedulerTick = 1
  CheckInterval = 2
  MaxSweepAge = 1
  None = None
  Faulty = {}
INVARIANT
  PendingIsScheduled
