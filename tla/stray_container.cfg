SPECIFICATION JitneySpec
CONSTANTS
  Jobs = {1}
  MaxAttempts = 1
  Deliveries <- WebhookEvents
  Conclusions = {"failure"}
  MaxPendingJobs = 2
  MaxActiveAttempts = 2
  AssignmentTimeout = 2
  RuntimeTimeout = 1
  SchedulerTick = 1
  CheckInterval = 2
  MaxSweepAge = 1
  None = None
  Faulty = {"crash"}
INVARIANT
  NoStrayContainer
