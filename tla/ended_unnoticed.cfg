SPECIFICATION JitneyFairSpec
CONSTANTS
  Jobs = {1}
  MaxAttempts = 1
  Deliveries <- WebhookEvents
  Conclusions = {"failure", "cancelled"}
  MaxPendingJobs = 2
  MaxActiveAttempts = 2
  AssignmentTimeout = 1
  RuntimeTimeout = 1
  SchedulerTick = 1
  CheckInterval = 1
  MaxSweepAge = 0
  None = None
  Faulty = {}
PROPERTY
  EndedJobConcluded
