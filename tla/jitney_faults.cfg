SPECIFICATION JitneySpec
CONSTANTS
  Jobs = {1}
  MaxAttempts = 2
  Deliveries <- WebhookEvents
  Conclusions = {"failure"}
  MaxPendingJobs = 1
  MaxActiveAttempts = 1
  AssignmentTimeout = 1
  RuntimeTimeout = 2
  SchedulerTick = 1
  CheckInterval = 1
  MaxSweepAge = 1
  None = None
  Faulty = {"crash", "provision", "reclaim", "read", "container", "deleted"}
INVARIANTS
  TypeOKWorld
  ConclusionsAreTrue
  RunningJobWatched
