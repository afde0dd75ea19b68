SPECIFICATION JitneySpec
CONSTANTS
  Jobs = {1, 2}
  MaxAttempts = 1
  Deliveries <- WebhookEvents
  Conclusions = {"failure"}
  MaxPendingJobs = 2
  MaxActiveAttempts = 2
  AssignmentTimeout = 1
  RuntimeTimeout = 1
  SchedulerTick = 1
  CheckInterval = 2
  MaxSweepAge = 0
  None = None
  Faulty = {}
INVARIANTS
  AssignmentsAreTrue
  NoStrayContainer
  PendingNotStarted
  WakeupArmed
  DeadlinesWatched
