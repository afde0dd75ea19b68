SPECIFICATION Spec
CONSTANTS
  Jobs = {1, 2}
  MaxAttempts = 2
  Deliveries = {d1}
  Conclusions = {"success"}
  MaxPendingJobs = 1
  MaxActiveAttempts = 2
  AssignmentTimeout = 1
  RuntimeTimeout = 1
  SchedulerTick = 1
  CheckInterval = 1
  MaxSweepAge = 0
  None = None
INVARIANTS
  TypeOK
  OneViableAttempt
  AssignmentsMatchAttempts
  NoForgottenJob
  ReferencesHold
  WithinCapacity
PROPERTIES
  BindingsPermanent
  RevivedOnlyByAssignment
  DrainedStaysDrained
  KeepsLedger
