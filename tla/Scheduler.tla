----------------------------- MODULE Scheduler -----------------------------
(***************************************************************************)
(* The Scheduler Durable Object of worker/src: the job and attempt tables  *)
(* of schema.ts, the intake handlers and the alarm sweep of lifecycle.ts,  *)
(* and the intake switch of scheduler.ts.  GitHub, the runner containers   *)
(* and the senders of webhooks are left wholly unconstrained here: any     *)
(* delivery may arrive at any moment and a remote call may answer          *)
(* anything.  Module Jitney narrows them to what the services can do, so   *)
(* what holds here holds there.                                            *)
(*                                                                         *)
(* Run to completion.  JavaScript gives a handler the object until it      *)
(* awaits a remote call.  The sweep is a chain of segments between awaits; *)
(* sweepAt names where it stands.  While it stands at a point of           *)
(* AwaitPoints any other handler may run; at any other point but "idle"    *)
(* only the sweep itself may take the next step.                           *)
(*                                                                         *)
(* Time is relative to the present, which is always 0.  Tick moves every   *)
(* stored time one unit into the past and forgets how long ago it was once *)
(* it is older than any sweep still running (Past), so that the state      *)
(* space is finite without a bound on the length of a behaviour.           *)
(***************************************************************************)
EXTENDS Integers, FiniteSets

CONSTANTS
  Jobs,               \* workflow job ids, numbers because pending is read in order
  MaxAttempts,        \* bound: attempts created for one job
  Deliveries,         \* webhook delivery GUIDs
  Conclusions,        \* the conclusions GitHub gives, of the three that differ
  MaxPendingJobs,     \* maxPendingJobs
  MaxActiveAttempts,  \* maxActiveAttempts
  AssignmentTimeout,  \* assignmentTimeout
  RuntimeTimeout,     \* runtimeTimeout
  SchedulerTick,      \* schedulerTick
  CheckInterval,      \* containerCheckInterval
  MaxSweepAge,        \* bound: how long one sweep may last
  None

ASSUME JobsAssumption == Jobs \subseteq Nat
ASSUME AttemptsAssumption == MaxAttempts \in Nat \ {0}
ASSUME ConclusionsAssumption == Conclusions \subseteq {"success", "cancelled", "failure"}
ASSUME CapacityAssumption == MaxPendingJobs \in Nat \ {0} /\ MaxActiveAttempts \in Nat \ {0}
ASSUME TimeAssumption ==
  /\ AssignmentTimeout \in Nat \ {0}
  /\ RuntimeTimeout \in Nat \ {0}
  /\ SchedulerTick \in Nat \ {0}
  /\ CheckInterval \in Nat \ {0}
  /\ MaxSweepAge \in Nat
ASSUME NoneAssumption ==
  None \notin Int /\ None \notin Jobs \X (1..MaxAttempts) /\ None \notin Conclusions \cup {"unknown"}

\* An attempt is named by the job it was created for and its number; its runner
\* and its container are named after it, one to one.
Runners == Jobs \X (1..MaxAttempts)
TriggeringJob(r) == r[1]

ViableStates   == {"created", "starting", "waiting_for_assignment"}
ActiveStates   == ViableStates \cup {"running"}
LiveStates     == {"waiting_for_assignment", "running"}
AttemptStates  == ActiveStates \cup {"failed", "stopped", "expired"}
TerminalStates == {"completed", "cancelled", "failed"}
JobStates      == {"queued", "capacity_limited", "provisioning",
                   "waiting_for_assignment", "running"} \cup TerminalStates

VARIABLES
  jobs,             \* state of each job, "absent" without a row
  conclusion,       \* conclusion column of jobs
  attempts,         \* state of each attempt, "absent" without a row
  deadline,         \* its assignment deadline while viable, its runtime deadline while running
  assignments,      \* the runner each job is assigned to, or None
  pending,          \* the attempt number of each job's pending row, or 0
  checks,           \* when each job's conclusion is to be read, or None
  deliveries,       \* delivery GUIDs recorded
  intakeSuspended,  \* the persisted intake switch
  alarm,            \* when the object's alarm fires, or None
  sweepAt,          \* where the sweep stands
  sweepNow,         \* the present when the sweep began
  more,             \* drainPending's answer: pending rows remain
  rows,             \* attempts the current phase selected and has not reached
  row,              \* the attempt in hand
  due,              \* jobs whose check readConclusions has not reached
  asked,            \* the job whose check is in hand
  resume            \* where the sweep goes when the reclaim it awaits returns

jobVars     == <<jobs, conclusion>>
attemptVars == <<attempts, deadline>>
tables      == <<jobs, conclusion, attempts, deadline, assignments, pending, checks>>
sweepLocals == <<more, rows, row, due, asked, resume>>
sweepVars   == <<sweepAt, sweepNow, more, rows, row, due, asked, resume>>
vars        == <<tables, deliveries, intakeSuspended, alarm, sweepVars>>

AwaitPoints   == {"provisioning", "reclaiming", "readingJob", "probing", "readingConclusion"}
RunningPoints == {"drain", "drained", "expire", "overdue", "exits", "checks"}

EventLoopFree == sweepAt \notin RunningPoints

\* Anything older than the oldest "now" a sweep can hold is long past.
Past     == -MaxSweepAge
Later(t) == IF t > Past THEN t - 1 ELSE Past
Horizon  == Past..(AssignmentTimeout + RuntimeTimeout + CheckInterval)

TypeOK ==
  /\ jobs \in [Jobs -> JobStates \cup {"absent"}]
  /\ conclusion \in [Jobs -> Conclusions \cup {"unknown", None}]
  /\ attempts \in [Runners -> AttemptStates \cup {"absent"}]
  /\ deadline \in [Runners -> Horizon]
  /\ assignments \in [Jobs -> Runners \cup {None}]
  /\ pending \in [Jobs -> 0..MaxAttempts]
  /\ checks \in [Jobs -> Horizon \cup {None}]
  /\ deliveries \subseteq Deliveries
  /\ intakeSuspended \in BOOLEAN
  /\ alarm \in Nat \cup {None}
  /\ sweepAt \in AwaitPoints \cup RunningPoints \cup {"idle"}
  /\ sweepNow \in Past..0
  /\ more \in BOOLEAN
  /\ rows \subseteq Runners
  /\ row \in Runners \cup {None}
  /\ due \subseteq Jobs
  /\ asked \in Jobs \cup {None}
  /\ resume \in RunningPoints

Init ==
  /\ jobs = [j \in Jobs |-> "absent"]
  /\ conclusion = [j \in Jobs |-> None]
  /\ attempts = [r \in Runners |-> "absent"]
  /\ deadline = [r \in Runners |-> Past]
  /\ assignments = [j \in Jobs |-> None]
  /\ pending = [j \in Jobs |-> 0]
  /\ checks = [j \in Jobs |-> None]
  /\ deliveries = {}
  /\ intakeSuspended = FALSE
  /\ alarm = None
  /\ sweepAt = "idle" /\ sweepNow = 0 /\ more = FALSE
  /\ rows = {} /\ row = None /\ due = {} /\ asked = None /\ resume = "drained"

-----------------------------------------------------------------------------
(* Queries on the tables. *)

\* Mutant: a container that is up no longer counts as an attempt in progress.
StartingAttempts(j) == {r \in Runners : TriggeringJob(r) = j /\ attempts[r] \in {"created", "starting"}}

ViableAttempts(j) == {r \in Runners : TriggeringJob(r) = j /\ attempts[r] \in ViableStates}
ActiveAttempts    == {r \in Runners : attempts[r] \in ActiveStates}
PendingJobs       == {j \in Jobs : pending[j] # 0}

\* Mutant: one pending row too many.
HasCapacityOffByOne ==
  Cardinality(PendingJobs) <= MaxPendingJobs /\ Cardinality(ActiveAttempts) < MaxActiveAttempts

HasCapacity ==
  /\ Cardinality(PendingJobs) < MaxPendingJobs
  /\ Cardinality(ActiveAttempts) < MaxActiveAttempts

\* Mutant: a job that waits for a new attempt is taken for one that has it.
DominatedWhenKnown(j, action) ==
  jobs[j] \in TerminalStates \/ (action = "queued" /\ jobs[j] \in {"running", "queued"})

Dominated(j, action) ==
  \/ jobs[j] \in TerminalStates
  \/ action = "queued" /\ jobs[j] = "running"

\* Mutant: any free number will do.
IsFreeAttempt(j, n) == attempts[<<j, n>>] = "absent"

\* The number createAttempt gives: one more than the greatest.
IsNextAttempt(j, n) == \A m \in 1..MaxAttempts : attempts[<<j, m>>] # "absent" <=> m < n

\* The job an attempt's container is taken to have run.
AssignedJob(r, j) ==
  \/ assignments[j] = r
  \/ j = TriggeringJob(r) /\ \A k \in Jobs : assignments[k] # r

UnassignedExpired(r) == attempts[r] \in ViableStates /\ deadline[r] <= sweepNow
Overdue(r)           == attempts[r] = "running" /\ deadline[r] <= sweepNow
Live(r)              == attempts[r] \in LiveStates

-----------------------------------------------------------------------------
(* Updates the handlers share. *)

RetireAttempts(R, state) ==
  /\ attempts' = [r \in Runners |-> IF r \in R THEN state ELSE attempts[r]]
  /\ deadline' = [r \in Runners |-> IF r \in R THEN Past ELSE deadline[r]]

\* Mutant: the conclusion goes straight into the state column.
ConclusionAsState(c) == c

FinalState(c) ==
  CASE c = "success" -> "completed" [] c = "cancelled" -> "cancelled" [] OTHER -> "failed"

Conclude(j, c) ==
  /\ IF jobs[j] = "absent"
     THEN UNCHANGED jobVars
     ELSE /\ jobs' = [jobs EXCEPT ![j] = FinalState(c)]
          /\ conclusion' = [conclusion EXCEPT ![j] = c]
  /\ checks' = [checks EXCEPT ![j] = None]

\* Mutants: the pending row survives; a waiting job is not queued again.
RequeueKeepingPending(j) ==
  /\ jobs' = [jobs EXCEPT ![j] =
       IF @ \in {"queued", "provisioning", "waiting_for_assignment"} THEN "queued" ELSE @]
  /\ UNCHANGED pending
RequeueUnlessWaiting(j) ==
  /\ pending' = [pending EXCEPT ![j] = 0]
  /\ jobs' = [jobs EXCEPT ![j] = IF @ = "provisioning" THEN "queued" ELSE @]

RequeueUnassigned(j) ==
  /\ pending' = [pending EXCEPT ![j] = 0]
  /\ jobs' = [jobs EXCEPT ![j] =
       IF @ \in {"queued", "provisioning", "waiting_for_assignment"} THEN "queued" ELSE @]

\* Mutants: the check that the runner, or that the job, is not yet bound is missing.
JobTaken(j, r)    == r = None \/ (r # None /\ attempts[r] = "absent") \/ assignments[j] # None
RunnerTaken(j, r) == \/ r = None \/ (r # None /\ attempts[r] = "absent")
                     \/ \E k \in Jobs : assignments[k] = r

Unassignable(j, r) ==
  \/ r = None
  \/ r # None /\ attempts[r] = "absent"
  \/ assignments[j] # None
  \/ \E k \in Jobs : assignments[k] = r

RecordAssignment(j, r, now) ==
  \/ /\ Unassignable(j, r)
     /\ UNCHANGED <<jobs, attemptVars, assignments, pending>>
  \/ /\ ~Unassignable(j, r)
     /\ jobs' = [jobs EXCEPT ![TriggeringJob(r)] = "queued", ![j] = "running"]
     /\ assignments' = [assignments EXCEPT ![j] = r]
     /\ LET superseded == {q \in Runners \ {r} : TriggeringJob(q) = j /\ attempts[q] = "created"}
        IN /\ attempts' = [q \in Runners |-> IF q = r THEN "running"
                             ELSE IF q \in superseded THEN "stopped" ELSE attempts[q]]
           /\ deadline' = [q \in Runners |-> IF q = r THEN now + RuntimeTimeout
                             ELSE IF q \in superseded THEN Past ELSE deadline[q]]
     /\ pending' = [pending EXCEPT ![j] = 0, ![TriggeringJob(r)] = 0]

CreateAttempt(j) ==
  \E n \in 1..MaxAttempts :
    /\ IsNextAttempt(j, n)
    /\ jobs' = [jobs EXCEPT ![j] = "queued"]
    /\ attempts' = [attempts EXCEPT ![<<j, n>>] = "created"]
    /\ deadline' = [deadline EXCEPT ![<<j, n>>] = AssignmentTimeout]
    /\ pending' = [pending EXCEPT ![j] = n]

-----------------------------------------------------------------------------
(* Intake.  A delivery already recorded is a duplicate: it changes nothing. *)

Receive(d) ==
  /\ EventLoopFree
  /\ d \notin deliveries
  /\ deliveries' = deliveries \cup {d}

\* Mutant: nothing wakes the object for the new job.
LeaveAlarm == UNCHANGED alarm

WakeForNewJob == alarm' = SchedulerTick

\* What accept and reconcile make of a queued job, alarm included.
AcceptQueued(j) ==
  \/ /\ Dominated(j, "queued") \/ ViableAttempts(j) # {}
     /\ UNCHANGED <<jobs, attemptVars, pending, alarm>>
  \/ /\ ~Dominated(j, "queued") /\ ViableAttempts(j) = {}
     /\ ~HasCapacity
     /\ jobs' = [jobs EXCEPT ![j] = "capacity_limited"]
     /\ UNCHANGED <<attemptVars, pending, alarm>>
  \/ /\ ~Dominated(j, "queued") /\ ViableAttempts(j) = {}
     /\ HasCapacity
     /\ CreateAttempt(j)
     /\ WakeForNewJob

AcceptQueuedDelivery(d, j) ==
  /\ ~intakeSuspended
  /\ Receive(d)
  /\ AcceptQueued(j)
  /\ UNCHANGED <<conclusion, assignments, checks, intakeSuspended, sweepVars>>

\* Mutant: the cron brings its jobs in although intake is suspended.
ReconcileAnyway(j) ==
  /\ EventLoopFree
  /\ AcceptQueued(j)
  /\ UNCHANGED <<conclusion, assignments, checks, deliveries, intakeSuspended, sweepVars>>

Reconcile(j) ==
  /\ ~intakeSuspended
  /\ EventLoopFree
  /\ AcceptQueued(j)
  /\ UNCHANGED <<conclusion, assignments, checks, deliveries, intakeSuspended, sweepVars>>

\* While intake is suspended a queued job is only written down.
RecordDeferred(j) ==
  jobs' = [jobs EXCEPT ![j] =
    IF Dominated(j, "queued") \/ ViableAttempts(j) # {} THEN @ ELSE "queued"]

DeferDelivery(d, j) ==
  /\ intakeSuspended
  /\ Receive(d)
  /\ RecordDeferred(j)
  /\ UNCHANGED <<conclusion, attemptVars, assignments, pending, checks, intakeSuspended,
                 alarm, sweepVars>>

DeferCandidate(j) ==
  /\ intakeSuspended
  /\ EventLoopFree
  /\ RecordDeferred(j)
  /\ UNCHANGED <<conclusion, attemptVars, assignments, pending, checks, deliveries,
                 intakeSuspended, alarm, sweepVars>>

\* r is None when the payload names no runner, or one Jitney never created.
AcceptInProgress(d, j, r) ==
  /\ Receive(d)
  /\ \/ /\ Dominated(j, "in_progress")
        /\ UNCHANGED <<jobs, attemptVars, assignments, pending>>
     \/ /\ ~Dominated(j, "in_progress")
        /\ RecordAssignment(j, r, 0)
  /\ UNCHANGED <<conclusion, checks, intakeSuspended, alarm, sweepVars>>

\* Mutant: every attempt of the job is stopped, and not the one that ran it.
CompletionStopsAttempts(j, c) ==
  /\ Conclude(j, c)
  /\ RetireAttempts({r \in Runners : TriggeringJob(r) = j}, "stopped")
  /\ pending' = [pending EXCEPT ![j] = 0]

RecordCompletion(j, c) ==
  /\ Conclude(j, c)
  /\ RetireAttempts({assignments[j]}, "stopped")
  /\ pending' = [pending EXCEPT ![j] = 0]

\* c is "unknown" when the payload carries no conclusion.
AcceptCompleted(d, j, c) ==
  /\ Receive(d)
  /\ \/ /\ Dominated(j, "completed")
        /\ UNCHANGED <<jobVars, attemptVars, pending, checks>>
     \/ /\ ~Dominated(j, "completed")
        /\ RecordCompletion(j, c)
  /\ UNCHANGED <<assignments, intakeSuspended, alarm, sweepVars>>

SuspendIntake ==
  /\ EventLoopFree
  /\ intakeSuspended' = TRUE
  /\ UNCHANGED <<tables, deliveries, alarm, sweepVars>>

ResumeIntake ==
  /\ EventLoopFree
  /\ intakeSuspended' = FALSE
  /\ UNCHANGED <<tables, deliveries, alarm, sweepVars>>

-----------------------------------------------------------------------------
(* The sweep.  Each phase selects its rows once and then handles them one by  *)
(* one in the order the database returned them, which is any order.           *)

\* The phase the sweep enters, with the rows it selects there.
Goto(point) == sweepAt' = point /\ UNCHANGED <<sweepNow, more, rows, row, due, asked, resume>>

AlarmFires ==
  /\ sweepAt = "idle"
  /\ alarm = 0
  /\ alarm' = None
  /\ sweepAt' = "drain"
  /\ sweepNow' = 0
  /\ UNCHANGED <<tables, deliveries, intakeSuspended, sweepLocals>>

\* drainPending up to its await: one pending row, the one with the lowest job id.
StartProvisioning ==
  /\ sweepAt = "drain"
  /\ \E j \in PendingJobs :
       /\ \A k \in PendingJobs : j <= k
       /\ jobs' = [jobs EXCEPT ![j] = "provisioning"]
       /\ attempts' = [attempts EXCEPT ![<<j, pending[j]>>] = "starting"]
       /\ row' = <<j, pending[j]>>
  /\ sweepAt' = "provisioning"
  /\ UNCHANGED <<conclusion, deadline, assignments, pending, checks, deliveries,
                 intakeSuspended, alarm, sweepNow, more, rows, due, asked, resume>>

NothingPending ==
  /\ sweepAt = "drain"
  /\ PendingJobs = {}
  /\ Goto("drained")
  /\ UNCHANGED <<tables, deliveries, intakeSuspended, alarm>>

MoveJob(j, from, to) == jobs' = [jobs EXCEPT ![j] = IF @ = from THEN to ELSE @]

FinishProvisioning ==
  /\ MoveJob(row[1], "provisioning", "waiting_for_assignment")
  /\ attempts' = [attempts EXCEPT ![row] =
       IF @ = "starting" THEN "waiting_for_assignment" ELSE @]
  /\ UNCHANGED deadline

FailProvisioning ==
  /\ MoveJob(row[1], "provisioning", "queued")
  /\ RetireAttempts({row} \cap {r \in Runners : attempts[r] = "starting"}, "failed")

\* provision answered "started", "refused" before the container was asked for, or
\* "container_start" when that last step failed, whose runner must be reclaimed.
Provisioned(answer) ==
  /\ sweepAt = "provisioning"
  /\ \/ answer = "started" /\ FinishProvisioning
     \/ answer # "started" /\ FailProvisioning
  /\ pending' = [pending EXCEPT ![row[1]] = 0]
  /\ IF answer = "container_start"
     THEN sweepAt' = "reclaiming" /\ resume' = "drained" /\ UNCHANGED row
     ELSE sweepAt' = "drained" /\ row' = None /\ UNCHANGED resume
  /\ UNCHANGED <<conclusion, assignments, checks, deliveries, intakeSuspended, alarm,
                 sweepNow, more, rows, due, asked>>

SelectUnassigned ==
  /\ sweepAt = "drained"
  /\ more' = (PendingJobs # {})
  /\ rows' = {r \in Runners : UnassignedExpired(r)}
  /\ sweepAt' = "expire"
  /\ UNCHANGED <<tables, deliveries, intakeSuspended, alarm, sweepNow, row, due, asked, resume>>

\* Ask GitHub about the job the attempt was created for.
ReadTriggeringJob ==
  /\ sweepAt = "expire"
  /\ \E r \in rows : row' = r /\ rows' = rows \ {r}
  /\ sweepAt' = "readingJob"
  /\ UNCHANGED <<tables, deliveries, intakeSuspended, alarm, sweepNow, more, due, asked, resume>>

\* claimed: the answer says this runner has the job in progress.
TriggeringJobRead(claimed) ==
  /\ sweepAt = "readingJob"
  /\ \/ /\ claimed
        /\ \/ UnassignedExpired(row) /\ RecordAssignment(TriggeringJob(row), row, sweepNow)
           \/ ~UnassignedExpired(row) /\ UNCHANGED <<jobs, attemptVars, assignments, pending>>
        /\ sweepAt' = "expire" /\ row' = None /\ UNCHANGED resume
     \/ /\ ~claimed /\ UnassignedExpired(row)
        /\ RetireAttempts({row}, "expired")
        /\ RequeueUnassigned(TriggeringJob(row))
        /\ sweepAt' = "reclaiming" /\ resume' = "expire"
        /\ UNCHANGED <<assignments, row>>
     \/ /\ ~claimed /\ ~UnassignedExpired(row)
        /\ sweepAt' = "expire" /\ row' = None
        /\ UNCHANGED <<jobs, attemptVars, assignments, pending, resume>>
  /\ UNCHANGED <<conclusion, checks, deliveries, intakeSuspended, alarm,
                 sweepNow, more, rows, due, asked>>

SelectOverdue ==
  /\ sweepAt = "expire" /\ rows = {}
  /\ rows' = {r \in Runners : Overdue(r)}
  /\ sweepAt' = "overdue"
  /\ UNCHANGED <<tables, deliveries, intakeSuspended, alarm, sweepNow, more, row, due, asked, resume>>

\* Mutant: an ended attempt leaves its job to the webhook.
TrustWebhook(j) == j \in Jobs /\ UNCHANGED checks

ScheduleConclusionCheck(j) == checks' = [checks EXCEPT ![j] = sweepNow]

\* The first row runs in the segment that selected it; a later one after a reclaim
\* during which its attempt may have ended.
ExpireRunning(r) ==
  /\ sweepAt = "overdue" /\ r \in rows
  /\ rows' = rows \ {r}
  /\ \/ /\ Overdue(r)
        /\ RetireAttempts({r}, "expired")
        /\ \E j \in Jobs : /\ AssignedJob(r, j)
                           /\ pending' = [pending EXCEPT ![j] = 0]
                           /\ ScheduleConclusionCheck(j)
        /\ sweepAt' = "reclaiming" /\ resume' = "overdue" /\ row' = r
     \/ /\ ~Overdue(r)
        /\ UNCHANGED <<attemptVars, pending, checks, sweepAt, resume, row>>
  /\ UNCHANGED <<jobVars, assignments, deliveries, intakeSuspended, alarm,
                 sweepNow, more, due, asked>>

SelectLive ==
  /\ sweepAt = "overdue" /\ rows = {}
  /\ rows' = {r \in Runners : Live(r)}
  /\ sweepAt' = "exits"
  /\ UNCHANGED <<tables, deliveries, intakeSuspended, alarm, sweepNow, more, row, due, asked, resume>>

Probe ==
  /\ sweepAt = "exits"
  /\ \E r \in rows : row' = r /\ rows' = rows \ {r}
  /\ sweepAt' = "probing"
  /\ UNCHANGED <<tables, deliveries, intakeSuspended, alarm, sweepNow, more, due, asked, resume>>

\* running is also the answer of a probe that failed.
Probed(running) ==
  /\ sweepAt = "probing"
  /\ \/ /\ ~running /\ Live(row)
        /\ RetireAttempts({row}, "stopped")
        /\ \E j \in Jobs : AssignedJob(row, j) /\ ScheduleConclusionCheck(j)
        /\ sweepAt' = "reclaiming" /\ resume' = "exits" /\ UNCHANGED row
     \/ /\ running \/ ~Live(row)
        /\ sweepAt' = "exits" /\ row' = None
        /\ UNCHANGED <<attemptVars, checks, resume>>
  /\ UNCHANGED <<jobVars, assignments, pending, deliveries, intakeSuspended, alarm,
                 sweepNow, more, rows, due, asked>>

\* A reclaim that failed is logged, and the sweep goes on as after one that did not.
Reclaimed ==
  /\ sweepAt = "reclaiming"
  /\ sweepAt' = resume /\ row' = None
  /\ UNCHANGED <<tables, deliveries, intakeSuspended, alarm,
                 sweepNow, more, rows, due, asked, resume>>

SelectChecks ==
  /\ sweepAt = "exits" /\ rows = {}
  /\ due' = {j \in Jobs : checks[j] # None /\ checks[j] <= sweepNow}
  /\ sweepAt' = "checks"
  /\ UNCHANGED <<tables, deliveries, intakeSuspended, alarm, sweepNow, more, rows, row, asked, resume>>

ReadConclusion ==
  /\ sweepAt = "checks"
  /\ \E j \in due : asked' = j /\ due' = due \ {j}
  /\ sweepAt' = "readingConclusion"
  /\ UNCHANGED <<tables, deliveries, intakeSuspended, alarm, sweepNow, more, rows, row, resume>>

\* answer is "queued", "in_progress" (also a read that failed), or the conclusion of a
\* job that is completed or, "unknown", that GitHub no longer knows.
ConclusionRead(answer) ==
  /\ sweepAt = "readingConclusion"
  /\ \/ /\ checks[asked] = None
        /\ UNCHANGED <<jobVars, pending, checks>>
     \/ /\ checks[asked] # None /\ answer = "queued"
        /\ RequeueUnassigned(asked)
        /\ checks' = [checks EXCEPT ![asked] = None]
        /\ UNCHANGED conclusion
     \/ /\ checks[asked] # None /\ answer = "in_progress"
        /\ checks' = [checks EXCEPT ![asked] = sweepNow + CheckInterval]
        /\ UNCHANGED <<jobVars, pending>>
     \/ /\ checks[asked] # None /\ answer \notin {"queued", "in_progress"}
        /\ Conclude(asked, answer)
        /\ UNCHANGED pending
  /\ sweepAt' = "checks" /\ asked' = None
  /\ UNCHANGED <<attemptVars, assignments, deliveries, intakeSuspended, alarm,
                 sweepNow, more, rows, row, due, resume>>

\* Mutants: nextWake without the checks; without the assignment deadlines.
WakesForAttempts ==
  {deadline[r] : r \in ActiveAttempts}
    \cup {sweepNow + CheckInterval : r \in {q \in Runners : Live(q)}}
WakesForRunning ==
  {deadline[r] : r \in {q \in Runners : attempts[q] = "running"}}
    \cup {checks[j] : j \in {k \in Jobs : checks[k] # None}}
    \cup {sweepNow + CheckInterval : r \in {q \in Runners : Live(q)}}

\* nextWake: the deadlines of active attempts, the checks, and the next container check.
Wakes ==
  {deadline[r] : r \in ActiveAttempts}
    \cup {checks[j] : j \in {k \in Jobs : checks[k] # None}}
    \cup {sweepNow + CheckInterval : r \in {q \in Runners : Live(q)}}

AtLeast(t, bound) == IF t < bound THEN bound ELSE t

\* wakeAt is not None; an alarm set in the past fires at once.
SetAlarm(wakeAt) == alarm' = AtLeast(AtLeast(wakeAt, sweepNow + SchedulerTick), 0)

Rearm ==
  /\ sweepAt = "checks" /\ due = {}
  /\ \/ more /\ SetAlarm(sweepNow + SchedulerTick)
     \/ /\ ~more
        /\ \E t \in Wakes : SetAlarm(t) /\ \A u \in Wakes : t <= u
     \/ ~more /\ Wakes = {} /\ UNCHANGED alarm
  /\ sweepAt' = "idle" /\ sweepNow' = 0 /\ more' = FALSE
  /\ resume' = "drained"
  /\ UNCHANGED <<tables, deliveries, intakeSuspended, rows, row, due, asked>>

-----------------------------------------------------------------------------
(* The platform. *)

\* The object is evicted or its isolate dies at an await.  Storage survives, the
\* handler does not, and an alarm whose handler did not finish is delivered again.
Restart ==
  /\ sweepAt \in AwaitPoints
  /\ alarm' = IF alarm = None THEN 0 ELSE alarm
  /\ sweepAt' = "idle" /\ sweepNow' = 0 /\ more' = FALSE
  /\ rows' = {} /\ row' = None /\ due' = {} /\ asked' = None /\ resume' = "drained"
  /\ UNCHANGED <<tables, deliveries, intakeSuspended>>

Tick ==
  /\ EventLoopFree
  /\ sweepAt # "idle" => sweepNow > Past
  /\ deadline' = [r \in Runners |-> Later(deadline[r])]
  /\ checks' = [j \in Jobs |-> IF checks[j] = None THEN None ELSE Later(checks[j])]
  /\ alarm' = IF alarm \in {None, 0} THEN alarm ELSE alarm - 1
  /\ sweepNow' = IF sweepAt = "idle" THEN 0 ELSE sweepNow - 1
  /\ UNCHANGED <<jobVars, attempts, assignments, pending, deliveries, intakeSuspended,
                 sweepAt, sweepLocals>>

-----------------------------------------------------------------------------

Intake ==
  \/ \E d \in Deliveries, j \in Jobs :
       \/ AcceptQueuedDelivery(d, j)
       \/ DeferDelivery(d, j)
       \/ \E r \in Runners \cup {None} : AcceptInProgress(d, j, r)
       \/ \E c \in Conclusions \cup {"unknown"} : AcceptCompleted(d, j, c)
  \/ \E j \in Jobs : Reconcile(j) \/ DeferCandidate(j)
  \/ SuspendIntake
  \/ ResumeIntake

Sweep ==
  \/ AlarmFires
  \/ StartProvisioning
  \/ NothingPending
  \/ \E answer \in {"started", "refused", "container_start"} : Provisioned(answer)
  \/ SelectUnassigned
  \/ ReadTriggeringJob
  \/ \E claimed \in BOOLEAN : TriggeringJobRead(claimed)
  \/ SelectOverdue
  \/ \E r \in Runners : ExpireRunning(r)
  \/ SelectLive
  \/ Probe
  \/ \E running \in BOOLEAN : Probed(running)
  \/ Reclaimed
  \/ SelectChecks
  \/ ReadConclusion
  \/ \E answer \in {"queued", "in_progress", "unknown"} \cup Conclusions : ConclusionRead(answer)
  \/ Rearm

Next == Intake \/ Sweep \/ Restart \/ Tick

Spec == Init /\ [][Next]_vars

-----------------------------------------------------------------------------
(* Properties. *)

\* A job has at most one attempt on its way to a runner, however webhooks, the cron,
\* restarts and the sweep interleave: #viableAttempt is consulted in the transaction
\* that creates the next one.
OneViableAttempt ==
  \A r, q \in Runners :
    /\ attempts[r] \in ViableStates /\ attempts[q] \in ViableStates
    /\ TriggeringJob(r) = TriggeringJob(q)
    => r = q

\* A pending row names an attempt whose container was not yet confirmed, so the sweep
\* never provisions an attempt that was assigned, expired or ended since it was queued.
PendingNotStarted ==
  \A j \in PendingJobs :
    /\ attempts[<<j, pending[j]>>] \in {"created", "starting"}
    /\ jobs[j] \in {"queued", "provisioning"} \cup TerminalStates

\* The assignments table and the attempt states tell one story: two jobs never share a
\* runner, an attempt is running only for a job bound to it, and a bound attempt is never
\* again one that the assignment deadline could expire.
AssignmentsMatchAttempts ==
  /\ \A j, k \in Jobs : assignments[j] # None /\ assignments[j] = assignments[k] => j = k
  /\ \A r \in Runners : attempts[r] = "running" => \E j \in Jobs : assignments[j] = r
  /\ \A j \in Jobs : assignments[j] # None
       => attempts[assignments[j]] \notin ViableStates \cup {"absent"}

\* No job is left waiting for a runner that no longer exists: a job shown as provisioning
\* or waiting has a viable attempt or a conclusion check that will settle it, and a
\* running job has a runner.
NoForgottenJob ==
  \A j \in Jobs :
    /\ jobs[j] \in {"provisioning", "waiting_for_assignment"}
         => ViableAttempts(j) # {} \/ checks[j] # None
    /\ jobs[j] = "running" => assignments[j] # None

\* Rows refer to rows: an attempt, an assignment or a check exists only for a job that
\* does, and a job's attempts are numbered without a gap.
ReferencesHold ==
  /\ \A r \in Runners : attempts[r] # "absent" => jobs[TriggeringJob(r)] # "absent"
  /\ \A j \in Jobs : assignments[j] # None \/ checks[j] # None => jobs[j] # "absent"
  /\ \A j \in Jobs, n \in 1..MaxAttempts : attempts[<<j, n>>] # "absent"
       => \A m \in 1..n : attempts[<<j, m>>] # "absent"

\* maxPendingJobs and maxActiveAttempts bound what they are meant to bound: the pending
\* rows, and the attempts on their way to a runner.
WithinCapacity ==
  /\ Cardinality(PendingJobs) <= MaxPendingJobs
  /\ Cardinality({r \in Runners : attempts[r] \in ViableStates}) <= MaxActiveAttempts

\* The object never goes to sleep on work it still owes: while a viable attempt or a
\* conclusion check exists, a sweep is under way or an alarm is set.
WakeupArmed ==
  \/ \E r \in Runners : attempts[r] \in ViableStates
  \/ \E j \in Jobs : checks[j] # None
  => sweepAt # "idle" \/ alarm # None

\* And it wakes in time: between sweeps the alarm is no later than the assignment
\* deadline of every viable attempt and the time of every check, one tick aside.
DeadlinesWatched ==
  sweepAt = "idle" =>
    /\ \A r \in Runners : attempts[r] \in ViableStates
         => alarm # None /\ alarm <= AtLeast(deadline[r], SchedulerTick)
    /\ \A j \in Jobs : checks[j] # None
         => alarm # None /\ alarm <= AtLeast(checks[j], SchedulerTick)

\* An assignment is for ever: no delivery, sweep or restart moves a job to another runner.
BindingsPermanent ==
  [][\A j \in Jobs : assignments[j] # None => assignments'[j] = assignments[j]]_vars

\* An attempt that failed, expired or was stopped becomes active again in one way only,
\* by the first assignment of a job to its runner, and then it is running.
RevivedOnlyByAssignment ==
  [][\A r \in Runners :
       /\ attempts[r] \in {"failed", "stopped", "expired"}
       /\ attempts'[r] \in ActiveStates
       => /\ attempts'[r] = "running"
          /\ \A j \in Jobs : assignments[j] # r
          /\ \E j \in Jobs : assignments'[j] = r]_vars

\* What drain waits for lasts: once intake is suspended and no attempt is active, only
\* a runner that GitHub says has taken a job makes one active again; no pending row, no
\* sweep that was under way and no job of the cron does.
DrainedStaysDrained ==
  [][intakeSuspended /\ ActiveAttempts = {} =>
       \A r \in Runners : attempts'[r] \in ActiveStates =>
         /\ attempts'[r] = "running"
         /\ \A j \in Jobs : assignments[j] # r
         /\ \E j \in Jobs : assignments'[j] = r]_vars

-----------------------------------------------------------------------------
(* The Scheduler keeps an attempt ledger. *)

PhaseOf(state) ==
  IF state = "absent" THEN "none"
  ELSE IF state \in ViableStates THEN "open"
  ELSE IF state = "running" THEN "busy" ELSE "over"

Ledger == INSTANCE AttemptLedger WITH
  phase <- [r \in Runners |-> PhaseOf(attempts[r])],
  boundTo <- assignments

\* Every step of the Scheduler opens, binds or closes at most one attempt as the ledger
\* allows, whatever else it does to pending rows, checks, deadlines and the alarm.
KeepsLedger == Ledger!LedgerSpec

=============================================================================
