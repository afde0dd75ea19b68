-------------------------- MODULE SchedulerProofs --------------------------
(***************************************************************************)
(* Proofs about module Scheduler, for every set of jobs, every number of   *)
(* attempts, every capacity and every choice of timeouts.                  *)
(***************************************************************************)
EXTENDS Scheduler, TLAPS

\* The sweep holds a row in hand wherever it uses one.
HoldsRow ==
  /\ sweepAt \in AwaitPoints \ {"readingConclusion"} => row \in Runners
  /\ sweepAt = "readingConclusion" => asked \in Jobs

Typed == TypeOK /\ HoldsRow

-----------------------------------------------------------------------------
(* The constants. *)

LEMMA HorizonFacts ==
  /\ Past \in Int /\ Past <= 0 /\ 0 \in Past..0 /\ Past \in Horizon
  /\ \A t \in Past..0 : /\ t \in Horizon
                        /\ t + RuntimeTimeout \in Horizon
                        /\ t + CheckInterval \in Horizon
  /\ AssignmentTimeout \in Horizon
  /\ \A t \in Horizon : t \in Int /\ t >= Past /\ t # None /\ Later(t) \in Horizon
BY TimeAssumption, NoneAssumption DEF Past, Horizon, Later

LEMMA RunnerFacts ==
  /\ None \notin Runners
  /\ \A r \in Runners : /\ TriggeringJob(r) \in Jobs
                        /\ r[1] \in Jobs /\ r[2] \in 1..MaxAttempts
                        /\ r = <<TriggeringJob(r), r[2]>>
  /\ \A j \in Jobs, n \in 1..MaxAttempts : <<j, n>> \in Runners /\ TriggeringJob(<<j, n>>) = j
  /\ 0 \in 0..MaxAttempts
BY NoneAssumption, AttemptsAssumption DEF Runners, TriggeringJob

-----------------------------------------------------------------------------
(* Types. *)

LEMMA RetireTyped ==
  ASSUME NEW R, NEW state \in AttemptStates,
         attempts \in [Runners -> AttemptStates \cup {"absent"}],
         deadline \in [Runners -> Horizon],
         RetireAttempts(R, state)
  PROVE  /\ attempts' \in [Runners -> AttemptStates \cup {"absent"}]
         /\ deadline' \in [Runners -> Horizon]
BY HorizonFacts DEF RetireAttempts

LEMMA ConcludeTyped ==
  ASSUME NEW j \in Jobs, NEW c \in Conclusions \cup {"unknown"}, TypeOK, Conclude(j, c)
  PROVE  /\ jobs' \in [Jobs -> JobStates \cup {"absent"}]
         /\ conclusion' \in [Jobs -> Conclusions \cup {"unknown", None}]
         /\ checks' \in [Jobs -> Horizon \cup {None}]
BY DEF TypeOK, Conclude, FinalState, jobVars, JobStates, TerminalStates

LEMMA RequeueTyped ==
  ASSUME NEW j \in Jobs, TypeOK, RequeueUnassigned(j)
  PROVE  /\ jobs' \in [Jobs -> JobStates \cup {"absent"}]
         /\ pending' \in [Jobs -> 0..MaxAttempts]
BY AttemptsAssumption DEF TypeOK, RequeueUnassigned, JobStates

LEMMA AssignmentTyped ==
  ASSUME NEW j \in Jobs, NEW r \in Runners \cup {None}, NEW now \in Past..0, TypeOK,
         RecordAssignment(j, r, now)
  PROVE  /\ jobs' \in [Jobs -> JobStates \cup {"absent"}]
         /\ attempts' \in [Runners -> AttemptStates \cup {"absent"}]
         /\ deadline' \in [Runners -> Horizon]
         /\ assignments' \in [Jobs -> Runners \cup {None}]
         /\ pending' \in [Jobs -> 0..MaxAttempts]
<1>1. CASE Unassignable(j, r)
  BY <1>1 DEF RecordAssignment, TypeOK, attemptVars
<1>2. CASE ~Unassignable(j, r)
  <2>1. r \in Runners
    BY <1>2 DEF Unassignable
  <2>2. now + RuntimeTimeout \in Horizon /\ Past \in Horizon
    BY HorizonFacts
  <2>3. jobs' \in [Jobs -> JobStates \cup {"absent"}]
    BY <1>2, <2>1, RunnerFacts DEF RecordAssignment, TypeOK, JobStates
  <2>4. attempts' \in [Runners -> AttemptStates \cup {"absent"}]
    BY <1>2 DEF RecordAssignment, TypeOK, AttemptStates, ActiveStates
  <2>5. deadline' \in [Runners -> Horizon]
    BY <1>2, <2>2 DEF RecordAssignment, TypeOK
  <2>6. assignments' \in [Jobs -> Runners \cup {None}]
    BY <1>2 DEF RecordAssignment, TypeOK
  <2>7. pending' \in [Jobs -> 0..MaxAttempts]
    <3>1. pending' = [pending EXCEPT ![j] = 0, ![TriggeringJob(r)] = 0]
      BY <1>2 DEF RecordAssignment
    <3>2. 0 \in 0..MaxAttempts
      BY AttemptsAssumption
    <3> QED
      BY <2>1, <3>1, <3>2, RunnerFacts DEF TypeOK
  <2> QED
    BY <2>3, <2>4, <2>5, <2>6, <2>7
<1> QED BY <1>1, <1>2

LEMMA CreateTyped ==
  ASSUME NEW j \in Jobs, TypeOK, CreateAttempt(j)
  PROVE  /\ jobs' \in [Jobs -> JobStates \cup {"absent"}]
         /\ attempts' \in [Runners -> AttemptStates \cup {"absent"}]
         /\ deadline' \in [Runners -> Horizon]
         /\ pending' \in [Jobs -> 0..MaxAttempts]
BY HorizonFacts, RunnerFacts, AttemptsAssumption
DEF CreateAttempt, TypeOK, JobStates, AttemptStates, ActiveStates, ViableStates

LEMMA AcceptQueuedTyped ==
  ASSUME NEW j \in Jobs, TypeOK, AcceptQueued(j)
  PROVE  /\ jobs' \in [Jobs -> JobStates \cup {"absent"}]
         /\ attempts' \in [Runners -> AttemptStates \cup {"absent"}]
         /\ deadline' \in [Runners -> Horizon]
         /\ pending' \in [Jobs -> 0..MaxAttempts]
         /\ alarm' \in Nat \cup {None}
BY CreateTyped, TimeAssumption
DEF AcceptQueued, WakeForNewJob, TypeOK, attemptVars, JobStates

LEMMA TypedStep == Typed /\ [Next]_vars => Typed'
<1> SUFFICES ASSUME Typed, [Next]_vars PROVE Typed'
  OBVIOUS
<1> USE DEF Typed, TypeOK, HoldsRow
<1>1. ASSUME NEW d \in Deliveries, NEW j \in Jobs, AcceptQueuedDelivery(d, j) PROVE Typed'
  BY <1>1, AcceptQueuedTyped DEF AcceptQueuedDelivery, Receive, sweepVars
<1>2. ASSUME NEW d \in Deliveries, NEW j \in Jobs, DeferDelivery(d, j) PROVE Typed'
  BY <1>2 DEF DeferDelivery, Receive, RecordDeferred, attemptVars, sweepVars, JobStates
<1>3. ASSUME NEW d \in Deliveries, NEW j \in Jobs, NEW r \in Runners \cup {None},
             AcceptInProgress(d, j, r)
      PROVE  Typed'
  <2>1. 0 \in Past..0
    BY HorizonFacts
  <2>2. CASE RecordAssignment(j, r, 0)
    BY <1>3, <2>1, <2>2, AssignmentTyped DEF AcceptInProgress, Receive, sweepVars
  <2>3. CASE UNCHANGED <<jobs, attemptVars, assignments, pending>>
    BY <1>3, <2>3 DEF AcceptInProgress, Receive, sweepVars, attemptVars
  <2> QED
    BY <1>3, <2>2, <2>3 DEF AcceptInProgress
<1>4. ASSUME NEW d \in Deliveries, NEW j \in Jobs, NEW c \in Conclusions \cup {"unknown"},
             AcceptCompleted(d, j, c)
      PROVE  Typed'
  <2>1. CASE RecordCompletion(j, c)
    <3>1. pending' \in [Jobs -> 0..MaxAttempts]
      BY <2>1, AttemptsAssumption DEF RecordCompletion
    <3>2. "stopped" \in AttemptStates
      BY DEF AttemptStates
    <3> QED
      BY <1>4, <2>1, <3>1, <3>2, ConcludeTyped, RetireTyped
      DEF RecordCompletion, AcceptCompleted, Receive, sweepVars
  <2>2. CASE UNCHANGED <<jobVars, attemptVars, pending, checks>>
    BY <1>4, <2>2 DEF AcceptCompleted, Receive, sweepVars, attemptVars, jobVars
  <2> QED
    BY <1>4, <2>1, <2>2 DEF AcceptCompleted
<1>5. ASSUME NEW j \in Jobs, Reconcile(j) PROVE Typed'
  BY <1>5, AcceptQueuedTyped DEF Reconcile, sweepVars
<1>6. ASSUME NEW j \in Jobs, DeferCandidate(j) PROVE Typed'
  BY <1>6 DEF DeferCandidate, RecordDeferred, attemptVars, sweepVars, JobStates
<1>7. CASE SuspendIntake \/ ResumeIntake
  BY <1>7 DEF SuspendIntake, ResumeIntake, tables, sweepVars
<1>8. CASE AlarmFires
  BY <1>8, HorizonFacts DEF AlarmFires, tables, sweepLocals, RunningPoints, AwaitPoints
<1>9. CASE StartProvisioning
  BY <1>9, RunnerFacts DEF StartProvisioning, PendingJobs, AwaitPoints, JobStates, AttemptStates,
                           ActiveStates, ViableStates
<1>10. CASE NothingPending
  BY <1>10 DEF NothingPending, Goto, tables, RunningPoints, AwaitPoints
<1>11. ASSUME NEW answer \in {"started", "refused", "container_start"}, Provisioned(answer)
       PROVE  Typed'
  <2>1. row \in Runners /\ row[1] \in Jobs
    BY <1>11, RunnerFacts DEF Provisioned, AwaitPoints
  <2>2. jobs' \in [Jobs -> JobStates \cup {"absent"}]
    BY <1>11 DEF Provisioned, FinishProvisioning, FailProvisioning, MoveJob, JobStates
  <2>3. /\ attempts' \in [Runners -> AttemptStates \cup {"absent"}]
        /\ deadline' \in [Runners -> Horizon]
    BY <1>11, RetireTyped DEF Provisioned, FinishProvisioning, FailProvisioning, AttemptStates,
                              ActiveStates, ViableStates
  <2>4. pending' \in [Jobs -> 0..MaxAttempts]
    BY <1>11, <2>1, RunnerFacts DEF Provisioned
  <2> QED
    BY <1>11, <2>1, <2>2, <2>3, <2>4 DEF Provisioned, RunningPoints, AwaitPoints
<1>12. CASE SelectUnassigned
  BY <1>12 DEF SelectUnassigned, tables, RunningPoints, AwaitPoints
<1>13. CASE ReadTriggeringJob
  BY <1>13 DEF ReadTriggeringJob, tables, RunningPoints, AwaitPoints
<1>14. ASSUME NEW claimed \in BOOLEAN, TriggeringJobRead(claimed) PROVE Typed'
  <2>1. row \in Runners /\ TriggeringJob(row) \in Jobs /\ sweepNow \in Past..0
    BY <1>14, RunnerFacts DEF TriggeringJobRead, AwaitPoints
  <2>2. CASE RecordAssignment(TriggeringJob(row), row, sweepNow) /\ sweepAt' = "expire"
    BY <1>14, <2>1, <2>2, AssignmentTyped DEF TriggeringJobRead, RunningPoints, AwaitPoints
  <2>3. CASE UNCHANGED <<jobs, attemptVars, assignments, pending>> /\ sweepAt' = "expire"
    BY <1>14, <2>3 DEF TriggeringJobRead, RunningPoints, AwaitPoints, attemptVars
  <2>4. CASE /\ RetireAttempts({row}, "expired") /\ RequeueUnassigned(TriggeringJob(row))
             /\ sweepAt' = "reclaiming" /\ resume' = "expire" /\ UNCHANGED <<assignments, row>>
    <3>1. "expired" \in AttemptStates
      BY DEF AttemptStates
    <3> QED
      BY <1>14, <2>1, <2>4, <3>1, RetireTyped, RequeueTyped
      DEF TriggeringJobRead, RunningPoints, AwaitPoints
  <2> QED
    BY <1>14, <2>2, <2>3, <2>4 DEF TriggeringJobRead
<1>15. CASE SelectOverdue
  BY <1>15 DEF SelectOverdue, tables, RunningPoints, AwaitPoints
<1>16. ASSUME NEW r \in Runners, ExpireRunning(r) PROVE Typed'
  <2>1. CASE Overdue(r)
    <3>1. "expired" \in AttemptStates
      BY DEF AttemptStates
    <3>2. RetireAttempts({r}, "expired") /\ sweepAt' = "reclaiming" /\ resume' = "overdue" /\ row' = r
      BY <1>16, <2>1 DEF ExpireRunning
    <3>3. /\ pending' \in [Jobs -> 0..MaxAttempts]
          /\ checks' \in [Jobs -> Horizon \cup {None}]
      BY <1>16, <2>1, HorizonFacts, AttemptsAssumption DEF ExpireRunning, ScheduleConclusionCheck
    <3> QED
      BY <1>16, <3>1, <3>2, <3>3, RetireTyped DEF ExpireRunning, jobVars, RunningPoints, AwaitPoints
  <2>2. CASE ~Overdue(r)
    BY <1>16, <2>2 DEF ExpireRunning, attemptVars, jobVars, RunningPoints, AwaitPoints
  <2> QED
    BY <2>1, <2>2
<1>17. CASE SelectLive
  BY <1>17 DEF SelectLive, tables, RunningPoints, AwaitPoints
<1>18. CASE Probe
  BY <1>18 DEF Probe, tables, RunningPoints, AwaitPoints
<1>19. ASSUME NEW running \in BOOLEAN, Probed(running) PROVE Typed'
  <2>1. CASE ~running /\ Live(row)
    <3>1. "stopped" \in AttemptStates
      BY DEF AttemptStates
    <3>2. /\ RetireAttempts({row}, "stopped")
          /\ sweepAt' = "reclaiming" /\ resume' = "exits" /\ row' = row
      BY <1>19, <2>1 DEF Probed
    <3>3. checks' \in [Jobs -> Horizon \cup {None}]
      BY <1>19, <2>1, HorizonFacts DEF Probed, ScheduleConclusionCheck
    <3> QED
      BY <1>19, <3>1, <3>2, <3>3, RetireTyped DEF Probed, jobVars, RunningPoints, AwaitPoints
  <2>2. CASE running \/ ~Live(row)
    BY <1>19, <2>2 DEF Probed, attemptVars, jobVars, RunningPoints, AwaitPoints
  <2> QED
    BY <2>1, <2>2
<1>20. CASE Reclaimed
  BY <1>20 DEF Reclaimed, tables, RunningPoints, AwaitPoints
<1>21. CASE SelectChecks
  BY <1>21 DEF SelectChecks, tables, RunningPoints, AwaitPoints
<1>22. CASE ReadConclusion
  BY <1>22 DEF ReadConclusion, tables, RunningPoints, AwaitPoints
<1>23. ASSUME NEW answer \in {"queued", "in_progress", "unknown"} \cup Conclusions,
              ConclusionRead(answer)
       PROVE  Typed'
  <2>1. asked \in Jobs
    BY <1>23 DEF ConclusionRead
  <2>2. CASE UNCHANGED <<jobVars, pending, checks>>
    BY <1>23, <2>2 DEF ConclusionRead, attemptVars, jobVars, RunningPoints, AwaitPoints
  <2>3. CASE /\ RequeueUnassigned(asked)
             /\ checks' = [checks EXCEPT ![asked] = None]
             /\ UNCHANGED conclusion
    BY <1>23, <2>1, <2>3, RequeueTyped DEF ConclusionRead, attemptVars, RunningPoints, AwaitPoints
  <2>4. CASE /\ checks' = [checks EXCEPT ![asked] = sweepNow + CheckInterval]
             /\ UNCHANGED <<jobVars, pending>>
    BY <1>23, <2>1, <2>4, HorizonFacts
    DEF ConclusionRead, attemptVars, jobVars, RunningPoints, AwaitPoints
  <2>5. CASE answer \notin {"queued", "in_progress"} /\ Conclude(asked, answer) /\ UNCHANGED pending
    BY <1>23, <2>1, <2>5, ConcludeTyped DEF ConclusionRead, attemptVars, RunningPoints, AwaitPoints
  <2> QED
    BY <1>23, <2>2, <2>3, <2>4, <2>5 DEF ConclusionRead
<1>24. CASE Rearm
  <2>1. ASSUME NEW t \in Int, SetAlarm(t) PROVE alarm' \in Nat
    BY <2>1, HorizonFacts, TimeAssumption DEF SetAlarm, AtLeast
  <2>2. Wakes \subseteq Int
    BY HorizonFacts, TimeAssumption DEF Wakes, ActiveAttempts
  <2>3. sweepNow + SchedulerTick \in Int
    BY HorizonFacts, TimeAssumption
  <2>4. alarm' \in Nat \cup {None}
    BY <1>24, <2>1, <2>2, <2>3 DEF Rearm
  <2> QED
    BY <1>24, <2>4, HorizonFacts DEF Rearm, tables, RunningPoints, AwaitPoints
<1>25. CASE Restart
  BY <1>25, HorizonFacts DEF Restart, tables, RunningPoints, AwaitPoints
<1>26. CASE Tick
  <2>1. /\ deadline' \in [Runners -> Horizon]
        /\ checks' \in [Jobs -> Horizon \cup {None}]
    BY <1>26, HorizonFacts DEF Tick
  <2>2. alarm' \in Nat \cup {None} /\ sweepNow' \in Past..0
    BY <1>26, HorizonFacts, NoneAssumption DEF Tick
  <2> QED
    BY <1>26, <2>1, <2>2 DEF Tick, jobVars, sweepLocals
<1>27. CASE UNCHANGED vars
  BY <1>27 DEF vars, tables, sweepVars
<1> QED
  BY <1>1, <1>2, <1>3, <1>4, <1>5, <1>6, <1>7, <1>8, <1>9, <1>10, <1>11, <1>12, <1>13, <1>14,
     <1>15, <1>16, <1>17, <1>18, <1>19, <1>20, <1>21, <1>22, <1>23, <1>24, <1>25, <1>26, <1>27
  DEF Next, Intake, Sweep

LEMMA TypedInit == Init => Typed
<1> SUFFICES ASSUME Init PROVE Typed
  OBVIOUS
<1>1. /\ jobs \in [Jobs -> JobStates \cup {"absent"}]
      /\ conclusion \in [Jobs -> Conclusions \cup {"unknown", None}]
      /\ attempts \in [Runners -> AttemptStates \cup {"absent"}]
      /\ deadline \in [Runners -> Horizon]
      /\ assignments \in [Jobs -> Runners \cup {None}]
      /\ pending \in [Jobs -> 0..MaxAttempts]
      /\ checks \in [Jobs -> Horizon \cup {None}]
  BY HorizonFacts, RunnerFacts DEF Init
<1> QED
  BY <1>1, HorizonFacts DEF Init, Typed, TypeOK, HoldsRow, AwaitPoints, RunningPoints

\* Every variable keeps its type, for every set of jobs and every choice of bounds: the
\* tables hold only the states of schema.ts, times stay within the horizon, and the row
\* the sweep has in hand is a row.
THEOREM TypeCorrect == Spec => []TypeOK
<1>1. Typed => TypeOK
  BY DEF Typed
<1> QED
  BY <1>1, TypedInit, TypedStep, PTL DEF Spec

-----------------------------------------------------------------------------
(* The tables.  The properties of Scheduler are inductive together with what *)
(* they owe to the sweep: a starting attempt's job is not yet waiting, and   *)
(* while the sweep awaits a provisioning no other attempt of its job starts. *)

StartingNotWaiting ==
  \A r \in Runners : attempts[r] = "starting" => jobs[TriggeringJob(r)] # "waiting_for_assignment"

OnlyRowStarting ==
  sweepAt = "provisioning" =>
    \A q \in Runners : TriggeringJob(q) = TriggeringJob(row) /\ attempts[q] = "starting" => q = row

Consistent ==
  /\ OneViableAttempt
  /\ PendingNotStarted
  /\ AssignmentsMatchAttempts
  /\ ReferencesHold
  /\ NoForgottenJob
  /\ StartingNotWaiting

LEMMA PendingRow ==
  ASSUME Typed
  PROVE  \A k \in Jobs : pending[k] # 0 =>
           <<k, pending[k]>> \in Runners /\ TriggeringJob(<<k, pending[k]>>) = k
<1> SUFFICES ASSUME NEW k \in Jobs, pending[k] # 0
             PROVE  <<k, pending[k]>> \in Runners /\ TriggeringJob(<<k, pending[k]>>) = k
  OBVIOUS
<1>1. pending[k] \in 1..MaxAttempts
  BY AttemptsAssumption DEF Typed, TypeOK
<1> QED
  BY <1>1, RunnerFacts

LEMMA QuietConsistent ==
  ASSUME Consistent, UNCHANGED <<jobs, attempts, assignments, pending>>,
         \A j \in Jobs : checks'[j] = None <=> checks[j] = None
  PROVE  Consistent'
BY DEF Consistent, OneViableAttempt, PendingNotStarted, PendingJobs, AssignmentsMatchAttempts,
       ReferencesHold, NoForgottenJob, ViableAttempts, StartingNotWaiting

LEMMA CreateConsistent ==
  ASSUME NEW j \in Jobs, Typed, Consistent, CreateAttempt(j), ViableAttempts(j) = {},
         UNCHANGED <<assignments, checks>>
  PROVE  Consistent'
<1> PICK n \in 1..MaxAttempts :
      /\ IsNextAttempt(j, n)
      /\ jobs' = [jobs EXCEPT ![j] = "queued"]
      /\ attempts' = [attempts EXCEPT ![<<j, n>>] = "created"]
      /\ pending' = [pending EXCEPT ![j] = n]
  BY DEF CreateAttempt
<1> DEFINE new == <<j, n>>
<1>1. /\ new \in Runners /\ TriggeringJob(new) = j
      /\ attempts[new] = "absent" /\ attempts'[new] = "created"
      /\ \A r \in Runners : r # new => attempts'[r] = attempts[r]
      /\ \A r \in Runners : TriggeringJob(r) = j => attempts[r] \notin ViableStates
      /\ jobs'[j] = "queued" /\ \A k \in Jobs : k # j => jobs'[k] = jobs[k]
      /\ pending'[j] = n /\ \A k \in Jobs : k # j => pending'[k] = pending[k]
  BY RunnerFacts DEF Typed, TypeOK, IsNextAttempt, ViableAttempts
<1>2. OneViableAttempt'
  BY <1>1 DEF Consistent, OneViableAttempt
<1>3. PendingNotStarted'
  BY <1>1, RunnerFacts DEF Consistent, PendingNotStarted, PendingJobs, Typed, TypeOK
<1>4. AssignmentsMatchAttempts'
  BY <1>1 DEF Consistent, AssignmentsMatchAttempts, Typed, TypeOK, ViableStates
<1>5. ReferencesHold'
  <2>1. \A m \in 1..MaxAttempts : attempts[<<j, m>>] # "absent" <=> m < n
    BY DEF IsNextAttempt
  <2>2. \A k \in Jobs, m \in 1..MaxAttempts : attempts'[<<k, m>>] # "absent"
          => \A l \in 1..m : attempts'[<<k, l>>] # "absent"
    BY <1>1, <2>1, RunnerFacts, AttemptsAssumption DEF Consistent, ReferencesHold
  <2> QED
    BY <1>1, <2>2 DEF Consistent, ReferencesHold
<1>6. NoForgottenJob'
  BY <1>1 DEF Consistent, NoForgottenJob, ViableAttempts
<1>7. StartingNotWaiting'
  BY <1>1, RunnerFacts DEF Consistent, StartingNotWaiting
<1> QED
  BY <1>2, <1>3, <1>4, <1>5, <1>6, <1>7 DEF Consistent

\* A job is shown as queued or out of capacity: it has no viable attempt then.
LEMMA WaitConsistent ==
  ASSUME NEW j \in Jobs, NEW state \in {"queued", "capacity_limited"}, Typed, Consistent,
         ViableAttempts(j) = {}, jobs' = [jobs EXCEPT ![j] = state],
         UNCHANGED <<attempts, assignments, pending, checks>>
  PROVE  Consistent'
<1>1. /\ jobs'[j] = state /\ \A k \in Jobs : k # j => jobs'[k] = jobs[k]
      /\ \A r \in Runners : TriggeringJob(r) = j => attempts[r] \notin ViableStates
  BY DEF Typed, TypeOK, ViableAttempts
<1>2. PendingNotStarted'
  <2>1. pending[j] = 0
    BY <1>1, PendingRow DEF Consistent, PendingNotStarted, PendingJobs, ViableStates
  <2> QED
    BY <1>1, <2>1 DEF Consistent, PendingNotStarted, PendingJobs
<1> QED
  BY <1>1, <1>2, RunnerFacts
  DEF Consistent, OneViableAttempt, AssignmentsMatchAttempts, ReferencesHold, NoForgottenJob,
      ViableAttempts, StartingNotWaiting

LEMMA AssignConsistent ==
  ASSUME NEW j \in Jobs, NEW r \in Runners \cup {None}, NEW now, Typed, Consistent,
         RecordAssignment(j, r, now), UNCHANGED checks
  PROVE  Consistent'
<1>1. CASE Unassignable(j, r) /\ UNCHANGED <<jobs, attemptVars, assignments, pending>>
  BY <1>1, QuietConsistent DEF attemptVars
<1>2. CASE ~Unassignable(j, r)
  <2> DEFINE t == TriggeringJob(r)
             superseded == {q \in Runners \ {r} : TriggeringJob(q) = j /\ attempts[q] = "created"}
  <2>1. r \in Runners /\ t \in Jobs /\ attempts[r] # "absent"
    BY <1>2, RunnerFacts DEF Unassignable
  <2>2. assignments[j] = None /\ \A k \in Jobs : assignments[k] # r
    BY <1>2 DEF Unassignable
  <2>3. /\ jobs' = [jobs EXCEPT ![t] = "queued", ![j] = "running"]
        /\ assignments' = [assignments EXCEPT ![j] = r]
        /\ attempts' = [q \in Runners |-> IF q = r THEN "running"
                          ELSE IF q \in superseded THEN "stopped" ELSE attempts[q]]
        /\ pending' = [pending EXCEPT ![j] = 0, ![t] = 0]
    BY <1>2 DEF RecordAssignment
  <2>4. /\ jobs'[j] = "running" /\ (t # j => jobs'[t] = "queued")
        /\ \A k \in Jobs \ {j, t} : jobs'[k] = jobs[k] /\ pending'[k] = pending[k]
        /\ assignments'[j] = r /\ \A k \in Jobs \ {j} : assignments'[k] = assignments[k]
        /\ pending'[j] = 0 /\ pending'[t] = 0
    BY <2>1, <2>3 DEF Typed, TypeOK
  <2>5. /\ attempts'[r] = "running"
        /\ \A q \in Runners \ {r} :
             \/ attempts'[q] = attempts[q]
             \/ TriggeringJob(q) = j /\ attempts[q] = "created" /\ attempts'[q] = "stopped"
    BY <2>1, <2>3
  <2>6. OneViableAttempt'
    BY <2>5 DEF Consistent, OneViableAttempt, ViableStates
  <2>7. PendingNotStarted'
    <3> SUFFICES ASSUME NEW k \in Jobs, pending'[k] # 0
                 PROVE  /\ attempts'[<<k, pending'[k]>>] \in {"created", "starting"}
                        /\ jobs'[k] \in {"queued", "provisioning"} \cup TerminalStates
      BY DEF PendingNotStarted, PendingJobs
    <3>1. k \in Jobs \ {j, t}
      BY <2>4
    <3>2. <<k, pending[k]>> \in Runners /\ TriggeringJob(<<k, pending[k]>>) = k
      BY <3>1, <2>4, PendingRow
    <3> QED
      BY <2>4, <2>5, <3>1, <3>2 DEF Consistent, PendingNotStarted, PendingJobs
  <2>8. AssignmentsMatchAttempts'
    <3>1. \A k, l \in Jobs : assignments'[k] # None /\ assignments'[k] = assignments'[l] => k = l
      BY <2>2, <2>4 DEF Consistent, AssignmentsMatchAttempts
    <3>2. \A q \in Runners : attempts'[q] = "running" => \E k \in Jobs : assignments'[k] = q
      BY <2>1, <2>2, <2>4, <2>5, RunnerFacts DEF Consistent, AssignmentsMatchAttempts
    <3>3. ASSUME NEW k \in Jobs, assignments'[k] # None
          PROVE  attempts'[assignments'[k]] \notin ViableStates \cup {"absent"}
      <4>1. CASE k = j
        BY <2>4, <2>5, <4>1 DEF ViableStates
      <4>2. CASE k # j
        BY <2>2, <2>4, <2>5, <3>3, <4>2
        DEF Consistent, AssignmentsMatchAttempts, ViableStates, Typed, TypeOK
      <4> QED
        BY <4>1, <4>2
    <3> QED
      BY <3>1, <3>2, <3>3 DEF AssignmentsMatchAttempts
  <2>9. ReferencesHold'
    <3>1. jobs[t] # "absent" /\ \A k \in Jobs : jobs[k] # "absent" => jobs'[k] # "absent"
      BY <2>1, <2>4 DEF Consistent, ReferencesHold
    <3>2. \A q \in Runners : attempts'[q] = "absent" <=> attempts[q] = "absent"
      BY <2>1, <2>5
    <3>3. \A q \in Runners : attempts'[q] # "absent" => jobs'[TriggeringJob(q)] # "absent"
      BY <3>1, <3>2, RunnerFacts DEF Consistent, ReferencesHold
    <3>4. \A k \in Jobs : assignments'[k] # None \/ checks'[k] # None => jobs'[k] # "absent"
      BY <2>4, <3>1 DEF Consistent, ReferencesHold
    <3>5. \A k \in Jobs, n \in 1..MaxAttempts : attempts'[<<k, n>>] # "absent"
            => \A m \in 1..n : attempts'[<<k, m>>] # "absent"
      BY <3>2, RunnerFacts, AttemptsAssumption DEF Consistent, ReferencesHold
    <3> QED
      BY <3>3, <3>4, <3>5 DEF ReferencesHold
  <2>10. NoForgottenJob'
    <3> SUFFICES ASSUME NEW k \in Jobs
                 PROVE  /\ jobs'[k] \in {"provisioning", "waiting_for_assignment"}
                             => ViableAttempts(k)' # {} \/ checks'[k] # None
                        /\ jobs'[k] = "running" => assignments'[k] # None
      BY DEF NoForgottenJob
    <3>1. CASE k \in {j, t}
      BY <2>1, <2>4, <3>1, RunnerFacts
    <3>2. CASE k \notin {j, t}
      BY <2>4, <2>5, <3>2 DEF Consistent, NoForgottenJob, ViableAttempts
    <3> QED
      BY <3>1, <3>2
  <2>11. StartingNotWaiting'
    BY <2>1, <2>4, <2>5, RunnerFacts DEF Consistent, StartingNotWaiting
  <2> QED
    BY <2>6, <2>7, <2>8, <2>9, <2>10, <2>11 DEF Consistent
<1> QED
  BY <1>1, <1>2 DEF RecordAssignment

\* An attempt ends, or none does, and jobs are queued again or concluded.  An attempt on
\* its way leaves no pending row, and leaves its job queued, ended or due for a check.
LEMMA EndConsistent ==
  ASSUME NEW r \in Runners \cup {None}, NEW state \in {"failed", "stopped", "expired"},
         Typed, Consistent, RetireAttempts({r}, state), UNCHANGED assignments,
         r \in Runners => attempts[r] # "absent",
         \A k \in Jobs : pending'[k] # 0 => pending'[k] = pending[k] /\ <<k, pending[k]>> # r,
         \A k \in Jobs : \/ jobs'[k] = jobs[k]
                         \/ jobs[k] # "absent" /\ jobs'[k] \in {"queued"} \cup TerminalStates,
         \A k \in Jobs : checks'[k] # None => jobs[k] # "absent",
         \A k \in Jobs : \/ checks'[k] # None \/ jobs'[k] \notin {"provisioning", "waiting_for_assignment"}
                         \/ /\ checks[k] = None
                            /\ r \in Runners => k # TriggeringJob(r) \/ attempts[r] \notin ViableStates
  PROVE  Consistent'
<1>1. /\ \A q \in Runners \ {r} : attempts'[q] = attempts[q]
      /\ r \in Runners => attempts'[r] = state
  BY DEF RetireAttempts
<1>2. \A q \in Runners : attempts'[q] = "absent" <=> attempts[q] = "absent"
  BY <1>1
<1>3. OneViableAttempt'
  BY <1>1 DEF Consistent, OneViableAttempt, ViableStates
<1>4. PendingNotStarted'
  <2> SUFFICES ASSUME NEW k \in Jobs, pending'[k] # 0
               PROVE  /\ attempts'[<<k, pending'[k]>>] \in {"created", "starting"}
                      /\ jobs'[k] \in {"queued", "provisioning"} \cup TerminalStates
    BY DEF PendingNotStarted, PendingJobs
  <2>1. <<k, pending[k]>> \in Runners \ {r} /\ pending'[k] = pending[k]
    BY PendingRow
  <2> QED
    BY <1>1, <2>1 DEF Consistent, PendingNotStarted, PendingJobs
<1>5. AssignmentsMatchAttempts'
  BY <1>1 DEF Consistent, AssignmentsMatchAttempts, ViableStates, Typed, TypeOK
<1>6. ReferencesHold'
  <2>1. \A k \in Jobs : jobs'[k] = "absent" <=> jobs[k] = "absent"
    BY DEF TerminalStates
  <2>2. \A q \in Runners : attempts'[q] # "absent" => jobs'[TriggeringJob(q)] # "absent"
    BY <1>2, <2>1, RunnerFacts DEF Consistent, ReferencesHold
  <2>3. \A k \in Jobs : assignments'[k] # None \/ checks'[k] # None => jobs'[k] # "absent"
    BY <2>1 DEF Consistent, ReferencesHold
  <2>4. \A k \in Jobs, n \in 1..MaxAttempts : attempts'[<<k, n>>] # "absent"
          => \A m \in 1..n : attempts'[<<k, m>>] # "absent"
    BY <1>2, RunnerFacts, AttemptsAssumption DEF Consistent, ReferencesHold
  <2> QED
    BY <2>2, <2>3, <2>4 DEF ReferencesHold
<1>7. NoForgottenJob'
  <2> SUFFICES ASSUME NEW k \in Jobs
               PROVE  /\ jobs'[k] \in {"provisioning", "waiting_for_assignment"}
                           => ViableAttempts(k)' # {} \/ checks'[k] # None
                      /\ jobs'[k] = "running" => assignments'[k] # None
    BY DEF NoForgottenJob
  <2>1. jobs'[k] = "running" => assignments'[k] # None
    BY DEF Consistent, NoForgottenJob, TerminalStates
  <2>2. ASSUME jobs'[k] \in {"provisioning", "waiting_for_assignment"}, checks'[k] = None
        PROVE  ViableAttempts(k)' # {}
    <3>1. checks[k] = None /\ jobs'[k] = jobs[k]
      BY <2>2 DEF TerminalStates
    <3>2. PICK q \in Runners : TriggeringJob(q) = k /\ attempts[q] \in ViableStates
      BY <2>2, <3>1 DEF Consistent, NoForgottenJob, ViableAttempts
    <3>3. q # r
      BY <2>2, <3>2
    <3> QED
      BY <1>1, <3>2, <3>3 DEF ViableAttempts
  <2> QED
    BY <2>1, <2>2
<1>8. StartingNotWaiting'
  BY <1>1, RunnerFacts DEF Consistent, StartingNotWaiting, TerminalStates
<1> QED
  BY <1>3, <1>4, <1>5, <1>6, <1>7, <1>8 DEF Consistent

LEMMA AcceptQueuedConsistent ==
  ASSUME NEW j \in Jobs, Typed, Consistent, AcceptQueued(j), UNCHANGED <<assignments, checks>>
  PROVE  Consistent'
<1>1. CASE UNCHANGED <<jobs, attemptVars, pending, alarm>>
  BY <1>1, QuietConsistent DEF attemptVars
<1>2. CASE /\ ViableAttempts(j) = {}
           /\ jobs' = [jobs EXCEPT ![j] = "capacity_limited"]
           /\ UNCHANGED <<attemptVars, pending, alarm>>
  BY <1>2, WaitConsistent DEF attemptVars
<1>3. CASE ViableAttempts(j) = {} /\ CreateAttempt(j)
  BY <1>3, CreateConsistent
<1> QED
  BY <1>1, <1>2, <1>3 DEF AcceptQueued

LEMMA DeferConsistent ==
  ASSUME NEW j \in Jobs, Typed, Consistent, RecordDeferred(j),
         UNCHANGED <<attempts, assignments, pending, checks>>
  PROVE  Consistent'
<1>1. CASE ViableAttempts(j) = {} /\ jobs' = [jobs EXCEPT ![j] = "queued"]
  BY <1>1, WaitConsistent
<1>2. CASE jobs' = jobs
  BY <1>2, QuietConsistent
<1> QED
  BY <1>1, <1>2 DEF RecordDeferred, Typed, TypeOK

LEMMA CompletionConsistent ==
  ASSUME NEW j \in Jobs, NEW c, Typed, Consistent, RecordCompletion(j, c), UNCHANGED assignments
  PROVE  Consistent'
<1>1. assignments[j] \in Runners \cup {None} /\ RetireAttempts({assignments[j]}, "stopped")
  BY DEF RecordCompletion, Typed, TypeOK
<1>2. assignments[j] \in Runners => attempts[assignments[j]] \notin ViableStates \cup {"absent"}
  BY RunnerFacts DEF Consistent, AssignmentsMatchAttempts
<1>3. \A k \in Jobs : pending'[k] # 0 => pending'[k] = pending[k] /\ <<k, pending[k]>> # assignments[j]
  <2> SUFFICES ASSUME NEW k \in Jobs, pending'[k] # 0
               PROVE  pending'[k] = pending[k] /\ <<k, pending[k]>> # assignments[j]
    OBVIOUS
  <2>1. pending'[k] = pending[k]
    BY DEF RecordCompletion, Typed, TypeOK
  <2>2. <<k, pending[k]>> \in Runners /\ attempts[<<k, pending[k]>>] \in ViableStates
    BY <2>1, PendingRow DEF Consistent, PendingNotStarted, PendingJobs, ViableStates
  <2> QED
    BY <1>2, <2>1, <2>2
<1>4. \A k \in Jobs : \/ jobs'[k] = jobs[k]
                      \/ jobs[k] # "absent" /\ jobs'[k] \in {"queued"} \cup TerminalStates
  BY DEF RecordCompletion, Conclude, FinalState, TerminalStates, Typed, TypeOK, jobVars
<1>5. \A k \in Jobs : checks'[k] # None => jobs[k] # "absent"
  BY DEF RecordCompletion, Conclude, Consistent, ReferencesHold, Typed, TypeOK
<1>6. \A k \in Jobs : checks'[k] # checks[k] => jobs'[k] \notin {"provisioning", "waiting_for_assignment"}
  BY DEF RecordCompletion, Conclude, FinalState, Typed, TypeOK, jobVars
<1> QED
  BY <1>1, <1>2, <1>3, <1>4, <1>5, <1>6, EndConsistent

LEMMA StartConsistent ==
  ASSUME Typed, Consistent, StartProvisioning PROVE Consistent' /\ OnlyRowStarting'
<1> PICK j \in PendingJobs :
      /\ jobs' = [jobs EXCEPT ![j] = "provisioning"]
      /\ attempts' = [attempts EXCEPT ![<<j, pending[j]>>] = "starting"]
      /\ row' = <<j, pending[j]>>
  BY DEF StartProvisioning
<1> DEFINE r == <<j, pending[j]>>
<1>1. /\ j \in Jobs /\ r \in Runners /\ TriggeringJob(r) = j
      /\ attempts[r] \in {"created", "starting"} /\ attempts'[r] = "starting"
      /\ \A q \in Runners \ {r} : attempts'[q] = attempts[q]
      /\ jobs[j] # "absent" /\ jobs'[j] = "provisioning" /\ \A k \in Jobs \ {j} : jobs'[k] = jobs[k]
      /\ UNCHANGED <<assignments, pending, checks>>
  BY PendingRow
  DEF Typed, TypeOK, Consistent, PendingNotStarted, PendingJobs, ReferencesHold, StartProvisioning
<1>2. \A q \in Runners : attempts'[q] \in ViableStates <=> attempts[q] \in ViableStates
  BY <1>1 DEF ViableStates
<1>3. OneViableAttempt'
  BY <1>2 DEF Consistent, OneViableAttempt
<1>4. PendingNotStarted'
  BY <1>1, PendingRow DEF Consistent, PendingNotStarted, PendingJobs
<1>5. AssignmentsMatchAttempts'
  BY <1>1 DEF Consistent, AssignmentsMatchAttempts, ViableStates, Typed, TypeOK
<1>6. ReferencesHold'
  <2>1. \A q \in Runners : attempts'[q] = "absent" <=> attempts[q] = "absent"
    BY <1>1
  <2>2. \A k \in Jobs, n \in 1..MaxAttempts : attempts'[<<k, n>>] # "absent"
          => \A m \in 1..n : attempts'[<<k, m>>] # "absent"
    BY <2>1, RunnerFacts, AttemptsAssumption DEF Consistent, ReferencesHold
  <2> QED
    BY <1>1, <2>1, <2>2, RunnerFacts DEF Consistent, ReferencesHold
<1>7. NoForgottenJob'
  <2>1. r \in ViableAttempts(j)'
    BY <1>1 DEF ViableAttempts, ViableStates
  <2>2. \A k \in Jobs : ViableAttempts(k)' = ViableAttempts(k)
    BY <1>2 DEF ViableAttempts
  <2> QED
    BY <1>1, <2>1, <2>2 DEF Consistent, NoForgottenJob
<1>8. StartingNotWaiting'
  BY <1>1, RunnerFacts DEF Consistent, StartingNotWaiting
<1>9. OnlyRowStarting'
  BY <1>1, <1>2 DEF OnlyRowStarting, Consistent, OneViableAttempt, ViableStates
<1> QED
  BY <1>3, <1>4, <1>5, <1>6, <1>7, <1>8, <1>9 DEF Consistent

LEMMA ProvisionedConsistent ==
  ASSUME NEW answer, Typed, Consistent, OnlyRowStarting, Provisioned(answer)
  PROVE  Consistent'
<1> DEFINE t == TriggeringJob(row)
<1>1. /\ row \in Runners /\ t \in Jobs /\ t = row[1]
      /\ pending' = [pending EXCEPT ![t] = 0]
      /\ UNCHANGED <<assignments, checks>>
      /\ \A q \in Runners : TriggeringJob(q) = t /\ attempts[q] = "starting" => q = row
  BY RunnerFacts DEF Provisioned, Typed, HoldsRow, AwaitPoints, OnlyRowStarting, TriggeringJob
<1>2. \A k \in Jobs : pending'[k] # 0 => k # t /\ pending'[k] = pending[k]
  BY <1>1 DEF Typed, TypeOK
<1>3. \A k \in Jobs : pending'[k] # 0 =>
        /\ <<k, pending[k]>> \in Runners \ {row}
        /\ attempts[<<k, pending[k]>>] \in {"created", "starting"}
        /\ jobs[k] \in {"queued", "provisioning"} \cup TerminalStates
  BY <1>1, <1>2, PendingRow DEF Consistent, PendingNotStarted, PendingJobs
<1>4. CASE FinishProvisioning
  <2>1. /\ \A q \in Runners \ {row} : attempts'[q] = attempts[q]
        /\ attempts'[row] = IF attempts[row] = "starting" THEN "waiting_for_assignment"
                                                         ELSE attempts[row]
        /\ \A k \in Jobs \ {t} : jobs'[k] = jobs[k]
        /\ jobs'[t] = IF jobs[t] = "provisioning" THEN "waiting_for_assignment" ELSE jobs[t]
    BY <1>1, <1>4 DEF FinishProvisioning, MoveJob, Typed, TypeOK
  <2>2. \A q \in Runners : attempts'[q] \in ViableStates <=> attempts[q] \in ViableStates
    BY <2>1 DEF ViableStates
  <2>3. OneViableAttempt'
    BY <2>2 DEF Consistent, OneViableAttempt
  <2>4. PendingNotStarted'
    BY <1>2, <1>3, <2>1 DEF PendingNotStarted, PendingJobs
  <2>5. AssignmentsMatchAttempts'
    BY <1>1, <2>1 DEF Consistent, AssignmentsMatchAttempts, ViableStates, Typed, TypeOK
  <2>6. ReferencesHold'
    <3>1. \A q \in Runners : attempts'[q] = "absent" <=> attempts[q] = "absent"
      BY <2>1
    <3>2. \A k \in Jobs : jobs'[k] = "absent" <=> jobs[k] = "absent"
      BY <2>1
    <3>3. \A k \in Jobs, n \in 1..MaxAttempts : attempts'[<<k, n>>] # "absent"
            => \A m \in 1..n : attempts'[<<k, m>>] # "absent"
      BY <3>1, RunnerFacts, AttemptsAssumption DEF Consistent, ReferencesHold
    <3> QED
      BY <1>1, <3>1, <3>2, <3>3, RunnerFacts DEF Consistent, ReferencesHold
  <2>7. NoForgottenJob'
    <3>1. \A k \in Jobs : ViableAttempts(k)' = ViableAttempts(k)
      BY <2>2 DEF ViableAttempts
    <3> QED
      BY <1>1, <2>1, <3>1 DEF Consistent, NoForgottenJob
  <2>8. StartingNotWaiting'
    BY <1>1, <2>1, RunnerFacts DEF Consistent, StartingNotWaiting
  <2> QED
    BY <2>3, <2>4, <2>5, <2>6, <2>7, <2>8 DEF Consistent
<1>5. CASE FailProvisioning
  <2>1. CASE attempts[row] = "starting"
    <3>1. RetireAttempts({row}, "failed")
      BY <1>1, <1>5, <2>1 DEF FailProvisioning, RetireAttempts
    <3>2. /\ \A k \in Jobs \ {t} : jobs'[k] = jobs[k]
          /\ jobs'[t] = IF jobs[t] = "provisioning" THEN "queued" ELSE jobs[t]
      BY <1>1, <1>5 DEF FailProvisioning, MoveJob, Typed, TypeOK
    <3>3. jobs[t] # "waiting_for_assignment"
      BY <1>1, <2>1 DEF Consistent, StartingNotWaiting
    <3> QED
      BY <1>1, <1>2, <1>3, <2>1, <3>1, <3>2, <3>3, EndConsistent DEF Consistent, ReferencesHold
  <2>2. CASE attempts[row] # "starting"
    <3>1. RetireAttempts({None}, "failed")
      BY <1>1, <1>5, <2>2, RunnerFacts DEF FailProvisioning, RetireAttempts
    <3>2. /\ \A k \in Jobs \ {t} : jobs'[k] = jobs[k]
          /\ jobs'[t] = IF jobs[t] = "provisioning" THEN "queued" ELSE jobs[t]
      BY <1>1, <1>5 DEF FailProvisioning, MoveJob, Typed, TypeOK
    <3>3. \A k \in Jobs : pending'[k] # 0 => pending'[k] = pending[k] /\ <<k, pending[k]>> # None
      BY <1>2, <1>3, RunnerFacts
    <3>4. \A k \in Jobs : \/ jobs'[k] = jobs[k]
                          \/ jobs[k] # "absent" /\ jobs'[k] \in {"queued"} \cup TerminalStates
      BY <3>2
    <3>5. \A k \in Jobs : checks'[k] # None => jobs[k] # "absent"
      BY <1>1 DEF Consistent, ReferencesHold
    <3> QED
      BY <1>1, <3>1, <3>3, <3>4, <3>5, RunnerFacts, EndConsistent
  <2> QED
    BY <2>1, <2>2
<1> QED
  BY <1>4, <1>5 DEF Provisioned

LEMMA RequeueEffect ==
  ASSUME NEW j \in Jobs, Typed, RequeueUnassigned(j)
  PROVE  /\ \A k \in Jobs : pending'[k] # 0 => k # j /\ pending'[k] = pending[k]
         /\ \A k \in Jobs : \/ jobs'[k] = jobs[k]
                            \/ jobs[k] # "absent" /\ jobs'[k] = "queued"
         /\ jobs'[j] \notin {"provisioning", "waiting_for_assignment"}
BY DEF RequeueUnassigned, Typed, TypeOK

LEMMA TriggeringJobReadConsistent ==
  ASSUME NEW claimed \in BOOLEAN, Typed, Consistent, TriggeringJobRead(claimed)
  PROVE  Consistent'
<1>1. /\ row \in Runners /\ TriggeringJob(row) \in Jobs
      /\ UNCHANGED checks
  BY RunnerFacts DEF TriggeringJobRead, Typed, HoldsRow, AwaitPoints
<1>2. CASE RecordAssignment(TriggeringJob(row), row, sweepNow)
  BY <1>1, <1>2, AssignConsistent
<1>3. CASE UNCHANGED <<jobs, attemptVars, assignments, pending>>
  BY <1>1, <1>3, QuietConsistent DEF attemptVars
<1>4. CASE /\ UnassignedExpired(row) /\ RetireAttempts({row}, "expired")
           /\ RequeueUnassigned(TriggeringJob(row)) /\ UNCHANGED assignments
  <2>1. attempts[row] # "absent"
    BY <1>4 DEF UnassignedExpired, ViableStates
  <2>2. \A k \in Jobs : pending'[k] # 0 => pending'[k] = pending[k] /\ <<k, pending[k]>> # row
    BY <1>1, <1>4, RequeueEffect, PendingRow
  <2>3. \A k \in Jobs : \/ jobs'[k] = jobs[k]
                        \/ jobs[k] # "absent" /\ jobs'[k] \in {"queued"} \cup TerminalStates
    BY <1>1, <1>4, RequeueEffect
  <2>4. \A k \in Jobs :
          \/ checks'[k] # None \/ jobs'[k] \notin {"provisioning", "waiting_for_assignment"}
          \/ checks[k] = None /\ k # TriggeringJob(row)
    BY <1>1, <1>4, RequeueEffect
  <2> QED
    BY <1>1, <1>4, <2>1, <2>2, <2>3, <2>4, EndConsistent DEF Consistent, ReferencesHold
<1> QED
  BY <1>2, <1>3, <1>4 DEF TriggeringJobRead

\* The check a live attempt leaves behind when it ends.
LEMMA CheckEffect ==
  ASSUME NEW r \in Runners, NEW j \in Jobs, Typed, Consistent, attempts[r] # "absent",
         AssignedJob(r, j), ScheduleConclusionCheck(j)
  PROVE  /\ \A k \in Jobs : checks'[k] = None => checks[k] = None /\ k # j
         /\ \A k \in Jobs : checks'[k] # None => jobs[k] # "absent"
         /\ attempts[r] \in ViableStates => j = TriggeringJob(r)
<1>1. sweepNow # None
  BY HorizonFacts DEF Typed, TypeOK
<1>2. jobs[j] # "absent"
  BY RunnerFacts DEF AssignedJob, Consistent, ReferencesHold
<1> QED
  BY <1>1, <1>2, RunnerFacts
  DEF AssignedJob, ScheduleConclusionCheck, Typed, TypeOK, Consistent, ReferencesHold,
      AssignmentsMatchAttempts

LEMMA ExpireRunningConsistent ==
  ASSUME NEW r \in Runners, Typed, Consistent, ExpireRunning(r)
  PROVE  Consistent'
<1>1. CASE Overdue(r)
  <2>1. PICK j \in Jobs : /\ AssignedJob(r, j)
                          /\ pending' = [pending EXCEPT ![j] = 0]
                          /\ ScheduleConclusionCheck(j)
    BY <1>1 DEF ExpireRunning
  <2>2. attempts[r] = "running" /\ RetireAttempts({r}, "expired") /\ UNCHANGED <<jobs, assignments>>
    BY <1>1 DEF ExpireRunning, Overdue, jobVars
  <2>3. attempts[r] \notin ViableStates \cup {"absent"}
    BY <2>2 DEF ViableStates
  <2>4. \A k \in Jobs : pending'[k] # 0 => pending'[k] = pending[k] /\ <<k, pending[k]>> # r
    <3> SUFFICES ASSUME NEW k \in Jobs, pending'[k] # 0
                 PROVE  pending'[k] = pending[k] /\ <<k, pending[k]>> # r
      OBVIOUS
    <3>1. pending'[k] = pending[k]
      BY <2>1 DEF Typed, TypeOK
    <3> QED
      BY <2>2, <3>1 DEF Consistent, PendingNotStarted, PendingJobs
  <2>5. /\ \A k \in Jobs : checks'[k] # None => jobs[k] # "absent"
        /\ \A k \in Jobs : checks'[k] = None => checks[k] = None
    BY <2>1, <2>3, CheckEffect
  <2> QED
    BY <2>2, <2>3, <2>4, <2>5, EndConsistent
<1>2. CASE ~Overdue(r)
  BY <1>2, QuietConsistent DEF ExpireRunning, attemptVars, jobVars
<1> QED
  BY <1>1, <1>2

LEMMA ProbedConsistent ==
  ASSUME NEW running \in BOOLEAN, Typed, Consistent, Probed(running)
  PROVE  Consistent'
<1>1. CASE ~running /\ Live(row)
  <2>1. row \in Runners /\ attempts[row] \in {"waiting_for_assignment", "running"}
    BY <1>1 DEF Probed, Typed, HoldsRow, AwaitPoints, Live, LiveStates
  <2>2. PICK j \in Jobs : AssignedJob(row, j) /\ ScheduleConclusionCheck(j)
    BY <1>1 DEF Probed
  <2>3. RetireAttempts({row}, "stopped") /\ UNCHANGED <<jobs, assignments, pending>>
    BY <1>1 DEF Probed, jobVars
  <2>4. \A k \in Jobs : pending'[k] # 0 => pending'[k] = pending[k] /\ <<k, pending[k]>> # row
    BY <2>1, <2>3 DEF Consistent, PendingNotStarted, PendingJobs
  <2>5. /\ \A k \in Jobs : checks'[k] # None => jobs[k] # "absent"
        /\ \A k \in Jobs : checks'[k] = None => checks[k] = None /\ k # j
        /\ attempts[row] \in ViableStates => j = TriggeringJob(row)
    BY <2>1, <2>2, CheckEffect
  <2> QED
    BY <2>1, <2>3, <2>4, <2>5, EndConsistent
<1>2. CASE running \/ ~Live(row)
  BY <1>2, QuietConsistent DEF Probed, attemptVars, jobVars
<1> QED
  BY <1>1, <1>2

LEMMA ConclusionReadConsistent ==
  ASSUME NEW answer \in {"queued", "in_progress", "unknown"} \cup Conclusions,
         Typed, Consistent, ConclusionRead(answer)
  PROVE  Consistent'
<1>1. asked \in Jobs /\ UNCHANGED <<attemptVars, assignments>>
  BY DEF ConclusionRead, Typed, HoldsRow
<1>2. RetireAttempts({None}, "stopped")
  BY <1>1, RunnerFacts DEF RetireAttempts, attemptVars, Typed, TypeOK
<1>3. \A k \in Jobs : pending[k] # 0 => <<k, pending[k]>> # None
  BY PendingRow, RunnerFacts
<1>4. CASE UNCHANGED <<jobVars, pending, checks>>
  BY <1>1, <1>4, QuietConsistent DEF jobVars, attemptVars
<1>5. CASE RequeueUnassigned(asked) /\ checks' = [checks EXCEPT ![asked] = None]
  <2>1. \A k \in Jobs : pending'[k] # 0 => pending'[k] = pending[k] /\ <<k, pending[k]>> # None
    BY <1>1, <1>3, <1>5, RequeueEffect
  <2>2. \A k \in Jobs : \/ jobs'[k] = jobs[k]
                        \/ jobs[k] # "absent" /\ jobs'[k] \in {"queued"} \cup TerminalStates
    BY <1>1, <1>5, RequeueEffect
  <2>3. \A k \in Jobs : /\ checks'[k] # None => checks[k] # None
                        /\ k # asked => checks'[k] = checks[k]
    BY <1>5 DEF Typed, TypeOK
  <2>4. jobs'[asked] \notin {"provisioning", "waiting_for_assignment"}
    BY <1>1, <1>5, RequeueEffect
  <2> QED
    BY <1>1, <1>2, <2>1, <2>2, <2>3, <2>4, RunnerFacts, EndConsistent DEF Consistent, ReferencesHold
<1>6. CASE /\ checks[asked] # None
           /\ checks' = [checks EXCEPT ![asked] = sweepNow + CheckInterval]
           /\ UNCHANGED <<jobVars, pending>>
  <2>1. sweepNow + CheckInterval # None
    BY HorizonFacts DEF Typed, TypeOK
  <2>2. \A k \in Jobs : checks'[k] = None <=> checks[k] = None
    BY <1>6, <2>1 DEF Typed, TypeOK
  <2> QED
    BY <1>1, <1>6, <2>2, QuietConsistent DEF jobVars, attemptVars
<1>7. CASE Conclude(asked, answer) /\ UNCHANGED pending
  <2>1. \A k \in Jobs : \/ jobs'[k] = jobs[k]
                        \/ jobs[k] # "absent" /\ jobs'[k] \in TerminalStates
    BY <1>1, <1>7 DEF Conclude, FinalState, TerminalStates, Typed, TypeOK, jobVars
  <2>2. /\ jobs'[asked] \in TerminalStates \cup {"absent"}
        /\ \A k \in Jobs : /\ checks'[k] # None => checks[k] # None
                           /\ k # asked => checks'[k] = checks[k]
    BY <1>1, <1>7 DEF Conclude, FinalState, TerminalStates, Typed, TypeOK, jobVars
  <2>3. jobs'[asked] \notin {"provisioning", "waiting_for_assignment"}
    BY <2>2 DEF TerminalStates
  <2> QED
    BY <1>1, <1>2, <1>3, <1>7, <2>1, <2>2, <2>3, RunnerFacts, EndConsistent
    DEF Consistent, ReferencesHold
<1> QED
  BY <1>4, <1>5, <1>6, <1>7 DEF ConclusionRead

-----------------------------------------------------------------------------
(* The inductive invariant. *)

IInv == Typed /\ Consistent /\ OnlyRowStarting

\* Only the sweep starts an attempt.
LEMMA IntakeStartsNothing ==
  ASSUME Typed, OnlyRowStarting, UNCHANGED <<sweepAt, row>>,
         \A q \in Runners : attempts'[q] = "starting" => attempts[q] = "starting"
  PROVE  OnlyRowStarting'
BY DEF OnlyRowStarting

LEMMA AssignStartsNothing ==
  ASSUME NEW j \in Jobs, NEW r, NEW now, RecordAssignment(j, r, now)
  PROVE  \A q \in Runners : attempts'[q] = "starting" => attempts[q] = "starting"
<1>1. CASE UNCHANGED attempts
  BY <1>1
<1>2. CASE ~Unassignable(j, r)
  <2>1. \A q \in Runners : \/ attempts'[q] \in {"running", "stopped"}
                           \/ attempts'[q] = attempts[q]
    BY <1>2 DEF RecordAssignment
  <2> QED
    BY <2>1
<1> QED
  BY <1>1, <1>2 DEF RecordAssignment, attemptVars

LEMMA AcceptQueuedStartsNothing ==
  ASSUME NEW j \in Jobs, Typed, AcceptQueued(j)
  PROVE  \A q \in Runners : attempts'[q] = "starting" => attempts[q] = "starting"
BY DEF AcceptQueued, CreateAttempt, attemptVars, Typed, TypeOK

LEMMA IntakeStep == IInv /\ Intake => Consistent' /\ OnlyRowStarting'
<1> SUFFICES ASSUME IInv, Intake PROVE Consistent' /\ OnlyRowStarting'
  OBVIOUS
<1> USE DEF IInv
<1>1. ASSUME NEW d \in Deliveries, NEW j \in Jobs, AcceptQueuedDelivery(d, j)
      PROVE  Consistent' /\ OnlyRowStarting'
  BY <1>1, AcceptQueuedConsistent, AcceptQueuedStartsNothing, IntakeStartsNothing
  DEF AcceptQueuedDelivery, sweepVars
<1>2. ASSUME NEW d \in Deliveries, NEW j \in Jobs, DeferDelivery(d, j)
      PROVE  Consistent' /\ OnlyRowStarting'
  BY <1>2, DeferConsistent, IntakeStartsNothing DEF DeferDelivery, sweepVars, attemptVars
<1>3. ASSUME NEW d \in Deliveries, NEW j \in Jobs, NEW r \in Runners \cup {None},
             AcceptInProgress(d, j, r)
      PROVE  Consistent' /\ OnlyRowStarting'
  <2>1. UNCHANGED <<checks, sweepAt, row>>
    BY <1>3 DEF AcceptInProgress, sweepVars
  <2>2. CASE RecordAssignment(j, r, 0)
    BY <2>1, <2>2, AssignConsistent, AssignStartsNothing, IntakeStartsNothing
  <2>3. CASE UNCHANGED <<jobs, attemptVars, assignments, pending>>
    BY <2>1, <2>3, QuietConsistent, IntakeStartsNothing DEF attemptVars
  <2> QED
    BY <1>3, <2>2, <2>3 DEF AcceptInProgress
<1>4. ASSUME NEW d \in Deliveries, NEW j \in Jobs, NEW c \in Conclusions \cup {"unknown"},
             AcceptCompleted(d, j, c)
      PROVE  Consistent' /\ OnlyRowStarting'
  <2>1. UNCHANGED <<assignments, sweepAt, row>>
    BY <1>4 DEF AcceptCompleted, sweepVars
  <2>2. CASE RecordCompletion(j, c)
    <3>1. \A q \in Runners : attempts'[q] = "starting" => attempts[q] = "starting"
      BY <2>2 DEF RecordCompletion, RetireAttempts
    <3> QED
      BY <2>1, <2>2, <3>1, CompletionConsistent, IntakeStartsNothing
  <2>3. CASE UNCHANGED <<jobVars, attemptVars, pending, checks>>
    BY <2>1, <2>3, QuietConsistent, IntakeStartsNothing DEF attemptVars, jobVars
  <2> QED
    BY <1>4, <2>2, <2>3 DEF AcceptCompleted
<1>5. ASSUME NEW j \in Jobs, Reconcile(j) PROVE Consistent' /\ OnlyRowStarting'
  BY <1>5, AcceptQueuedConsistent, AcceptQueuedStartsNothing, IntakeStartsNothing
  DEF Reconcile, sweepVars
<1>6. ASSUME NEW j \in Jobs, DeferCandidate(j) PROVE Consistent' /\ OnlyRowStarting'
  BY <1>6, DeferConsistent, IntakeStartsNothing DEF DeferCandidate, sweepVars, attemptVars
<1>7. CASE SuspendIntake \/ ResumeIntake
  BY <1>7, QuietConsistent, IntakeStartsNothing DEF SuspendIntake, ResumeIntake, tables, sweepVars
<1> QED
  BY <1>1, <1>2, <1>3, <1>4, <1>5, <1>6, <1>7 DEF Intake

LEMMA SweepStep == IInv /\ Sweep => Consistent' /\ OnlyRowStarting'
<1> SUFFICES ASSUME IInv, Sweep PROVE Consistent' /\ OnlyRowStarting'
  OBVIOUS
<1> USE DEF IInv
<1>1. CASE AlarmFires
  BY <1>1, QuietConsistent DEF AlarmFires, tables, OnlyRowStarting
<1>2. CASE StartProvisioning
  BY <1>2, StartConsistent
<1>3. CASE NothingPending
  BY <1>3, QuietConsistent DEF NothingPending, Goto, tables, OnlyRowStarting
<1>4. ASSUME NEW answer \in {"started", "refused", "container_start"}, Provisioned(answer)
      PROVE  Consistent' /\ OnlyRowStarting'
  BY <1>4, ProvisionedConsistent DEF Provisioned, OnlyRowStarting
<1>5. CASE SelectUnassigned
  BY <1>5, QuietConsistent DEF SelectUnassigned, tables, OnlyRowStarting
<1>6. CASE ReadTriggeringJob
  BY <1>6, QuietConsistent DEF ReadTriggeringJob, tables, OnlyRowStarting
<1>7. ASSUME NEW claimed \in BOOLEAN, TriggeringJobRead(claimed)
      PROVE  Consistent' /\ OnlyRowStarting'
  BY <1>7, TriggeringJobReadConsistent DEF TriggeringJobRead, OnlyRowStarting
<1>8. CASE SelectOverdue
  BY <1>8, QuietConsistent DEF SelectOverdue, tables, OnlyRowStarting
<1>9. ASSUME NEW r \in Runners, ExpireRunning(r) PROVE Consistent' /\ OnlyRowStarting'
  BY <1>9, ExpireRunningConsistent DEF ExpireRunning, OnlyRowStarting
<1>10. CASE SelectLive
  BY <1>10, QuietConsistent DEF SelectLive, tables, OnlyRowStarting
<1>11. CASE Probe
  BY <1>11, QuietConsistent DEF Probe, tables, OnlyRowStarting
<1>12. ASSUME NEW running \in BOOLEAN, Probed(running) PROVE Consistent' /\ OnlyRowStarting'
  BY <1>12, ProbedConsistent DEF Probed, OnlyRowStarting
<1>13. CASE Reclaimed
  BY <1>13, QuietConsistent
  DEF Reclaimed, tables, OnlyRowStarting, Typed, TypeOK, RunningPoints
<1>14. CASE SelectChecks
  BY <1>14, QuietConsistent DEF SelectChecks, tables, OnlyRowStarting
<1>15. CASE ReadConclusion
  BY <1>15, QuietConsistent DEF ReadConclusion, tables, OnlyRowStarting
<1>16. ASSUME NEW answer \in {"queued", "in_progress", "unknown"} \cup Conclusions,
              ConclusionRead(answer)
       PROVE  Consistent' /\ OnlyRowStarting'
  BY <1>16, ConclusionReadConsistent DEF ConclusionRead, OnlyRowStarting
<1>17. CASE Rearm
  BY <1>17, QuietConsistent DEF Rearm, tables, OnlyRowStarting
<1> QED
  BY <1>1, <1>2, <1>3, <1>4, <1>5, <1>6, <1>7, <1>8, <1>9, <1>10, <1>11, <1>12, <1>13, <1>14,
     <1>15, <1>16, <1>17 DEF Sweep

LEMMA IInvInit == Init => IInv
<1>1. Init => Typed
  BY TypedInit
<1>2. Init => Consistent /\ OnlyRowStarting
  BY RunnerFacts, AttemptsAssumption
  DEF Init, Consistent, OneViableAttempt, PendingNotStarted, PendingJobs, AssignmentsMatchAttempts,
      ReferencesHold, NoForgottenJob, StartingNotWaiting, OnlyRowStarting, ViableStates
<1> QED
  BY <1>1, <1>2 DEF IInv

LEMMA IInvStep == IInv /\ [Next]_vars => IInv'
<1> SUFFICES ASSUME IInv, [Next]_vars PROVE Consistent' /\ OnlyRowStarting'
  BY TypedStep DEF IInv
<1>1. CASE Intake
  BY <1>1, IntakeStep
<1>2. CASE Sweep
  BY <1>2, SweepStep
<1>3. CASE Restart
  BY <1>3, QuietConsistent DEF IInv, Restart, tables, OnlyRowStarting
<1>4. CASE Tick
  <2>1. \A j \in Jobs : checks'[j] = None <=> checks[j] = None
    BY <1>4, HorizonFacts DEF IInv, Typed, TypeOK, Tick
  <2>2. UNCHANGED <<jobs, attempts, assignments, pending, sweepAt, row>>
    BY <1>4 DEF Tick, jobVars, sweepLocals
  <2> QED
    BY <2>1, <2>2, QuietConsistent, IntakeStartsNothing DEF IInv
<1>5. CASE UNCHANGED vars
  BY <1>5, QuietConsistent, IntakeStartsNothing DEF IInv, vars, tables, sweepVars
<1> QED
  BY <1>1, <1>2, <1>3, <1>4, <1>5 DEF Next

\* The tables stay consistent whatever GitHub, the containers and the webhooks do, and
\* wherever the object restarts: one attempt on its way for a job,
THEOREM OneViable == Spec => []OneViableAttempt
<1>1. IInv => OneViableAttempt
  BY DEF IInv, Consistent
<1> QED
  BY <1>1, IInvInit, IInvStep, PTL DEF Spec

\* pending rows only for attempts that wait for a container,
THEOREM PendingRowsFresh == Spec => []PendingNotStarted
<1>1. IInv => PendingNotStarted
  BY DEF IInv, Consistent
<1> QED
  BY <1>1, IInvInit, IInvStep, PTL DEF Spec

\* a runner bound to one job and no viable attempt bound,
THEOREM AssignmentsSound == Spec => []AssignmentsMatchAttempts
<1>1. IInv => AssignmentsMatchAttempts
  BY DEF IInv, Consistent
<1> QED
  BY <1>1, IInvInit, IInvStep, PTL DEF Spec

\* rows that refer to rows,
THEOREM References == Spec => []ReferencesHold
<1>1. IInv => ReferencesHold
  BY DEF IInv, Consistent
<1> QED
  BY <1>1, IInvInit, IInvStep, PTL DEF Spec

\* and no job that waits for a runner the Scheduler has given up.
THEOREM NoneForgotten == Spec => []NoForgottenJob
<1>1. IInv => NoForgottenJob
  BY DEF IInv, Consistent
<1> QED
  BY <1>1, IInvInit, IInvStep, PTL DEF Spec

=============================================================================
