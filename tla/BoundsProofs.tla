---------------------------- MODULE BoundsProofs ----------------------------
(***************************************************************************)
(* What the Scheduler bounds: how long it sleeps while an attempt's        *)
(* deadline or a conclusion check is due, and how many pending rows and    *)
(* viable attempts it keeps.                                               *)
(***************************************************************************)
EXTENDS SchedulerProofs, FiniteSetTheorems

-----------------------------------------------------------------------------
(* Wake-ups.  While a sweep is under way the alarm is free to be set by an   *)
(* accepted job, which sets it no more than a tick ahead: that is what makes *)
(* the property of the idle object inductive across a restart.               *)

AlarmSoon == sweepAt # "idle" => alarm = None \/ alarm <= SchedulerTick

Watched == DeadlinesWatched /\ AlarmSoon

LEMMA NothingMoreToWatch ==
  ASSUME Watched, UNCHANGED <<alarm, sweepAt>>,
         \A r \in Runners : attempts'[r] \in ViableStates
           => attempts[r] \in ViableStates /\ deadline'[r] = deadline[r],
         \A j \in Jobs : checks'[j] # None => checks'[j] = checks[j]
  PROVE  Watched'
BY DEF Watched, DeadlinesWatched, AlarmSoon

LEMMA SoonEnough ==
  ASSUME Typed, SchedulerTick \in Nat, alarm' # None, alarm' <= SchedulerTick, alarm' \in Nat,
         \A r \in Runners : deadline'[r] \in Int,
         \A j \in Jobs : checks'[j] # None => checks'[j] \in Int
  PROVE  Watched'
BY DEF Watched, DeadlinesWatched, AlarmSoon, AtLeast

LEMMA TimesAreIntegers ==
  Typed' => /\ \A r \in Runners : deadline'[r] \in Int
            /\ \A j \in Jobs : checks'[j] # None => checks'[j] \in Int
            /\ alarm' # None => alarm' \in Nat
            /\ None \notin Int
BY HorizonFacts, NoneAssumption DEF Typed, TypeOK

LEMMA AcceptQueuedWatched ==
  ASSUME NEW j \in Jobs, Typed, Typed', Watched, AcceptQueued(j), UNCHANGED <<checks, sweepAt>>
  PROVE  Watched'
<1>1. CASE UNCHANGED <<attemptVars, alarm>>
  BY <1>1, NothingMoreToWatch DEF attemptVars
<1>2. CASE WakeForNewJob
  <2>1. alarm' = SchedulerTick /\ SchedulerTick \in Nat /\ SchedulerTick # None
    BY <1>2, TimeAssumption, NoneAssumption DEF WakeForNewJob
  <2> QED
    BY <2>1, SoonEnough, TimesAreIntegers
<1> QED
  BY <1>1, <1>2 DEF AcceptQueued, attemptVars

LEMMA AssignWatched ==
  ASSUME NEW j \in Jobs, NEW r \in Runners \cup {None}, NEW now, Typed, Watched,
         RecordAssignment(j, r, now), UNCHANGED <<checks, alarm, sweepAt>>
  PROVE  Watched'
<1>1. CASE UNCHANGED attemptVars
  BY <1>1, NothingMoreToWatch DEF attemptVars
<1>2. CASE ~Unassignable(j, r)
  <2>1. \A q \in Runners : \/ attempts'[q] \in {"running", "stopped"}
                           \/ attempts'[q] = attempts[q] /\ deadline'[q] = deadline[q]
    BY <1>2 DEF RecordAssignment
  <2>2. \A q \in Runners : attempts'[q] \in ViableStates
          => attempts[q] \in ViableStates /\ deadline'[q] = deadline[q]
    BY <2>1 DEF ViableStates
  <2> QED
    BY <2>2, NothingMoreToWatch
<1> QED
  BY <1>1, <1>2 DEF RecordAssignment, attemptVars

LEMMA CompletionWatched ==
  ASSUME NEW j \in Jobs, NEW c, Typed, Watched, RecordCompletion(j, c), UNCHANGED <<alarm, sweepAt>>
  PROVE  Watched'
<1>1. \A q \in Runners : attempts'[q] \in ViableStates
        => attempts[q] \in ViableStates /\ deadline'[q] = deadline[q]
  BY DEF RecordCompletion, RetireAttempts, ViableStates
<1>2. \A k \in Jobs : checks'[k] # None => checks'[k] = checks[k]
  BY DEF RecordCompletion, Conclude, Typed, TypeOK
<1> QED
  BY <1>1, <1>2, NothingMoreToWatch

LEMMA RearmWatched ==
  ASSUME Typed, Typed', Watched, Rearm PROVE Watched'
<1> USE TimeAssumption
<1>1. /\ sweepNow \in Int /\ sweepNow <= 0 /\ Wakes \subseteq Int
      /\ UNCHANGED <<attempts, deadline, checks>>
  <2>1. sweepNow \in Int /\ sweepNow <= 0
    BY HorizonFacts DEF Typed, TypeOK
  <2>2. Wakes \subseteq Int
    BY <2>1, HorizonFacts DEF Typed, TypeOK, Wakes, ActiveAttempts
  <2> QED
    BY <2>1, <2>2 DEF Rearm, tables
<1>2. /\ \A r \in Runners : attempts[r] \in ViableStates => deadline[r] \in Wakes
      /\ \A j \in Jobs : checks[j] # None => checks[j] \in Wakes
  BY DEF Wakes, ActiveAttempts, ActiveStates
<1>3. ASSUME NEW t \in Int, SetAlarm(t)
      PROVE  alarm' \in Nat /\ alarm' <= AtLeast(t, SchedulerTick)
  BY <1>1, <1>3 DEF SetAlarm, AtLeast
<1>4. CASE more
  <2>1. sweepNow + SchedulerTick \in Int /\ AtLeast(sweepNow + SchedulerTick, SchedulerTick) = SchedulerTick
    BY <1>1 DEF AtLeast
  <2>2. alarm' \in Nat /\ alarm' <= SchedulerTick
    BY <1>3, <1>4, <2>1 DEF Rearm
  <2> QED
    BY <2>2, SoonEnough, TimesAreIntegers
<1>5. CASE \E t \in Wakes : SetAlarm(t) /\ \A u \in Wakes : t <= u
  <2> PICK t \in Wakes : SetAlarm(t) /\ \A u \in Wakes : t <= u
    BY <1>5
  <2>1. alarm' \in Nat /\ alarm' <= AtLeast(t, SchedulerTick)
    BY <1>1, <1>3
  <2>2. \A u \in Wakes : alarm' <= AtLeast(u, SchedulerTick)
    BY <1>1, <2>1 DEF AtLeast
  <2>3. alarm' # None
    BY <2>1, NoneAssumption
  <2>4. sweepAt' = "idle"
    BY DEF Rearm
  <2> QED
    BY <1>1, <1>2, <2>2, <2>3, <2>4 DEF Watched, DeadlinesWatched, AlarmSoon
<1>6. CASE Wakes = {}
  <2>1. sweepAt' = "idle"
    BY DEF Rearm
  <2> QED
    BY <1>1, <1>2, <1>6, <2>1 DEF Watched, DeadlinesWatched, AlarmSoon
<1> QED
  BY <1>4, <1>5, <1>6 DEF Rearm

LEMMA TickWatched ==
  ASSUME Typed, Watched, Tick PROVE Watched'
<1> USE TimeAssumption, NoneAssumption
<1>1. UNCHANGED <<attempts, sweepAt>>
  BY DEF Tick, sweepLocals
<1>2. /\ alarm' = None <=> alarm = None
      /\ alarm # None => alarm \in Nat /\ alarm' \in Nat
                         /\ (alarm' = alarm - 1 \/ (alarm = 0 /\ alarm' = 0))
  BY DEF Tick, Typed, TypeOK
<1>3. ASSUME NEW t \in Horizon, alarm # None, alarm <= AtLeast(t, SchedulerTick)
      PROVE  alarm' <= AtLeast(Later(t), SchedulerTick)
  <2>1. t \in Int /\ t >= Past /\ Past \in Int /\ Past <= 0
    BY HorizonFacts
  <2> QED
    BY <1>2, <1>3, <2>1 DEF AtLeast, Later
<1>4. ASSUME NEW r \in Runners
      PROVE  deadline[r] \in Horizon /\ deadline'[r] = Later(deadline[r])
  BY DEF Tick, Typed, TypeOK
<1>5. ASSUME NEW j \in Jobs, checks'[j] # None
      PROVE  checks[j] \in Horizon /\ checks[j] # None /\ checks'[j] = Later(checks[j])
  BY <1>5 DEF Tick, Typed, TypeOK
<1>6. DeadlinesWatched'
  <2> SUFFICES ASSUME sweepAt = "idle" PROVE DeadlinesWatched'
    BY <1>1 DEF DeadlinesWatched
  <2>1. ASSUME NEW r \in Runners, attempts'[r] \in ViableStates
        PROVE  alarm' # None /\ alarm' <= AtLeast(deadline'[r], SchedulerTick)
    BY <1>1, <1>2, <1>3, <1>4, <2>1 DEF Watched, DeadlinesWatched
  <2>2. ASSUME NEW j \in Jobs, checks'[j] # None
        PROVE  alarm' # None /\ alarm' <= AtLeast(checks'[j], SchedulerTick)
    BY <1>2, <1>3, <1>5, <2>2 DEF Watched, DeadlinesWatched
  <2> QED
    BY <2>1, <2>2 DEF DeadlinesWatched
<1>7. AlarmSoon'
  BY <1>1, <1>2 DEF Watched, AlarmSoon
<1> QED
  BY <1>6, <1>7 DEF Watched

LEMMA WatchedStep == Typed /\ Watched /\ [Next]_vars => Watched'
<1> SUFFICES ASSUME Typed, Typed', Watched, [Next]_vars PROVE Watched'
  BY TypedStep
<1>1. CASE Intake
  <2>1. ASSUME NEW d \in Deliveries, NEW j \in Jobs, AcceptQueuedDelivery(d, j) PROVE Watched'
    BY <2>1, AcceptQueuedWatched DEF AcceptQueuedDelivery, sweepVars
  <2>2. ASSUME NEW d \in Deliveries, NEW j \in Jobs, DeferDelivery(d, j) PROVE Watched'
    BY <2>2, NothingMoreToWatch DEF DeferDelivery, attemptVars, sweepVars
  <2>3. ASSUME NEW d \in Deliveries, NEW j \in Jobs, NEW r \in Runners \cup {None},
               AcceptInProgress(d, j, r)
        PROVE  Watched'
    <3>1. UNCHANGED <<checks, alarm, sweepAt>>
      BY <2>3 DEF AcceptInProgress, sweepVars
    <3>2. CASE RecordAssignment(j, r, 0)
      BY <3>1, <3>2, AssignWatched
    <3>3. CASE UNCHANGED attemptVars
      BY <3>1, <3>3, NothingMoreToWatch DEF attemptVars
    <3> QED
      BY <2>3, <3>2, <3>3 DEF AcceptInProgress, attemptVars
  <2>4. ASSUME NEW d \in Deliveries, NEW j \in Jobs, NEW c \in Conclusions \cup {"unknown"},
               AcceptCompleted(d, j, c)
        PROVE  Watched'
    <3>1. UNCHANGED <<alarm, sweepAt>>
      BY <2>4 DEF AcceptCompleted, sweepVars
    <3>2. CASE RecordCompletion(j, c)
      BY <3>1, <3>2, CompletionWatched
    <3>3. CASE UNCHANGED <<attemptVars, checks>>
      BY <3>1, <3>3, NothingMoreToWatch DEF attemptVars
    <3> QED
      BY <2>4, <3>2, <3>3 DEF AcceptCompleted, attemptVars
  <2>5. ASSUME NEW j \in Jobs, Reconcile(j) PROVE Watched'
    BY <2>5, AcceptQueuedWatched DEF Reconcile, sweepVars
  <2>6. ASSUME NEW j \in Jobs, DeferCandidate(j) PROVE Watched'
    BY <2>6, NothingMoreToWatch DEF DeferCandidate, attemptVars, sweepVars
  <2>7. CASE SuspendIntake \/ ResumeIntake
    BY <2>7, NothingMoreToWatch DEF SuspendIntake, ResumeIntake, tables, sweepVars
  <2> QED
    BY <1>1, <2>1, <2>2, <2>3, <2>4, <2>5, <2>6, <2>7 DEF Intake
<1>2. CASE Sweep
  <2>1. CASE AlarmFires
    BY <2>1 DEF AlarmFires, Watched, DeadlinesWatched, AlarmSoon
  <2>2. CASE Rearm
    BY <2>2, RearmWatched
  <2>3. CASE sweepAt # "idle" /\ sweepAt' # "idle" /\ UNCHANGED alarm
    BY <2>3 DEF Watched, DeadlinesWatched, AlarmSoon
  <2>4. CASE \/ StartProvisioning \/ NothingPending \/ SelectUnassigned \/ ReadTriggeringJob
             \/ SelectOverdue \/ SelectLive \/ Probe \/ SelectChecks \/ ReadConclusion
    BY <2>3, <2>4
    DEF StartProvisioning, NothingPending, Goto, SelectUnassigned, ReadTriggeringJob, SelectOverdue,
        SelectLive, Probe, SelectChecks, ReadConclusion
  <2>5. CASE Reclaimed
    BY <2>3, <2>5 DEF Reclaimed, Typed, TypeOK, RunningPoints
  <2>6. ASSUME NEW answer \in {"started", "refused", "container_start"}, Provisioned(answer)
        PROVE  Watched'
    BY <2>3, <2>6 DEF Provisioned
  <2>7. ASSUME NEW claimed \in BOOLEAN, TriggeringJobRead(claimed) PROVE Watched'
    BY <2>3, <2>7 DEF TriggeringJobRead
  <2>8. ASSUME NEW r \in Runners, ExpireRunning(r) PROVE Watched'
    BY <2>3, <2>8 DEF ExpireRunning
  <2>9. ASSUME NEW running \in BOOLEAN, Probed(running) PROVE Watched'
    BY <2>3, <2>9 DEF Probed
  <2>10. ASSUME NEW answer \in {"queued", "in_progress", "unknown"} \cup Conclusions,
                ConclusionRead(answer)
         PROVE  Watched'
    BY <2>3, <2>10 DEF ConclusionRead
  <2> QED
    BY <1>2, <2>1, <2>2, <2>4, <2>5, <2>6, <2>7, <2>8, <2>9, <2>10 DEF Sweep
<1>3. CASE Restart
  <2>1. alarm' \in Nat /\ alarm' <= SchedulerTick /\ alarm' # None
    BY <1>3, TimeAssumption, NoneAssumption
    DEF Restart, AwaitPoints, Watched, AlarmSoon, Typed, TypeOK
  <2> QED
    BY <2>1, TimeAssumption, SoonEnough, TimesAreIntegers
<1>4. CASE Tick
  BY <1>4, TickWatched
<1>5. CASE UNCHANGED vars
  BY <1>5, NothingMoreToWatch DEF vars, tables, sweepVars
<1> QED
  BY <1>1, <1>2, <1>3, <1>4, <1>5 DEF Next

LEMMA WatchedInit == Init => Watched
BY DEF Init, Watched, DeadlinesWatched, AlarmSoon, ViableStates

\* The object is awake in time for every viable attempt and every conclusion check it has:
\* no order of sweeps, accepted jobs, failed calls and restarts leaves the alarm unset or
\* set too late.
THEOREM WakesInTime == Spec => []DeadlinesWatched
<1>1. Watched => DeadlinesWatched
  BY DEF Watched
<1> QED
  BY <1>1, TypedInit, TypedStep, WatchedInit, WatchedStep, PTL DEF Spec

\* In particular it never sleeps for ever on work it owes.
THEOREM NeverAsleep == Spec => []WakeupArmed
<1>1. DeadlinesWatched => WakeupArmed
  BY DEF DeadlinesWatched, WakeupArmed
<1> QED
  BY <1>1, WakesInTime, PTL

-----------------------------------------------------------------------------
(* Capacity.  Nothing bounds the running attempts, as a late assignment       *)
(* revives an attempt whatever the capacity is, but they stay finitely many.  *)

Viable == {r \in Runners : attempts[r] \in ViableStates}

Bounded ==
  /\ IsFiniteSet(ActiveAttempts) /\ IsFiniteSet(PendingJobs)
  /\ Cardinality(PendingJobs) <= MaxPendingJobs
  /\ Cardinality(Viable) <= MaxActiveAttempts

LEMMA NothingAdded ==
  ASSUME Bounded, NEW r,
         \A q \in Runners : attempts'[q] \in ViableStates => attempts[q] \in ViableStates,
         \A q \in Runners : attempts'[q] = "running" => attempts[q] = "running" \/ q = r,
         \A j \in Jobs : pending'[j] # 0 => pending[j] # 0
  PROVE  Bounded'
<1> USE CapacityAssumption DEF Bounded
<1>1. Viable \subseteq ActiveAttempts
  BY DEF Viable, ActiveAttempts, ActiveStates
<1>2. IsFiniteSet(Viable)
  BY <1>1, FS_Subset
<1>3. ActiveAttempts' \subseteq ActiveAttempts \cup {r}
  BY DEF ActiveAttempts, ActiveStates
<1>4. IsFiniteSet(ActiveAttempts')
  BY <1>3, FS_AddElement, FS_Subset
<1>5. Viable' \subseteq Viable /\ PendingJobs' \subseteq PendingJobs
  BY DEF Viable, PendingJobs
<1>6. /\ IsFiniteSet(Viable') /\ Cardinality(Viable') <= Cardinality(Viable)
      /\ IsFiniteSet(PendingJobs') /\ Cardinality(PendingJobs') <= Cardinality(PendingJobs)
  BY <1>2, <1>5, FS_Subset
<1>7. /\ Cardinality(Viable) \in Nat /\ Cardinality(Viable') \in Nat
      /\ Cardinality(PendingJobs) \in Nat /\ Cardinality(PendingJobs') \in Nat
  BY <1>2, <1>6, FS_CardinalityType
<1> QED
  BY <1>4, <1>6, <1>7

LEMMA OneAdded ==
  ASSUME NEW j \in Jobs, Typed, Bounded, HasCapacity, CreateAttempt(j)
  PROVE  Bounded'
<1> USE CapacityAssumption DEF Bounded
<1> PICK n \in 1..MaxAttempts :
      /\ IsNextAttempt(j, n)
      /\ attempts' = [attempts EXCEPT ![<<j, n>>] = "created"]
      /\ pending' = [pending EXCEPT ![j] = n]
  BY DEF CreateAttempt
<1> DEFINE r == <<j, n>>
<1>1. /\ ActiveAttempts' \subseteq ActiveAttempts \cup {r}
      /\ Viable' \subseteq Viable \cup {r}
      /\ PendingJobs' \subseteq PendingJobs \cup {j}
  <2>1. \A q \in Runners \ {r} : attempts'[q] = attempts[q]
    BY DEF Typed, TypeOK
  <2>2. \A k \in Jobs \ {j} : pending'[k] = pending[k]
    BY DEF Typed, TypeOK
  <2> QED
    BY <2>1, <2>2 DEF ActiveAttempts, Viable, PendingJobs
<1>2. Viable \subseteq ActiveAttempts
  BY DEF Viable, ActiveAttempts, ActiveStates
<1>3. IsFiniteSet(Viable) /\ Cardinality(Viable) <= Cardinality(ActiveAttempts)
  BY <1>2, FS_Subset
<1>4. /\ Cardinality(Viable) \in Nat /\ Cardinality(ActiveAttempts) \in Nat
      /\ Cardinality(PendingJobs) \in Nat
  BY <1>3, FS_CardinalityType
<1>5. /\ IsFiniteSet(ActiveAttempts \cup {r})
      /\ IsFiniteSet(Viable \cup {r}) /\ Cardinality(Viable \cup {r}) <= Cardinality(Viable) + 1
      /\ IsFiniteSet(PendingJobs \cup {j})
      /\ Cardinality(PendingJobs \cup {j}) <= Cardinality(PendingJobs) + 1
  <2>1. ASSUME NEW S, NEW x, IsFiniteSet(S)
        PROVE  IsFiniteSet(S \cup {x}) /\ Cardinality(S \cup {x}) <= Cardinality(S) + 1
    <3>1. Cardinality(S) \in Nat
      BY <2>1, FS_CardinalityType
    <3>2. /\ IsFiniteSet(S \cup {x})
          /\ Cardinality(S \cup {x}) = IF x \in S THEN Cardinality(S) ELSE Cardinality(S) + 1
      BY <2>1, FS_AddElement
    <3> QED
      BY <3>1, <3>2
  <2> QED
    BY <1>3, <2>1
<1>6. /\ IsFiniteSet(ActiveAttempts')
      /\ IsFiniteSet(Viable') /\ Cardinality(Viable') <= Cardinality(Viable \cup {r})
      /\ IsFiniteSet(PendingJobs') /\ Cardinality(PendingJobs') <= Cardinality(PendingJobs \cup {j})
  BY <1>1, <1>5, FS_Subset
<1>7. /\ Cardinality(Viable') \in Nat /\ Cardinality(Viable \cup {r}) \in Nat
      /\ Cardinality(PendingJobs') \in Nat /\ Cardinality(PendingJobs \cup {j}) \in Nat
  BY <1>5, <1>6, FS_CardinalityType
<1>8. Cardinality(PendingJobs) < MaxPendingJobs /\ Cardinality(ActiveAttempts) < MaxActiveAttempts
  BY DEF HasCapacity
<1> QED
  BY <1>3, <1>4, <1>5, <1>6, <1>7, <1>8

LEMMA AcceptQueuedBounded ==
  ASSUME NEW j \in Jobs, Typed, Bounded, AcceptQueued(j) PROVE Bounded'
<1>1. CASE UNCHANGED <<attemptVars, pending>>
  BY <1>1, NothingAdded DEF attemptVars
<1>2. CASE HasCapacity /\ CreateAttempt(j)
  BY <1>2, OneAdded
<1> QED
  BY <1>1, <1>2 DEF AcceptQueued, attemptVars

LEMMA AssignBounded ==
  ASSUME NEW j \in Jobs, NEW r \in Runners \cup {None}, NEW now, Typed, Bounded,
         RecordAssignment(j, r, now)
  PROVE  Bounded'
<1>1. CASE UNCHANGED <<attemptVars, pending>>
  BY <1>1, NothingAdded DEF attemptVars
<1>2. CASE ~Unassignable(j, r)
  <2>1. \A q \in Runners : \/ q = r /\ attempts'[q] = "running"
                           \/ attempts'[q] = "stopped"
                           \/ attempts'[q] = attempts[q]
    BY <1>2 DEF RecordAssignment
  <2>2. \A q \in Runners : attempts'[q] \in ViableStates => attempts[q] \in ViableStates
    BY <2>1 DEF ViableStates
  <2>3. \A k \in Jobs : pending'[k] # 0 => pending[k] # 0
    <3>1. pending' = [pending EXCEPT ![j] = 0, ![TriggeringJob(r)] = 0]
      BY <1>2 DEF RecordAssignment
    <3> QED
      BY <3>1 DEF Typed, TypeOK
  <2> QED
    BY <2>1, <2>2, <2>3, NothingAdded
<1> QED
  BY <1>1, <1>2 DEF RecordAssignment

LEMMA RetireBounded ==
  ASSUME NEW R, NEW state \in {"failed", "stopped", "expired"}, Bounded, RetireAttempts(R, state),
         \A j \in Jobs : pending'[j] # 0 => pending[j] # 0
  PROVE  Bounded'
<1>1. \A q \in Runners : attempts'[q] = state \/ attempts'[q] = attempts[q]
  BY DEF RetireAttempts
<1>2. /\ \A q \in Runners : attempts'[q] \in ViableStates => attempts[q] \in ViableStates
      /\ \A q \in Runners : attempts'[q] = "running" => attempts[q] = "running"
  BY <1>1 DEF ViableStates
<1> QED
  BY <1>2, NothingAdded

LEMMA BoundedStep == IInv /\ Bounded /\ [Next]_vars => Bounded'
<1> SUFFICES ASSUME IInv, Bounded, [Next]_vars PROVE Bounded'
  OBVIOUS
<1> USE DEF IInv
<1>1. CASE Intake
  <2>1. ASSUME NEW j \in Jobs, AcceptQueued(j) PROVE Bounded'
    BY <2>1, AcceptQueuedBounded
  <2>2. CASE UNCHANGED <<attemptVars, pending>>
    BY <2>2, NothingAdded DEF attemptVars
  <2>3. ASSUME NEW j \in Jobs, NEW r \in Runners \cup {None}, RecordAssignment(j, r, 0)
        PROVE  Bounded'
    BY <2>3, AssignBounded
  <2>4. ASSUME NEW j \in Jobs, NEW c, RecordCompletion(j, c) PROVE Bounded'
    <3>1. \A k \in Jobs : pending'[k] # 0 => pending[k] # 0
      BY <2>4 DEF RecordCompletion, Typed, TypeOK
    <3> QED
      BY <2>4, <3>1, RetireBounded DEF RecordCompletion
  <2> QED
    BY <1>1, <2>1, <2>2, <2>3, <2>4
    DEF Intake, AcceptQueuedDelivery, DeferDelivery, AcceptInProgress, AcceptCompleted, Reconcile,
        DeferCandidate, SuspendIntake, ResumeIntake, tables, attemptVars
<1>2. CASE Sweep
  <2>1. CASE UNCHANGED <<attempts, pending>>
    BY <2>1, NothingAdded
  <2>2. CASE \/ AlarmFires \/ NothingPending \/ SelectUnassigned \/ ReadTriggeringJob
             \/ SelectOverdue \/ SelectLive \/ Probe \/ Reclaimed \/ SelectChecks
             \/ ReadConclusion \/ Rearm
    BY <2>1, <2>2
    DEF AlarmFires, NothingPending, SelectUnassigned, ReadTriggeringJob, SelectOverdue, SelectLive,
        Probe, Reclaimed, SelectChecks, ReadConclusion, Rearm, tables
  <2>3. CASE StartProvisioning
    <3> PICK j \in PendingJobs : attempts' = [attempts EXCEPT ![<<j, pending[j]>>] = "starting"]
      BY <2>3 DEF StartProvisioning
    <3>1. /\ <<j, pending[j]>> \in Runners
          /\ attempts[<<j, pending[j]>>] \in ViableStates
      BY PendingRow DEF Consistent, PendingNotStarted, PendingJobs, ViableStates
    <3>2. \A q \in Runners : attempts'[q] = attempts[q] \/ (q = <<j, pending[j]>> /\ attempts'[q] = "starting")
      BY <3>1 DEF Typed, TypeOK
    <3>3. UNCHANGED pending
      BY <2>3 DEF StartProvisioning
    <3>4. /\ \A q \in Runners : attempts'[q] \in ViableStates => attempts[q] \in ViableStates
          /\ \A q \in Runners : attempts'[q] = "running" => attempts[q] = "running"
      BY <3>1, <3>2
    <3> QED
      BY <3>3, <3>4, NothingAdded
  <2>4. ASSUME NEW answer \in {"started", "refused", "container_start"}, Provisioned(answer)
        PROVE  Bounded'
    <3>1. \A k \in Jobs : pending'[k] # 0 => pending[k] # 0
      BY <2>4 DEF Provisioned, Typed, TypeOK
    <3>2. CASE FinishProvisioning
      <4>1. \A q \in Runners : \/ attempts'[q] = attempts[q]
                               \/ attempts[q] = "starting" /\ attempts'[q] = "waiting_for_assignment"
        BY <3>2 DEF FinishProvisioning, Typed, TypeOK
      <4>2. /\ \A q \in Runners : attempts'[q] \in ViableStates => attempts[q] \in ViableStates
            /\ \A q \in Runners : attempts'[q] = "running" => attempts[q] = "running"
        BY <4>1 DEF ViableStates
      <4> QED
        BY <3>1, <4>2, NothingAdded
    <3>3. CASE FailProvisioning
      BY <3>1, <3>3, RetireBounded DEF FailProvisioning
    <3> QED
      BY <2>4, <3>2, <3>3 DEF Provisioned
  <2>5. ASSUME NEW claimed \in BOOLEAN, TriggeringJobRead(claimed) PROVE Bounded'
    <3>1. row \in Runners /\ TriggeringJob(row) \in Jobs
      BY <2>5, RunnerFacts DEF TriggeringJobRead, Typed, HoldsRow, AwaitPoints
    <3>2. CASE RecordAssignment(TriggeringJob(row), row, sweepNow)
      BY <3>1, <3>2, AssignBounded
    <3>3. CASE UNCHANGED <<attempts, pending>>
      BY <3>3, <2>1
    <3>4. CASE RetireAttempts({row}, "expired") /\ RequeueUnassigned(TriggeringJob(row))
      BY <3>1, <3>4, RetireBounded, RequeueEffect
    <3> QED
      BY <2>5, <3>2, <3>3, <3>4 DEF TriggeringJobRead, attemptVars
  <2>6. ASSUME NEW r \in Runners, ExpireRunning(r) PROVE Bounded'
    <3>1. CASE UNCHANGED <<attempts, pending>>
      BY <3>1, <2>1
    <3>2. CASE Overdue(r)
      <4>1. \A k \in Jobs : pending'[k] # 0 => pending[k] # 0
        BY <2>6, <3>2 DEF ExpireRunning, Typed, TypeOK
      <4> QED
        BY <2>6, <3>2, <4>1, RetireBounded DEF ExpireRunning
    <3> QED
      BY <2>6, <3>1, <3>2 DEF ExpireRunning, attemptVars
  <2>7. ASSUME NEW running \in BOOLEAN, Probed(running) PROVE Bounded'
    <3>1. UNCHANGED pending
      BY <2>7 DEF Probed
    <3>2. CASE RetireAttempts({row}, "stopped")
      BY <3>1, <3>2, RetireBounded
    <3>3. CASE UNCHANGED attempts
      BY <3>1, <3>3, <2>1
    <3> QED
      BY <2>7, <3>2, <3>3 DEF Probed, attemptVars
  <2>8. ASSUME NEW answer \in {"queued", "in_progress", "unknown"} \cup Conclusions,
               ConclusionRead(answer)
        PROVE  Bounded'
    <3>1. asked \in Jobs /\ UNCHANGED attempts
      BY <2>8 DEF ConclusionRead, Typed, HoldsRow, attemptVars
    <3>2. CASE UNCHANGED pending
      BY <3>1, <3>2, <2>1
    <3>3. CASE RequeueUnassigned(asked)
      BY <3>1, <3>3, RequeueEffect, NothingAdded
    <3> QED
      BY <2>8, <3>2, <3>3 DEF ConclusionRead
  <2> QED
    BY <1>2, <2>2, <2>3, <2>4, <2>5, <2>6, <2>7, <2>8 DEF Sweep
<1>3. CASE Restart \/ Tick \/ UNCHANGED vars
  <2>1. UNCHANGED <<attempts, pending>>
    BY <1>3 DEF Restart, Tick, tables, vars
  <2> QED
    BY <2>1, NothingAdded
<1> QED
  BY <1>1, <1>2, <1>3 DEF Next

LEMMA BoundedInit == Init => Bounded
<1> SUFFICES ASSUME Init PROVE Bounded
  OBVIOUS
<1>1. ActiveAttempts = {} /\ PendingJobs = {} /\ Viable = {}
  BY DEF Init, ActiveAttempts, PendingJobs, Viable, ActiveStates, ViableStates
<1> QED
  BY <1>1, FS_EmptySet, CapacityAssumption DEF Bounded

\* However full the tables are and whatever arrives, pending rows stay within
\* maxPendingJobs and the attempts on their way to a runner within maxActiveAttempts.
THEOREM CapacityKept == Spec => []WithinCapacity
<1>1. Bounded => WithinCapacity
  BY DEF Bounded, WithinCapacity, Viable
<1> QED
  BY <1>1, IInvInit, IInvStep, BoundedInit, BoundedStep, PTL DEF Spec

=============================================================================
