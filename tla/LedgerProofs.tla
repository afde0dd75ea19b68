---------------------------- MODULE LedgerProofs ----------------------------
(***************************************************************************)
(* The Scheduler implements AttemptLedger, for every value of its          *)
(* constants: under the mapping of module Scheduler each of its steps      *)
(* opens, binds or closes one attempt, or leaves the ledger as it is.      *)
(***************************************************************************)
EXTENDS SchedulerProofs

LEMMA PhaseFacts ==
  \A state \in AttemptStates \cup {"absent"} :
    /\ PhaseOf(state) = "none" <=> state = "absent"
    /\ PhaseOf(state) = "open" <=> state \in ViableStates
    /\ PhaseOf(state) = "busy" <=> state = "running"
    /\ PhaseOf(state) = "over" <=> state \in {"failed", "stopped", "expired"}
BY DEF PhaseOf, AttemptStates, ActiveStates, ViableStates

LEMMA LedgerStutters ==
  ASSUME \A r \in Runners : PhaseOf(attempts'[r]) = PhaseOf(attempts[r]), UNCHANGED assignments
  PROVE  UNCHANGED Ledger!ledger
BY DEF Ledger!ledger

LEMMA CreateOpens ==
  ASSUME NEW j \in Jobs, Typed, CreateAttempt(j), ViableAttempts(j) = {}, UNCHANGED assignments
  PROVE  Ledger!LedgerNext
<1> PICK n \in 1..MaxAttempts :
      IsNextAttempt(j, n) /\ attempts' = [attempts EXCEPT ![<<j, n>>] = "created"]
  BY DEF CreateAttempt
<1>1. \A m \in 1..MaxAttempts :
        /\ <<j, m>> \in Runners
        /\ attempts[<<j, m>>] \in AttemptStates \cup {"absent"}
        /\ attempts[<<j, m>>] \notin ViableStates
        /\ attempts[<<j, m>>] # "absent" <=> m < n
  BY RunnerFacts DEF Typed, TypeOK, ViableAttempts, IsNextAttempt
<1>2. \A m \in 1..MaxAttempts :
        /\ PhaseOf(attempts[<<j, m>>]) # "open"
        /\ PhaseOf(attempts[<<j, m>>]) # "none" <=> m < n
  BY <1>1, PhaseFacts
<1>3. PhaseOf("created") = "open"
  BY DEF PhaseOf, ViableStates
<1>4. \A r \in Runners : PhaseOf(attempts'[r]) = IF r = <<j, n>> THEN "open" ELSE PhaseOf(attempts[r])
  BY <1>1, <1>3 DEF Typed, TypeOK
<1>5. Ledger!Open(j, n)
  BY <1>1, <1>2, <1>4 DEF Ledger!Open
<1> QED
  BY <1>5 DEF Ledger!LedgerNext

LEMMA AssignBinds ==
  ASSUME NEW j \in Jobs, NEW r \in Runners \cup {None}, NEW now, Typed,
         RecordAssignment(j, r, now)
  PROVE  [Ledger!LedgerNext]_Ledger!ledger
<1>1. CASE UNCHANGED <<jobs, attemptVars, assignments, pending>>
  BY <1>1, LedgerStutters DEF attemptVars
<1>2. CASE ~Unassignable(j, r)
  <2> DEFINE superseded == {q \in Runners \ {r} : TriggeringJob(q) = j /\ attempts[q] = "created"}
  <2>1. r \in Runners /\ attempts[r] # "absent"
    BY <1>2 DEF Unassignable
  <2>2. assignments[j] = None /\ \A k \in Jobs : assignments[k] # r
    BY <1>2 DEF Unassignable
  <2>3. /\ assignments' = [assignments EXCEPT ![j] = r]
        /\ attempts' = [q \in Runners |-> IF q = r THEN "running"
                          ELSE IF q \in superseded THEN "stopped" ELSE attempts[q]]
    BY <1>2 DEF RecordAssignment
  <2>4. PhaseOf(attempts[r]) # "none"
    BY <2>1, PhaseFacts DEF Typed, TypeOK
  <2>5. PhaseOf("running") = "busy" /\ PhaseOf("stopped") = "over" /\ PhaseOf("created") = "open"
    BY DEF PhaseOf, ViableStates
  <2>6. superseded \in SUBSET {q \in Runners \ {r} : q[1] = j /\ PhaseOf(attempts[q]) = "open"}
    BY <2>5 DEF TriggeringJob
  <2>7. \A q \in Runners : PhaseOf(attempts'[q]) =
          IF q = r THEN "busy" ELSE IF q \in superseded THEN "over" ELSE PhaseOf(attempts[q])
    BY <2>3, <2>5
  <2>8. Ledger!Bind(j, r)
    <3> DEFINE Phase == [q \in Runners |-> PhaseOf(attempts[q])]
    <3>1. Phase[r] # "none"
      BY <2>1, <2>4
    <3>2. superseded \in SUBSET {q \in Runners \ {r} : q[1] = j /\ Phase[q] = "open"}
      BY <2>6
    <3>3. [q \in Runners |-> PhaseOf(attempts'[q])]
            = [q \in Runners |-> IF q = r THEN "busy" ELSE IF q \in superseded THEN "over" ELSE Phase[q]]
      BY <2>7
    <3> HIDE DEF superseded
    <3> QED
      BY <2>2, <2>3, <3>1, <3>2, <3>3 DEF Ledger!Bind, Ledger!Runners, Runners
  <2> QED
    BY <2>1, <2>8 DEF Ledger!LedgerNext, Ledger!Runners, Runners
<1> QED
  BY <1>1, <1>2 DEF RecordAssignment

LEMMA RetireCloses ==
  ASSUME NEW r \in Runners \cup {None}, NEW state \in {"failed", "stopped", "expired"}, Typed,
         RetireAttempts({r}, state), UNCHANGED assignments,
         r \in Runners => attempts[r] # "absent"
  PROVE  [Ledger!LedgerNext]_Ledger!ledger
<1>1. PhaseOf(state) = "over"
  BY DEF PhaseOf, ViableStates
<1>2. \A q \in Runners : PhaseOf(attempts'[q]) = IF q = r THEN "over" ELSE PhaseOf(attempts[q])
  BY <1>1 DEF RetireAttempts
<1>3. CASE r \in Runners /\ PhaseOf(attempts[r]) \in {"open", "busy"}
  <2>1. Ledger!Close(r)
    BY <1>2, <1>3 DEF Ledger!Close, Ledger!Runners, Runners
  <2> QED
    BY <1>3, <2>1 DEF Ledger!LedgerNext, Ledger!Runners, Runners
<1>4. CASE r \in Runners /\ PhaseOf(attempts[r]) \notin {"open", "busy"}
  <2>1. PhaseOf(attempts[r]) = "over"
    BY <1>4, PhaseFacts DEF Typed, TypeOK, AttemptStates, ActiveStates
  <2> QED
    BY <1>2, <2>1, LedgerStutters
<1>5. CASE r = None
  BY <1>2, <1>5, RunnerFacts, LedgerStutters
<1> QED
  BY <1>3, <1>4, <1>5

LEMMA AcceptQueuedOpens ==
  ASSUME NEW j \in Jobs, Typed, AcceptQueued(j), UNCHANGED assignments
  PROVE  [Ledger!LedgerNext]_Ledger!ledger
<1>1. CASE UNCHANGED attemptVars
  BY <1>1, LedgerStutters DEF attemptVars
<1>2. CASE ViableAttempts(j) = {} /\ CreateAttempt(j)
  BY <1>2, CreateOpens
<1> QED
  BY <1>1, <1>2 DEF AcceptQueued, attemptVars

LEMMA IntakeRefines == IInv /\ Intake => [Ledger!LedgerNext]_Ledger!ledger
<1> SUFFICES ASSUME IInv, Intake PROVE [Ledger!LedgerNext]_Ledger!ledger
  OBVIOUS
<1> USE DEF IInv
<1>1. ASSUME NEW d \in Deliveries, NEW j \in Jobs, AcceptQueuedDelivery(d, j)
      PROVE  [Ledger!LedgerNext]_Ledger!ledger
  BY <1>1, AcceptQueuedOpens DEF AcceptQueuedDelivery
<1>2. ASSUME NEW d \in Deliveries, NEW j \in Jobs, DeferDelivery(d, j)
      PROVE  [Ledger!LedgerNext]_Ledger!ledger
  BY <1>2, LedgerStutters DEF DeferDelivery, attemptVars
<1>3. ASSUME NEW d \in Deliveries, NEW j \in Jobs, NEW r \in Runners \cup {None},
             AcceptInProgress(d, j, r)
      PROVE  [Ledger!LedgerNext]_Ledger!ledger
  <2>1. CASE UNCHANGED <<attempts, assignments>>
    BY <2>1, LedgerStutters
  <2>2. CASE RecordAssignment(j, r, 0)
    BY <2>2, AssignBinds
  <2> QED
    BY <1>3, <2>1, <2>2 DEF AcceptInProgress, attemptVars
<1>4. ASSUME NEW d \in Deliveries, NEW j \in Jobs, NEW c \in Conclusions \cup {"unknown"},
             AcceptCompleted(d, j, c)
      PROVE  [Ledger!LedgerNext]_Ledger!ledger
  <2>1. UNCHANGED assignments
    BY <1>4 DEF AcceptCompleted
  <2>2. CASE UNCHANGED attemptVars
    BY <2>1, <2>2, LedgerStutters DEF attemptVars
  <2>3. CASE RecordCompletion(j, c)
    <3>1. assignments[j] \in Runners \cup {None} /\ RetireAttempts({assignments[j]}, "stopped")
      BY <2>3 DEF RecordCompletion, Typed, TypeOK
    <3>2. assignments[j] \in Runners => attempts[assignments[j]] # "absent"
      BY RunnerFacts DEF Consistent, AssignmentsMatchAttempts
    <3> QED
      BY <2>1, <3>1, <3>2, RetireCloses
  <2> QED
    BY <1>4, <2>2, <2>3 DEF AcceptCompleted, attemptVars
<1>5. ASSUME NEW j \in Jobs, Reconcile(j) PROVE [Ledger!LedgerNext]_Ledger!ledger
  BY <1>5, AcceptQueuedOpens DEF Reconcile
<1>6. ASSUME NEW j \in Jobs, DeferCandidate(j) PROVE [Ledger!LedgerNext]_Ledger!ledger
  BY <1>6, LedgerStutters DEF DeferCandidate, attemptVars
<1>7. CASE SuspendIntake \/ ResumeIntake
  BY <1>7, LedgerStutters DEF SuspendIntake, ResumeIntake, tables
<1> QED
  BY <1>1, <1>2, <1>3, <1>4, <1>5, <1>6, <1>7 DEF Intake

LEMMA SweepRefines == IInv /\ Sweep => [Ledger!LedgerNext]_Ledger!ledger
<1> SUFFICES ASSUME IInv, Sweep PROVE [Ledger!LedgerNext]_Ledger!ledger
  OBVIOUS
<1> USE DEF IInv
<1>1. CASE \/ AlarmFires \/ NothingPending \/ SelectUnassigned \/ ReadTriggeringJob
           \/ SelectOverdue \/ SelectLive \/ Probe \/ Reclaimed \/ SelectChecks
           \/ ReadConclusion \/ Rearm
  <2>1. UNCHANGED <<attempts, assignments>>
    BY <1>1
    DEF AlarmFires, NothingPending, SelectUnassigned, ReadTriggeringJob, SelectOverdue, SelectLive,
        Probe, Reclaimed, SelectChecks, ReadConclusion, Rearm, tables
  <2> QED
    BY <2>1, LedgerStutters
<1>2. CASE StartProvisioning
  <2> PICK j \in PendingJobs : attempts' = [attempts EXCEPT ![<<j, pending[j]>>] = "starting"]
    BY <1>2 DEF StartProvisioning
  <2>1. /\ <<j, pending[j]>> \in Runners
        /\ attempts[<<j, pending[j]>>] \in {"created", "starting"}
    BY PendingRow DEF Consistent, PendingNotStarted, PendingJobs
  <2>2. PhaseOf("created") = "open" /\ PhaseOf("starting") = "open"
    BY DEF PhaseOf, ViableStates
  <2>3. \A r \in Runners : PhaseOf(attempts'[r]) = PhaseOf(attempts[r])
    BY <2>1, <2>2 DEF Typed, TypeOK
  <2> QED
    BY <1>2, <2>3, LedgerStutters DEF StartProvisioning
<1>3. ASSUME NEW answer \in {"started", "refused", "container_start"}, Provisioned(answer)
      PROVE  [Ledger!LedgerNext]_Ledger!ledger
  <2>1. row \in Runners /\ UNCHANGED assignments
    BY <1>3 DEF Provisioned, Typed, HoldsRow, AwaitPoints
  <2>2. CASE FinishProvisioning
    <3>1. PhaseOf("starting") = "open" /\ PhaseOf("waiting_for_assignment") = "open"
      BY DEF PhaseOf, ViableStates
    <3>2. \A r \in Runners : PhaseOf(attempts'[r]) = PhaseOf(attempts[r])
      BY <2>1, <2>2, <3>1 DEF FinishProvisioning, Typed, TypeOK
    <3> QED
      BY <2>1, <3>2, LedgerStutters
  <2>3. CASE FailProvisioning
    <3>1. CASE attempts[row] = "starting"
      <4>1. RetireAttempts({row}, "failed")
        BY <2>1, <2>3, <3>1 DEF FailProvisioning, RetireAttempts
      <4> QED
        BY <2>1, <3>1, <4>1, RetireCloses
    <3>2. CASE attempts[row] # "starting"
      <4>1. attempts' = attempts
        BY <2>1, <2>3, <3>2 DEF FailProvisioning, RetireAttempts, Typed, TypeOK
      <4> QED
        BY <2>1, <4>1, LedgerStutters
    <3> QED
      BY <3>1, <3>2
  <2> QED
    BY <1>3, <2>2, <2>3 DEF Provisioned
<1>4. ASSUME NEW claimed \in BOOLEAN, TriggeringJobRead(claimed)
      PROVE  [Ledger!LedgerNext]_Ledger!ledger
  <2>1. row \in Runners /\ TriggeringJob(row) \in Jobs
    BY <1>4, RunnerFacts DEF TriggeringJobRead, Typed, HoldsRow, AwaitPoints
  <2>2. CASE RecordAssignment(TriggeringJob(row), row, sweepNow)
    BY <2>1, <2>2, AssignBinds
  <2>3. CASE UNCHANGED <<attempts, assignments>>
    BY <2>3, LedgerStutters
  <2>4. CASE UnassignedExpired(row) /\ RetireAttempts({row}, "expired") /\ UNCHANGED assignments
    BY <2>1, <2>4, RetireCloses DEF UnassignedExpired, ViableStates
  <2> QED
    BY <1>4, <2>2, <2>3, <2>4 DEF TriggeringJobRead, attemptVars
<1>5. ASSUME NEW r \in Runners, ExpireRunning(r) PROVE [Ledger!LedgerNext]_Ledger!ledger
  <2>1. CASE Overdue(r) /\ RetireAttempts({r}, "expired")
    BY <1>5, <2>1, RetireCloses DEF ExpireRunning, Overdue
  <2>2. CASE UNCHANGED attempts
    BY <1>5, <2>2, LedgerStutters DEF ExpireRunning
  <2> QED
    BY <1>5, <2>1, <2>2 DEF ExpireRunning, attemptVars
<1>6. ASSUME NEW running \in BOOLEAN, Probed(running) PROVE [Ledger!LedgerNext]_Ledger!ledger
  <2>1. row \in Runners
    BY <1>6 DEF Probed, Typed, HoldsRow, AwaitPoints
  <2>2. CASE Live(row) /\ RetireAttempts({row}, "stopped")
    BY <1>6, <2>1, <2>2, RetireCloses DEF Probed, Live, LiveStates
  <2>3. CASE UNCHANGED attempts
    BY <1>6, <2>3, LedgerStutters DEF Probed
  <2> QED
    BY <1>6, <2>2, <2>3 DEF Probed, attemptVars
<1>7. ASSUME NEW answer \in {"queued", "in_progress", "unknown"} \cup Conclusions,
             ConclusionRead(answer)
      PROVE  [Ledger!LedgerNext]_Ledger!ledger
  BY <1>7, LedgerStutters DEF ConclusionRead, attemptVars
<1> QED
  BY <1>1, <1>2, <1>3, <1>4, <1>5, <1>6, <1>7 DEF Sweep

LEMMA NextRefines == IInv /\ [Next]_vars => [Ledger!LedgerNext]_Ledger!ledger
<1> SUFFICES ASSUME IInv, [Next]_vars PROVE [Ledger!LedgerNext]_Ledger!ledger
  OBVIOUS
<1>1. CASE Restart \/ Tick \/ UNCHANGED vars
  <2>1. UNCHANGED <<attempts, assignments>>
    BY <1>1 DEF Restart, Tick, vars, tables
  <2> QED
    BY <2>1, LedgerStutters
<1> QED
  BY <1>1, IntakeRefines, SweepRefines DEF Next

\* The Scheduler implements the ledger: whatever deliveries arrive, however they are
\* interleaved with the sweep, whatever the remote calls answer and wherever the object
\* restarts, each step opens, binds or closes at most one attempt, as the ledger allows.
THEOREM ImplementsLedger == Spec => KeepsLedger
<1>1. Init => Ledger!LedgerInit
  <2>1. PhaseOf("absent") = "none"
    BY DEF PhaseOf
  <2> QED
    BY <2>1 DEF Init, Ledger!LedgerInit, Ledger!Runners, Runners
<1> QED
  BY <1>1, IInvInit, IInvStep, NextRefines, PTL DEF Spec, KeepsLedger, Ledger!LedgerSpec

-----------------------------------------------------------------------------
(* What the ledger promises of a step, the Scheduler promises. *)

\* A job is bound to a runner for ever: no late, repeated or contradictory delivery, no
\* answer of GitHub and no restart moves it to another one.
THEOREM BoundForever == Spec => BindingsPermanent
<1>1. IInv /\ [Next]_vars => (\A j \in Jobs : assignments[j] # None => assignments'[j] = assignments[j])
  <2> SUFFICES ASSUME IInv, [Ledger!LedgerNext]_Ledger!ledger,
                      NEW j \in Jobs, assignments[j] # None
               PROVE  assignments'[j] = assignments[j]
    BY NextRefines
  <2>1. CASE \E k \in Jobs, r \in Ledger!Runners : Ledger!Bind(k, r)
    BY <2>1 DEF Ledger!Bind, IInv, Typed, TypeOK
  <2> QED
    BY <2>1 DEF Ledger!LedgerNext, Ledger!Open, Ledger!Close, Ledger!ledger
<1> QED
  BY <1>1, IInvInit, IInvStep, PTL DEF Spec, BindingsPermanent

Revived(r) ==
  attempts[r] \in {"failed", "stopped", "expired"} /\ attempts'[r] \in ActiveStates

FirstAssigned(r) ==
  /\ attempts'[r] = "running"
  /\ \A j \in Jobs : assignments[j] # r
  /\ \E j \in Jobs : assignments'[j] = r

LEMMA RevivedStep ==
  ASSUME IInv, [Next]_vars, NEW r \in Runners, Revived(r)
  PROVE  FirstAssigned(r)
<1>1. PhaseOf(attempts[r]) = "over" /\ PhaseOf(attempts'[r]) \in {"open", "busy"}
  BY PhaseFacts DEF Revived, AttemptStates, ActiveStates, ViableStates
<1>2. PICK j \in Jobs, q \in Runners : Ledger!Bind(j, q)
  <2>1. ASSUME NEW j \in Jobs, NEW n \in 1..MaxAttempts, Ledger!Open(j, n) PROVE FALSE
    <3>1. PhaseOf(attempts[<<j, n>>]) = "none"
      <4>1. <<j, n>> \in Runners /\ n \in Int
        BY RunnerFacts, AttemptsAssumption
      <4>2. PhaseOf(attempts[<<j, n>>]) # "none" <=> n < n
        BY <2>1, <4>1 DEF Ledger!Open
      <4>3. ~(n < n)
        BY <4>1
      <4> QED
        BY <4>2, <4>3
    <3>2. \A q \in Runners \ {<<j, n>>} : PhaseOf(attempts'[q]) = PhaseOf(attempts[q])
      BY <2>1 DEF Ledger!Open
    <3> QED
      BY <1>1, <3>1, <3>2
  <2>2. ASSUME NEW q \in Runners, Ledger!Close(q) PROVE FALSE
    BY <1>1, <2>2 DEF Ledger!Close
  <2>3. ~ UNCHANGED Ledger!ledger
    BY <1>1 DEF Ledger!ledger
  <2> QED
    BY <2>1, <2>2, <2>3, NextRefines DEF Ledger!LedgerNext, Ledger!Runners, Runners
<1>3. q = r /\ PhaseOf(attempts'[r]) = "busy"
  BY <1>1, <1>2 DEF Ledger!Bind, Ledger!Runners, Runners
<1>4. attempts'[r] = "running"
  BY <1>3, PhaseFacts DEF Revived, AttemptStates, ActiveStates
<1>5. \A k \in Jobs : assignments[k] # r
  BY <1>2, <1>3 DEF Ledger!Bind
<1>6. assignments'[j] = r
  BY <1>2, <1>3 DEF Ledger!Bind, IInv, Typed, TypeOK
<1> QED
  BY <1>4, <1>5, <1>6 DEF FirstAssigned

\* An attempt that is over is revived by nothing but the first assignment of a job to its
\* runner: it is never provisioned, or waited for, a second time.
THEOREM RevivedByAssignment == Spec => RevivedOnlyByAssignment
<1>1. IInv /\ [Next]_vars =>
        \A r \in Runners :
          /\ attempts[r] \in {"failed", "stopped", "expired"}
          /\ attempts'[r] \in ActiveStates
          => /\ attempts'[r] = "running"
             /\ \A j \in Jobs : assignments[j] # r
             /\ \E j \in Jobs : assignments'[j] = r
  BY RevivedStep DEF Revived, FirstAssigned
<1> QED
  BY <1>1, IInvInit, IInvStep, PTL DEF Spec, RevivedOnlyByAssignment

-----------------------------------------------------------------------------
(* A drained Scheduler. *)

\* An attempt that is active after the step had a row before it.
OnlyKnownActive == \A r \in Runners : attempts'[r] \in ActiveStates => attempts[r] # "absent"

LEMMA QuietKnown == ASSUME IInv, UNCHANGED attempts PROVE OnlyKnownActive
BY DEF OnlyKnownActive, ActiveStates, ViableStates

LEMMA RetireKnown ==
  ASSUME NEW R, NEW state \in {"failed", "stopped", "expired"}, RetireAttempts(R, state)
  PROVE  OnlyKnownActive
BY DEF OnlyKnownActive, RetireAttempts, ActiveStates, ViableStates

LEMMA AssignKnown ==
  ASSUME IInv, NEW j \in Jobs, NEW r, NEW now, RecordAssignment(j, r, now)
  PROVE  OnlyKnownActive
<1>1. CASE UNCHANGED attempts
  BY <1>1, QuietKnown
<1>2. CASE ~Unassignable(j, r)
  <2>1. r # None => attempts[r] # "absent"
    BY <1>2 DEF Unassignable
  <2>2. \A q \in Runners : \/ q = r /\ r # None
                           \/ attempts'[q] = "stopped"
                           \/ attempts'[q] = attempts[q]
    BY <1>2 DEF RecordAssignment, Unassignable
  <2> QED
    BY <2>1, <2>2 DEF OnlyKnownActive, ActiveStates, ViableStates
<1> QED
  BY <1>1, <1>2 DEF RecordAssignment, attemptVars

\* Only the intake of a queued job makes a row, and a suspended Scheduler takes none in.
LEMMA SuspendedKnown ==
  ASSUME IInv, intakeSuspended, [Next]_vars
  PROVE  OnlyKnownActive
<1>1. CASE UNCHANGED attempts
  BY <1>1, QuietKnown
<1>2. ASSUME NEW d \in Deliveries, NEW j \in Jobs, NEW r \in Runners \cup {None},
             AcceptInProgress(d, j, r)
      PROVE  OnlyKnownActive
  BY <1>1, <1>2, AssignKnown DEF AcceptInProgress, attemptVars
<1>3. ASSUME NEW d \in Deliveries, NEW j \in Jobs, NEW c \in Conclusions \cup {"unknown"},
             AcceptCompleted(d, j, c)
      PROVE  OnlyKnownActive
  BY <1>1, <1>3, RetireKnown DEF AcceptCompleted, RecordCompletion, attemptVars
<1>4. CASE StartProvisioning
  <2>1. PICK j \in PendingJobs : attempts' = [attempts EXCEPT ![<<j, pending[j]>>] = "starting"]
    BY <1>4 DEF StartProvisioning
  <2>2. attempts[<<j, pending[j]>>] # "absent"
    BY DEF IInv, Consistent, PendingNotStarted
  <2> QED
    BY <2>1, <2>2 DEF OnlyKnownActive, IInv, Typed, TypeOK, ActiveStates, ViableStates
<1>5. ASSUME NEW answer, Provisioned(answer) PROVE OnlyKnownActive
  <2>1. CASE FinishProvisioning
    BY <2>1 DEF FinishProvisioning, OnlyKnownActive, IInv, Typed, TypeOK, ActiveStates, ViableStates
  <2>2. CASE FailProvisioning
    BY <2>2, RetireKnown DEF FailProvisioning
  <2> QED
    BY <1>5, <2>1, <2>2 DEF Provisioned
<1>6. ASSUME NEW claimed, TriggeringJobRead(claimed) PROVE OnlyKnownActive
  <2>1. TriggeringJob(row) \in Jobs
    BY <1>6, RunnerFacts DEF TriggeringJobRead, IInv, Typed, HoldsRow, AwaitPoints
  <2>2. CASE RecordAssignment(TriggeringJob(row), row, sweepNow)
    BY <2>1, <2>2, AssignKnown
  <2>3. CASE RetireAttempts({row}, "expired")
    BY <2>3, RetireKnown
  <2> QED
    BY <1>1, <1>6, <2>2, <2>3 DEF TriggeringJobRead, attemptVars
<1>7. ASSUME NEW r \in Runners, ExpireRunning(r) PROVE OnlyKnownActive
  BY <1>1, <1>7, RetireKnown DEF ExpireRunning, attemptVars
<1>8. ASSUME NEW running, Probed(running) PROVE OnlyKnownActive
  BY <1>1, <1>8, RetireKnown DEF Probed, attemptVars
<1>9. ASSUME Intake PROVE OnlyKnownActive
  BY <1>1, <1>2, <1>3, <1>9
  DEF Intake, AcceptQueuedDelivery, Reconcile, DeferDelivery, DeferCandidate, SuspendIntake,
      ResumeIntake, tables, attemptVars
<1>10. ASSUME Sweep PROVE OnlyKnownActive
  BY <1>1, <1>4, <1>5, <1>6, <1>7, <1>8, <1>10
  DEF Sweep, AlarmFires, NothingPending, Goto, SelectUnassigned, ReadTriggeringJob,
      SelectOverdue, SelectLive, Probe, Reclaimed, SelectChecks, ReadConclusion,
      ConclusionRead, Rearm, tables, attemptVars
<1> QED
  BY <1>1, <1>9, <1>10 DEF Next, Restart, Tick, vars, tables

\* What the drain of an uninstall or an upgrade waits for stays reached, for any number of
\* jobs and whatever was under way when intake was suspended: only a runner that takes a
\* job makes an attempt active again.
THEOREM DrainedForGood == Spec => DrainedStaysDrained
<1>1. ASSUME IInv, [Next]_vars, intakeSuspended, ActiveAttempts = {}, NEW r \in Runners,
             attempts'[r] \in ActiveStates
      PROVE  FirstAssigned(r)
  <2>1. attempts[r] # "absent"
    BY <1>1, SuspendedKnown DEF OnlyKnownActive
  <2>2. attempts[r] \in AttemptStates \ ActiveStates
    BY <1>1, <2>1 DEF ActiveAttempts, IInv, Typed, TypeOK
  <2>3. Revived(r)
    BY <1>1, <2>2 DEF Revived, AttemptStates
  <2> QED
    BY <1>1, <2>3, RevivedStep
<1>2. IInv /\ [Next]_vars =>
        (intakeSuspended /\ ActiveAttempts = {} =>
           \A r \in Runners : attempts'[r] \in ActiveStates =>
             /\ attempts'[r] = "running"
             /\ \A j \in Jobs : assignments[j] # r
             /\ \E j \in Jobs : assignments'[j] = r)
  BY <1>1 DEF FirstAssigned
<1> QED
  BY <1>2, IInvInit, IInvStep, PTL DEF Spec, DrainedStaysDrained

=============================================================================
