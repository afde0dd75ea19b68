---------------------------- MODULE JitneyProofs ----------------------------
(***************************************************************************)
(* The Scheduler among its services is still the Scheduler: every step of  *)
(* Jitney is a step of module Scheduler, with inputs that module allows,   *)
(* or leaves it alone.  So its theorems hold here too.  And what it writes *)
(* down about GitHub is true.                                              *)
(***************************************************************************)
EXTENDS Jitney, SchedulerProofs

Answers == {"queued", "in_progress", "unknown"} \cup Conclusions

\* What the services know of each other, and what an answer under way was worth when it
\* was given and is worth for ever.
WorldInv ==
  /\ TypeOKWorld
  /\ \A j \in Jobs : gh[j] = "queued" => claimedBy[j] = None
  /\ \A j \in Jobs : gh[j] \in {"completed", "gone"} <=> result[j] # None
  /\ sweepAt = "readingJob" /\ remote = "claimed" => claimedBy[TriggeringJob(row)] = row
  /\ sweepAt = "readingConclusion" /\ remote # "none" =>
       /\ remote \in Answers
       /\ remote \notin {"queued", "in_progress"} =>
            /\ gh[asked] \in {"completed", "gone"}
            /\ remote = result[asked] \/ (remote = "unknown" /\ gh[asked] = "gone")
  /\ sweepAt \notin AwaitPoints => remote = "none"

Truthful == AssignmentsAreTrue /\ ConclusionsAreTrue

LEMMA ConclusionFacts ==
  /\ None \notin Conclusions \cup {"unknown"}
  /\ \A c \in Conclusions : c \notin {"queued", "in_progress", "unknown", "none", "claimed"}
  /\ \A j \in Jobs : /\ <<"queued", j>> \in Deliveries
                     /\ <<"in_progress", j>> \in Deliveries
                     /\ <<"completed", j>> \in Deliveries
<1>1. None \notin Conclusions \cup {"unknown"}
  BY NoneAssumption
<1>2. \A j \in Jobs : /\ <<"queued", j>> \in Deliveries
                      /\ <<"in_progress", j>> \in Deliveries
                      /\ <<"completed", j>> \in Deliveries
  BY DeliveriesAssumption
<1> QED
  BY <1>1, <1>2, ConclusionsAssumption

-----------------------------------------------------------------------------
(* Steps of the Scheduler. *)

LEMMA ReturnSchedules == WorldInv /\ Return => Sweep
<1> SUFFICES ASSUME WorldInv, Return PROVE Sweep
  OBVIOUS
<1>1. CASE remote \in {"started", "refused", "container_start"} /\ Provisioned(remote)
  BY <1>1 DEF Sweep
<1>2. CASE Reclaimed
  BY <1>2 DEF Sweep
<1>3. CASE TriggeringJobRead(remote = "claimed")
  BY <1>3 DEF Sweep
<1>4. CASE Probed(remote = "running")
  BY <1>4 DEF Sweep
<1>5. CASE ConclusionRead(remote)
  <2>1. remote \in Answers
    BY <1>5 DEF WorldInv, Return, ConclusionRead
  <2> QED
    BY <1>5, <2>1 DEF Sweep, Answers
<1> QED
  BY <1>1, <1>2, <1>3, <1>4, <1>5 DEF Return

LEMMA JitneySchedules == WorldInv /\ [JitneyNext]_allVars => [Next]_vars
<1> SUFFICES ASSUME WorldInv, [JitneyNext]_allVars PROVE [Next]_vars
  OBVIOUS
<1>1. ASSUME NEW j \in Jobs, DeliverQueued(j) \/ DeliverInProgress(j) \/ DeliverCompleted(j)
      PROVE  Intake
  <2>1. /\ claimedBy[j] \in Runners \cup {None}
        /\ result[j] # None => result[j] \in Conclusions
    BY DEF WorldInv, TypeOKWorld
  <2> QED
    BY <1>1, <2>1, ConclusionFacts DEF DeliverQueued, DeliverInProgress, DeliverCompleted, Intake
<1>2. ASSUME NEW j \in Jobs, ReconcileDiscovered(j) PROVE Intake
  BY <1>2 DEF ReconcileDiscovered, Intake
<1>3. ASSUME NEW j \in Jobs, \/ \E r \in Runners : Claim(r, j)
                             \/ Finish(j) \/ LoseJob(j) \/ CancelQueued(j) \/ DeleteRun(j)
                             \/ Discover(j)
      PROVE  UNCHANGED vars
  BY <1>3 DEF Claim, Finish, LoseJob, CancelQueued, DeleteRun, Discover, WorldStep
<1>4. ASSUME NEW r \in Runners, Exit(r) PROVE UNCHANGED vars
  BY <1>4 DEF Exit, WorldStep
<1>5. CASE Proceed
  BY <1>5 DEF Proceed, Sweep, Next
<1>6. CASE RemoteStep
  <2>1. CASE Return
    BY <2>1, ReturnSchedules DEF Next
  <2>2. CASE ~Return
    BY <1>6, <2>2
    DEF RemoteStep, MintJitConfig, RefuseProvision, StartContainer, DestroyContainer, DeleteRunner,
        ProbeContainer, ReadRunnerOfJob, ReadStatusOfJob, Calling
  <2> QED
    BY <2>1, <2>2
<1>7. CASE Crash \/ TimePasses
  BY <1>7 DEF Crash, TimePasses, Next
<1>8. CASE UNCHANGED allVars
  BY <1>8 DEF allVars
<1> QED
  BY <1>1, <1>2, <1>3, <1>4, <1>5, <1>6, <1>7, <1>8 DEF JitneyNext, Next

-----------------------------------------------------------------------------
(* The services. *)

\* A step of the world that only adds facts keeps every answer true.
LEMMA EndKeeps ==
  ASSUME NEW j \in Jobs, NEW c \in Conclusions, WorldInv, WorldStep, End(j, c),
         gh[j] \in {"queued", "in_progress"}
  PROVE  WorldInv'
<1>1. /\ gh'[j] = "completed" /\ result'[j] = c /\ c # None
      /\ \A k \in Jobs \ {j} : gh'[k] = gh[k] /\ result'[k] = result[k]
      /\ UNCHANGED <<claimedBy, vars, remote>>
  BY ConclusionFacts DEF End, WorldInv, TypeOKWorld, WorldStep
<1>2. TypeOKWorld'
  BY <1>1 DEF End, WorldInv, TypeOKWorld
<1>3. UNCHANGED <<sweepAt, row, asked>>
  BY <1>1 DEF vars, sweepVars
<1>4. sweepAt = "readingConclusion" /\ remote \in Answers \ {"queued", "in_progress"}
        => asked # j
  BY ConclusionFacts DEF WorldInv, Answers
<1>5. sweepAt = "readingConclusion" /\ remote # "none" =>
        /\ remote \in Answers
        /\ remote \notin {"queued", "in_progress"} =>
             /\ gh'[asked] \in {"completed", "gone"}
             /\ remote = result'[asked] \/ (remote = "unknown" /\ gh'[asked] = "gone")
  <2>1. CASE asked \in Jobs
    BY <1>1, <1>4, <2>1 DEF WorldInv
  <2>2. CASE asked \notin Jobs
    BY <1>1, <2>2 DEF WorldInv, End, TypeOKWorld
  <2> QED
    BY <2>1, <2>2
<1> QED
  BY <1>1, <1>2, <1>3, <1>5 DEF WorldInv

LEMMA WorldMoves ==
  ASSUME Typed, WorldInv, NEW j \in Jobs,
         \/ \E r \in Runners : Claim(r, j)
         \/ Finish(j) \/ LoseJob(j) \/ CancelQueued(j) \/ DeleteRun(j) \/ Discover(j)
  PROVE  WorldInv'
<1>1. CASE Finish(j) \/ LoseJob(j) \/ CancelQueued(j)
  BY <1>1, EndKeeps, LostJobsFail DEF Finish, LoseJob, CancelQueued
<1>2. CASE \E r \in Runners : Claim(r, j)
  <2> PICK r \in Runners : Claim(r, j)
    BY <1>2
  <2>1. UNCHANGED <<sweepAt, row, asked, remote, result, registered, up, discovered>>
    BY DEF Claim, WorldStep, vars, sweepVars
  <2>2. /\ gh[j] = "queued" /\ gh'[j] = "in_progress" /\ claimedBy[j] = None
        /\ \A k \in Jobs \ {j} : gh'[k] = gh[k] /\ claimedBy'[k] = claimedBy[k]
    BY DEF Claim, WorldInv, TypeOKWorld
  <2>3. TypeOKWorld'
    BY <2>1 DEF Claim, WorldInv, TypeOKWorld
  <2>4. sweepAt = "readingJob" /\ remote = "claimed" => claimedBy'[TriggeringJob(row)] = row
    BY <2>2, RunnerFacts DEF WorldInv, Typed, HoldsRow, AwaitPoints
  <2>5. sweepAt = "readingConclusion" => asked \in Jobs
    BY DEF Typed, HoldsRow
  <2> QED
    BY <2>1, <2>2, <2>3, <2>4, <2>5 DEF WorldInv
<1>3. CASE DeleteRun(j)
  <2>1. UNCHANGED <<sweepAt, row, asked, remote, result, claimedBy, registered, up, discovered>>
    BY <1>3 DEF DeleteRun, WorldStep, vars, sweepVars
  <2>2. /\ gh[j] = "completed" /\ gh'[j] = "gone"
        /\ \A k \in Jobs \ {j} : gh'[k] = gh[k]
    BY <1>3 DEF DeleteRun, WorldInv, TypeOKWorld
  <2>3. TypeOKWorld'
    BY <1>3, <2>1 DEF DeleteRun, WorldInv, TypeOKWorld
  <2>4. sweepAt = "readingConclusion" => asked \in Jobs
    BY DEF Typed, HoldsRow
  <2> QED
    BY <2>1, <2>2, <2>3, <2>4 DEF WorldInv
<1>4. CASE Discover(j)
  BY <1>4 DEF Discover, WorldStep, vars, sweepVars, WorldInv, TypeOKWorld, githubVars
<1> QED
  BY <1>1, <1>2, <1>3, <1>4

LEMMA WorldStays ==
  ASSUME WorldInv, TypeOKWorld', UNCHANGED <<gh, claimedBy, result>>,
         remote' = "none" \/ UNCHANGED <<sweepAt, row, asked, remote>>
  PROVE  WorldInv'
BY DEF WorldInv

LEMMA RemoteMoves ==
  ASSUME Typed, WorldInv, RemoteStep, ~Return
  PROVE  WorldInv'
<1>1. UNCHANGED <<sweepAt, row, asked, gh, claimedBy, result, discovered>>
  BY DEF RemoteStep, MintJitConfig, RefuseProvision, StartContainer, DestroyContainer,
         DeleteRunner, ProbeContainer, ReadRunnerOfJob, ReadStatusOfJob, Calling, vars, sweepVars,
         worldVars, githubVars
<1>2. CASE ReadStatusOfJob
  <2>1. asked \in Jobs /\ sweepAt = "readingConclusion" /\ UNCHANGED worldVars
    BY <1>2 DEF ReadStatusOfJob, Calling, Typed, HoldsRow
  <2>2. CASE gh[asked] = "completed" /\ remote' = result[asked]
    <3>1. result[asked] \in Conclusions
      BY <2>1, <2>2 DEF WorldInv, TypeOKWorld
    <3>2. TypeOKWorld'
      BY <2>1, <2>2, <3>1 DEF WorldInv, TypeOKWorld, worldVars, githubVars
    <3> QED
      BY <1>1, <2>1, <2>2, <3>1, <3>2 DEF WorldInv, Answers, AwaitPoints
  <2>3. CASE gh[asked] = "gone" /\ remote' = "unknown"
    <3>1. TypeOKWorld'
      BY <2>1, <2>3 DEF WorldInv, TypeOKWorld, worldVars, githubVars
    <3> QED
      BY <1>1, <2>1, <2>3, <3>1 DEF WorldInv, Answers, AwaitPoints
  <2>4. CASE remote' \in {"queued", "in_progress"}
    <3>1. TypeOKWorld'
      BY <2>1, <2>4 DEF WorldInv, TypeOKWorld, worldVars, githubVars
    <3> QED
      BY <1>1, <2>1, <2>4, <3>1 DEF WorldInv, Answers, AwaitPoints
  <2> QED
    BY <1>2, <2>1, <2>2, <2>3, <2>4 DEF ReadStatusOfJob, WorldInv, TypeOKWorld
<1>3. CASE ReadRunnerOfJob
  <2>1. sweepAt = "readingJob" /\ UNCHANGED worldVars /\ remote' \in {"claimed", "unclaimed"}
    BY <1>3 DEF ReadRunnerOfJob, Calling
  <2>2. remote' = "claimed" => claimedBy[TriggeringJob(row)] = row
    BY <1>3 DEF ReadRunnerOfJob
  <2>3. TypeOKWorld'
    BY <2>1 DEF WorldInv, TypeOKWorld, worldVars, githubVars
  <2> QED
    BY <1>1, <2>1, <2>2, <2>3 DEF WorldInv, AwaitPoints
<1>4. CASE \/ MintJitConfig \/ RefuseProvision \/ StartContainer \/ DestroyContainer
           \/ DeleteRunner \/ ProbeContainer
  <2>1. /\ sweepAt \in {"provisioning", "reclaiming", "probing"}
        /\ remote' \in {"minted", "started", "refused", "container_start", "destroyed", "done",
                        "running", "stopped"}
    BY <1>4 DEF MintJitConfig, RefuseProvision, StartContainer, DestroyContainer, DeleteRunner,
                ProbeContainer, Calling
  <2>2. row \in Runners
    BY <2>1 DEF Typed, HoldsRow, AwaitPoints
  <2>3. registered' \subseteq Runners /\ up' \subseteq Runners
    BY <1>4, <2>2 DEF MintJitConfig, RefuseProvision, StartContainer, DestroyContainer,
                      DeleteRunner, ProbeContainer, WorldInv, TypeOKWorld, worldVars, githubVars
  <2>4. TypeOKWorld'
    BY <1>1, <2>1, <2>3 DEF WorldInv, TypeOKWorld
  <2> QED
    BY <1>1, <2>1, <2>4 DEF WorldInv, AwaitPoints
<1> QED
  BY <1>2, <1>3, <1>4 DEF RemoteStep

LEMMA WorldInvStep == Typed /\ WorldInv /\ [JitneyNext]_allVars => WorldInv'
<1> SUFFICES ASSUME Typed, WorldInv, [JitneyNext]_allVars PROVE WorldInv'
  OBVIOUS
<1>1. ASSUME NEW j \in Jobs, \/ \E r \in Runners : Claim(r, j)
                             \/ Finish(j) \/ LoseJob(j) \/ CancelQueued(j) \/ DeleteRun(j)
                             \/ Discover(j)
      PROVE  WorldInv'
  BY <1>1, WorldMoves
<1>2. ASSUME NEW j \in Jobs,
             DeliverQueued(j) \/ DeliverInProgress(j) \/ DeliverCompleted(j) \/ ReconcileDiscovered(j)
      PROVE  WorldInv'
  <2>1. UNCHANGED <<gh, claimedBy, result, registered, up, remote, sweepAt, row, asked>>
    BY <1>2 DEF DeliverQueued, DeliverInProgress, DeliverCompleted, ReconcileDiscovered,
                AcceptQueuedDelivery, AcceptInProgress, AcceptCompleted, Reconcile, worldVars,
                githubVars, sweepVars
  <2>2. TypeOKWorld'
    BY <1>2, <2>1 DEF DeliverQueued, DeliverInProgress, DeliverCompleted, ReconcileDiscovered,
                      worldVars, WorldInv, TypeOKWorld
  <2> QED
    BY <2>1, <2>2, WorldStays
<1>3. ASSUME NEW r \in Runners, Exit(r) PROVE WorldInv'
  <2>1. UNCHANGED <<gh, claimedBy, result, registered, discovered, remote, sweepAt, row, asked>>
    BY <1>3 DEF Exit, WorldStep, vars, sweepVars, githubVars
  <2>2. TypeOKWorld'
    BY <1>3, <2>1 DEF Exit, WorldInv, TypeOKWorld
  <2> QED
    BY <2>1, <2>2, WorldStays
<1>4. CASE Proceed
  <2>1. UNCHANGED <<worldVars, remote>>
    BY <1>4 DEF Proceed
  <2>2. sweepAt \notin AwaitPoints
    BY <1>4
    DEF Proceed, AlarmFires, StartProvisioning, NothingPending, SelectUnassigned, ReadTriggeringJob,
        SelectOverdue, ExpireRunning, SelectLive, Probe, SelectChecks, ReadConclusion, Rearm,
        AwaitPoints
  <2>3. remote' = "none"
    BY <2>1, <2>2 DEF WorldInv
  <2>4. TypeOKWorld'
    BY <2>1 DEF WorldInv, TypeOKWorld, worldVars, githubVars
  <2> QED
    BY <2>1, <2>3, <2>4, WorldStays DEF worldVars, githubVars
<1>5. CASE RemoteStep
  <2>1. CASE Return
    <3>1. remote' = "none" /\ UNCHANGED worldVars
      BY <2>1 DEF Return
    <3>2. TypeOKWorld'
      BY <3>1 DEF WorldInv, TypeOKWorld, worldVars, githubVars
    <3> QED
      BY <3>1, <3>2, WorldStays DEF worldVars, githubVars
  <2>2. CASE ~Return
    BY <1>5, <2>2, RemoteMoves
  <2> QED
    BY <2>1, <2>2
<1>6. CASE Crash
  <2>1. remote' = "none" /\ UNCHANGED worldVars
    BY <1>6 DEF Crash
  <2>2. TypeOKWorld'
    BY <2>1 DEF WorldInv, TypeOKWorld, worldVars, githubVars
  <2> QED
    BY <2>1, <2>2, WorldStays DEF worldVars, githubVars
<1>7. CASE TimePasses \/ UNCHANGED allVars
  <2>1. UNCHANGED <<gh, claimedBy, result, registered, up, discovered, remote, sweepAt, row, asked>>
    BY <1>7 DEF TimePasses, Tick, sweepLocals, allVars, vars, sweepVars, worldVars, githubVars
  <2>2. TypeOKWorld'
    BY <2>1 DEF WorldInv, TypeOKWorld
  <2> QED
    BY <2>1, <2>2, WorldStays
<1> QED
  BY <1>1, <1>2, <1>3, <1>4, <1>5, <1>6, <1>7 DEF JitneyNext

LEMMA WorldInvInit == JitneyInit => WorldInv
BY RunnerFacts DEF JitneyInit, InitWorld, Init, WorldInv, TypeOKWorld, AwaitPoints

\* The Scheduler among its services behaves as module Scheduler says: the calls, webhooks,
\* cron and crashes of Jitney give it no step that module does not allow, so every theorem
\* about Spec is one about JitneySpec.
THEOREM JitneyRunsScheduler == JitneySpec => Spec
<1>1. JitneyInit => Init /\ Typed
  BY TypedInit DEF JitneyInit
<1>2. Typed /\ [Next]_vars => Typed'
  BY TypedStep
<1> QED
  BY <1>1, <1>2, WorldInvInit, WorldInvStep, JitneySchedules, PTL DEF JitneySpec, Spec

\* The services keep their types too: no call ever answers what the sweep cannot handle.
THEOREM WorldTyped == JitneySpec => []TypeOKWorld
<1>1. JitneyInit => Typed
  BY TypedInit DEF JitneyInit
<1>2. WorldInv => TypeOKWorld
  BY DEF WorldInv
<1> QED
  BY <1>1, <1>2, WorldInvInit, WorldInvStep, TypedStep, JitneySchedules, PTL DEF JitneySpec

-----------------------------------------------------------------------------
(* What the Scheduler writes down about GitHub. *)

\* Handlers that neither assign nor conclude a job.
LEMMA NothingClaimed ==
  ASSUME Truthful, UNCHANGED <<conclusion, assignments, gh, claimedBy, result>>,
         \A j \in Jobs : jobs'[j] \in TerminalStates => jobs[j] \in TerminalStates
  PROVE  Truthful'
BY DEF Truthful, AssignmentsAreTrue, ConclusionsAreTrue

LEMMA AssignTruthful ==
  ASSUME NEW j \in Jobs, NEW r \in Runners \cup {None}, NEW now, Typed, Truthful,
         RecordAssignment(j, r, now), r # None => claimedBy[j] = r,
         UNCHANGED <<conclusion, gh, claimedBy, result>>
  PROVE  Truthful'
<1>1. CASE UNCHANGED <<jobs, assignments>>
  BY <1>1, NothingClaimed
<1>2. CASE ~Unassignable(j, r)
  <2>1. /\ r # None
        /\ assignments' = [assignments EXCEPT ![j] = r]
        /\ jobs' = [jobs EXCEPT ![TriggeringJob(r)] = "queued", ![j] = "running"]
    BY <1>2 DEF RecordAssignment, Unassignable
  <2>2. AssignmentsAreTrue'
    BY <2>1 DEF Truthful, AssignmentsAreTrue, Typed, TypeOK
  <2>3. \A k \in Jobs : jobs'[k] \in TerminalStates => jobs[k] \in TerminalStates
    BY <2>1 DEF TerminalStates, Typed, TypeOK
  <2> QED
    BY <2>2, <2>3 DEF Truthful, ConclusionsAreTrue
<1> QED
  BY <1>1, <1>2 DEF RecordAssignment

LEMMA ConcludeTruthful ==
  ASSUME NEW j \in Jobs, NEW c, Typed, Truthful, Conclude(j, c),
         gh[j] \in {"completed", "gone"}, c = result[j] \/ (c = "unknown" /\ gh[j] = "gone"),
         UNCHANGED <<assignments, gh, claimedBy, result>>
  PROVE  Truthful'
<1>1. CASE jobs[j] = "absent"
  BY <1>1, NothingClaimed DEF Conclude, jobVars
<1>2. CASE jobs[j] # "absent"
  <2>1. /\ jobs' = [jobs EXCEPT ![j] = FinalState(c)]
        /\ conclusion' = [conclusion EXCEPT ![j] = c]
    BY <1>2 DEF Conclude
  <2>2. ConclusionsAreTrue'
    BY <2>1 DEF Truthful, ConclusionsAreTrue, Typed, TypeOK
  <2> QED
    BY <2>2 DEF Truthful, AssignmentsAreTrue
<1> QED
  BY <1>1, <1>2

LEMMA QueuedTruthful ==
  ASSUME NEW j \in Jobs, Typed, Truthful, AcceptQueued(j),
         UNCHANGED <<conclusion, assignments, gh, claimedBy, result>>
  PROVE  Truthful'
<1>1. \A k \in Jobs : jobs'[k] \in {"queued", "capacity_limited"} \/ jobs'[k] = jobs[k]
  BY DEF AcceptQueued, CreateAttempt, Typed, TypeOK
<1>2. \A k \in Jobs : jobs'[k] \in TerminalStates => jobs[k] \in TerminalStates
  BY <1>1 DEF TerminalStates
<1> QED
  BY <1>2, NothingClaimed

LEMMA ReturnTruthful ==
  ASSUME Typed, WorldInv, Truthful, Return PROVE Truthful'
<1>1. UNCHANGED <<gh, claimedBy, result>>
  BY DEF Return, worldVars, githubVars
<1>2. CASE Provisioned(remote)
  <2>1. \A k \in Jobs : jobs'[k] \in {"queued", "waiting_for_assignment"} \/ jobs'[k] = jobs[k]
    BY <1>2 DEF Provisioned, FinishProvisioning, FailProvisioning, MoveJob, Typed, TypeOK
  <2>2. \A k \in Jobs : jobs'[k] \in TerminalStates => jobs[k] \in TerminalStates
    BY <2>1 DEF TerminalStates
  <2> QED
    BY <1>1, <1>2, <2>2, NothingClaimed DEF Provisioned
<1>3. CASE Reclaimed
  BY <1>1, <1>3, NothingClaimed DEF Reclaimed, tables
<1>4. CASE TriggeringJobRead(remote = "claimed")
  <2>1. /\ row \in Runners /\ TriggeringJob(row) \in Jobs /\ sweepAt = "readingJob"
        /\ UNCHANGED conclusion
    BY <1>4, RunnerFacts DEF TriggeringJobRead, Typed, HoldsRow, AwaitPoints
  <2>2. CASE remote = "claimed" /\ RecordAssignment(TriggeringJob(row), row, sweepNow)
    <3>1. claimedBy[TriggeringJob(row)] = row
      BY <2>1, <2>2 DEF WorldInv
    <3> QED
      BY <1>1, <2>1, <2>2, <3>1, AssignTruthful
  <2>3. CASE UNCHANGED <<jobs, assignments>>
    BY <1>1, <2>1, <2>3, NothingClaimed
  <2>4. CASE RequeueUnassigned(TriggeringJob(row)) /\ UNCHANGED assignments
    <3>1. \A k \in Jobs : jobs'[k] = "queued" \/ jobs'[k] = jobs[k]
      BY <2>1, <2>4, RequeueEffect
    <3>2. \A k \in Jobs : jobs'[k] \in TerminalStates => jobs[k] \in TerminalStates
      BY <3>1 DEF TerminalStates
    <3> QED
      BY <1>1, <2>1, <2>4, <3>2, NothingClaimed
  <2> QED
    BY <1>4, <2>2, <2>3, <2>4 DEF TriggeringJobRead
<1>5. CASE Probed(remote = "running")
  BY <1>1, <1>5, NothingClaimed DEF Probed, jobVars
<1>6. CASE ConclusionRead(remote)
  <2>1. /\ asked \in Jobs /\ sweepAt = "readingConclusion" /\ remote # "none"
        /\ UNCHANGED assignments
    BY <1>6 DEF Return, ConclusionRead, Typed, HoldsRow
  <2>2. CASE UNCHANGED jobVars
    BY <1>1, <2>1, <2>2, NothingClaimed DEF jobVars
  <2>3. CASE RequeueUnassigned(asked) /\ UNCHANGED conclusion
    <3>1. \A k \in Jobs : jobs'[k] = "queued" \/ jobs'[k] = jobs[k]
      BY <2>1, <2>3, RequeueEffect
    <3>2. \A k \in Jobs : jobs'[k] \in TerminalStates => jobs[k] \in TerminalStates
      BY <3>1 DEF TerminalStates
    <3> QED
      BY <1>1, <2>1, <2>3, <3>2, NothingClaimed
  <2>4. CASE remote \notin {"queued", "in_progress"} /\ Conclude(asked, remote)
    <3>1. /\ gh[asked] \in {"completed", "gone"}
          /\ remote = result[asked] \/ (remote = "unknown" /\ gh[asked] = "gone")
      BY <2>1, <2>4 DEF WorldInv
    <3> QED
      BY <1>1, <2>1, <2>4, <3>1, ConcludeTruthful
  <2> QED
    BY <1>6, <2>2, <2>3, <2>4 DEF ConclusionRead, jobVars
<1> QED
  BY <1>2, <1>3, <1>4, <1>5, <1>6 DEF Return

LEMMA TruthfulStep == Typed /\ WorldInv /\ Truthful /\ [JitneyNext]_allVars => Truthful'
<1> SUFFICES ASSUME Typed, WorldInv, Truthful, [JitneyNext]_allVars PROVE Truthful'
  OBVIOUS
<1>1. ASSUME NEW j \in Jobs, NEW r \in Runners, Claim(r, j) PROVE Truthful'
  <2>1. /\ UNCHANGED <<jobs, conclusion, assignments, result>>
        /\ claimedBy[j] = None /\ gh[j] = "queued"
        /\ \A k \in Jobs \ {j} : gh'[k] = gh[k] /\ claimedBy'[k] = claimedBy[k]
    BY <1>1 DEF Claim, WorldStep, vars, tables, WorldInv, TypeOKWorld
  <2> QED
    BY <2>1 DEF Truthful, AssignmentsAreTrue, ConclusionsAreTrue
<1>2. ASSUME NEW j \in Jobs, Finish(j) \/ LoseJob(j) \/ CancelQueued(j) PROVE Truthful'
  <2>1. /\ UNCHANGED <<jobs, conclusion, assignments, claimedBy>>
        /\ gh[j] \in {"queued", "in_progress"} /\ gh'[j] = "completed" /\ result[j] = None
        /\ \A k \in Jobs \ {j} : gh'[k] = gh[k] /\ result'[k] = result[k]
    BY <1>2 DEF Finish, LoseJob, CancelQueued, End, WorldStep, vars, tables, WorldInv, TypeOKWorld
  <2> QED
    BY <2>1 DEF Truthful, AssignmentsAreTrue, ConclusionsAreTrue
<1>3. ASSUME NEW j \in Jobs, DeleteRun(j) PROVE Truthful'
  <2>1. /\ UNCHANGED <<jobs, conclusion, assignments, claimedBy, result>>
        /\ gh'[j] = "gone" /\ \A k \in Jobs \ {j} : gh'[k] = gh[k]
    BY <1>3 DEF DeleteRun, WorldStep, vars, tables, WorldInv, TypeOKWorld
  <2>2. gh[j] = "completed"
    BY <1>3 DEF DeleteRun
  <2> QED
    BY <2>1, <2>2 DEF Truthful, AssignmentsAreTrue, ConclusionsAreTrue
<1>4. ASSUME NEW j \in Jobs, DeliverQueued(j) \/ ReconcileDiscovered(j) PROVE Truthful'
  BY <1>4, QueuedTruthful
  DEF DeliverQueued, ReconcileDiscovered, AcceptQueuedDelivery, Reconcile, worldVars, githubVars
<1>5. ASSUME NEW j \in Jobs, DeliverInProgress(j) PROVE Truthful'
  <2>1. /\ claimedBy[j] \in Runners \cup {None}
        /\ UNCHANGED <<conclusion, gh, claimedBy, result>>
    BY <1>5 DEF DeliverInProgress, AcceptInProgress, worldVars, githubVars, WorldInv, TypeOKWorld
  <2>2. CASE RecordAssignment(j, claimedBy[j], 0)
    BY <2>1, <2>2, AssignTruthful
  <2>3. CASE UNCHANGED <<jobs, assignments>>
    BY <2>1, <2>3, NothingClaimed
  <2> QED
    BY <1>5, <2>2, <2>3 DEF DeliverInProgress, AcceptInProgress
<1>6. ASSUME NEW j \in Jobs, DeliverCompleted(j) PROVE Truthful'
  <2>1. UNCHANGED <<assignments, gh, claimedBy, result>>
    BY <1>6 DEF DeliverCompleted, AcceptCompleted, worldVars, githubVars
  <2>2. CASE Conclude(j, result[j])
    <3>1. gh[j] \in {"completed", "gone"}
      BY <1>6 DEF DeliverCompleted, WorldInv
    <3> QED
      BY <2>1, <2>2, <3>1, ConcludeTruthful
  <2>3. CASE UNCHANGED jobVars
    BY <2>1, <2>3, NothingClaimed DEF jobVars
  <2> QED
    BY <1>6, <2>2, <2>3 DEF DeliverCompleted, AcceptCompleted, RecordCompletion, jobVars
<1>7. ASSUME NEW j \in Jobs, Discover(j) PROVE Truthful'
  BY <1>7, NothingClaimed DEF Discover, WorldStep, vars, tables, githubVars
<1>8. ASSUME NEW r \in Runners, Exit(r) PROVE Truthful'
  BY <1>8, NothingClaimed DEF Exit, WorldStep, vars, tables, githubVars
<1>9. CASE Proceed
  <2>1. UNCHANGED <<gh, claimedBy, result>>
    BY <1>9 DEF Proceed, worldVars, githubVars
  <2>2. CASE StartProvisioning
    <3>1. \A k \in Jobs : jobs'[k] = "provisioning" \/ jobs'[k] = jobs[k]
      BY <2>2 DEF StartProvisioning, Typed, TypeOK
    <3>2. \A k \in Jobs : jobs'[k] \in TerminalStates => jobs[k] \in TerminalStates
      BY <3>1 DEF TerminalStates
    <3> QED
      BY <2>1, <2>2, <3>2, NothingClaimed DEF StartProvisioning
  <2>3. CASE \E r \in Runners : ExpireRunning(r)
    BY <2>1, <2>3, NothingClaimed DEF ExpireRunning, jobVars
  <2>4. CASE \/ AlarmFires \/ NothingPending \/ SelectUnassigned \/ ReadTriggeringJob \/ SelectOverdue
             \/ SelectLive \/ Probe \/ SelectChecks \/ ReadConclusion \/ Rearm
    BY <2>1, <2>4, NothingClaimed
    DEF AlarmFires, NothingPending, SelectUnassigned, ReadTriggeringJob, SelectOverdue, SelectLive,
        Probe, SelectChecks, ReadConclusion, Rearm, tables
  <2> QED
    BY <1>9, <2>2, <2>3, <2>4 DEF Proceed
<1>10. CASE RemoteStep
  <2>1. CASE ~Return
    BY <1>10, <2>1, NothingClaimed
    DEF RemoteStep, MintJitConfig, RefuseProvision, StartContainer, DestroyContainer, DeleteRunner,
        ProbeContainer, ReadRunnerOfJob, ReadStatusOfJob, Calling, vars, tables, worldVars, githubVars
  <2> QED
    BY <2>1, ReturnTruthful
<1>11. CASE Crash \/ TimePasses \/ UNCHANGED allVars
  BY <1>11, NothingClaimed
  DEF Crash, Restart, TimePasses, Tick, jobVars, tables, allVars, vars, worldVars, githubVars
<1> QED
  BY <1>1, <1>2, <1>3, <1>4, <1>5, <1>6, <1>7, <1>8, <1>9, <1>10, <1>11 DEF JitneyNext

LEMMA TruthfulInit == JitneyInit => Truthful
BY DEF JitneyInit, Init, Truthful, AssignmentsAreTrue, ConclusionsAreTrue, TerminalStates

\* An assignment the Scheduler recorded is one GitHub made: not from a delivery that came
\* late or twice, nor from an answer that was stale when the sweep used it.
THEOREM AssignmentsTrue == JitneySpec => []AssignmentsAreTrue
<1>1. JitneyInit => Typed
  BY TypedInit DEF JitneyInit
<1>2. Truthful => AssignmentsAreTrue
  BY DEF Truthful
<1> QED
  BY <1>1, <1>2, WorldInvInit, WorldInvStep, TypedStep, JitneySchedules, TruthfulInit, TruthfulStep,
     PTL DEF JitneySpec

\* A conclusion the Scheduler recorded is the one GitHub gave, through crashes, failed
\* reads and deleted runs alike.
THEOREM ConclusionsTrue == JitneySpec => []ConclusionsAreTrue
<1>1. JitneyInit => Typed
  BY TypedInit DEF JitneyInit
<1>2. Truthful => ConclusionsAreTrue
  BY DEF Truthful
<1> QED
  BY <1>1, <1>2, WorldInvInit, WorldInvStep, TypedStep, JitneySchedules, TruthfulInit, TruthfulStep,
     PTL DEF JitneySpec

-----------------------------------------------------------------------------
(* Jobs shown as running.  The answer "queued" ends a conclusion check with   *)
(* nothing else to settle the job.  It was true when it was given, so the job *)
(* was not shown as running then; what made it so meanwhile also left its     *)
(* attempt running.                                                           *)

QueuedAnswerHarmless ==
  sweepAt = "readingConclusion" /\ remote = "queued" /\ jobs[asked] = "running" =>
    attempts[assignments[asked]] = "running"

Watched == RunningJobWatched /\ QueuedAnswerHarmless

\* What every handler but the sweep's own leaves of a running job: its runner, or the check.
NoRunnerLost ==
  \A j \in Jobs : jobs'[j] = "running" =>
    \/ attempts'[assignments'[j]] = "running"
    \/ /\ jobs[j] = "running" /\ attempts[assignments[j]] # "running"
       /\ checks[j] # None => checks'[j] # None

LEMMA HandlerWatched ==
  ASSUME Typed, Watched, NoRunnerLost, UNCHANGED <<sweepAt, asked, remote>>
  PROVE  Watched'
<1>1. RunningJobWatched'
  BY DEF Watched, RunningJobWatched, NoRunnerLost
<1>2. QueuedAnswerHarmless'
  BY DEF Watched, QueuedAnswerHarmless, NoRunnerLost, Typed, HoldsRow
<1> QED
  BY <1>1, <1>2 DEF Watched

LEMMA SweepWatched ==
  ASSUME Typed, Watched, NoRunnerLost, remote' = "none"
  PROVE  Watched'
BY DEF Watched, RunningJobWatched, NoRunnerLost, QueuedAnswerHarmless

\* Handlers that leave the attempts of running jobs and the checks alone.
LEMMA RunningKept ==
  ASSUME \A j \in Jobs : jobs'[j] = "running" => jobs[j] = "running",
         \A r \in Runners : attempts[r] = "running" => attempts'[r] = "running",
         \A j \in Jobs : checks[j] # None => checks'[j] # None,
         UNCHANGED assignments, Typed, Consistent
  PROVE  NoRunnerLost
<1> SUFFICES ASSUME NEW j \in Jobs, jobs'[j] = "running"
             PROVE  \/ attempts'[assignments[j]] = "running"
                    \/ attempts[assignments[j]] # "running"
  BY DEF NoRunnerLost
<1>1. assignments[j] \in Runners
  BY DEF Consistent, NoForgottenJob, Typed, TypeOK
<1> QED
  BY <1>1

LEMMA AssignKeepsRunners ==
  ASSUME NEW j \in Jobs, NEW r \in Runners \cup {None}, NEW now, Typed, Consistent,
         RecordAssignment(j, r, now), UNCHANGED checks
  PROVE  NoRunnerLost
<1>1. CASE UNCHANGED <<jobs, attemptVars, assignments>>
  BY <1>1, RunningKept DEF attemptVars
<1>2. CASE ~Unassignable(j, r)
  <2>1. /\ r \in Runners
        /\ assignments'[j] = r /\ \A k \in Jobs \ {j} : assignments'[k] = assignments[k]
        /\ \A k \in Jobs \ {j} : jobs'[k] = "running" => jobs[k] = "running"
    BY <1>2 DEF RecordAssignment, Unassignable, Typed, TypeOK
  <2>2. /\ attempts'[r] = "running"
        /\ \A q \in Runners : attempts[q] = "running" => attempts'[q] = "running"
    BY <1>2, <2>1 DEF RecordAssignment
  <2>3. \A k \in Jobs : jobs[k] = "running" => assignments[k] \in Runners
    BY DEF Consistent, NoForgottenJob, Typed, TypeOK
  <2> QED
    BY <2>1, <2>2, <2>3 DEF NoRunnerLost
<1> QED
  BY <1>1, <1>2 DEF RecordAssignment

LEMMA ConcludeEffect ==
  ASSUME NEW j \in Jobs, NEW c, Typed, Conclude(j, c)
  PROVE  /\ jobs'[j] # "running"
         /\ \A k \in Jobs \ {j} : jobs'[k] = jobs[k] /\ checks'[k] = checks[k]
BY DEF Conclude, FinalState, jobVars, Typed, TypeOK

LEMMA CompletionKeepsRunners ==
  ASSUME NEW j \in Jobs, NEW c, Typed, Consistent, RecordCompletion(j, c), UNCHANGED assignments
  PROVE  NoRunnerLost
<1> SUFFICES ASSUME NEW k \in Jobs, jobs'[k] = "running"
             PROVE  /\ jobs[k] = "running"
                    /\ checks'[k] = checks[k]
                    /\ attempts'[assignments[k]] = attempts[assignments[k]]
  BY DEF NoRunnerLost
<1>1. k # j /\ jobs[k] = "running" /\ checks'[k] = checks[k]
  BY ConcludeEffect DEF RecordCompletion
<1>2. assignments[k] \in Runners
  BY <1>1 DEF Consistent, NoForgottenJob, Typed, TypeOK
<1>3. assignments[k] # assignments[j]
  BY <1>1, <1>2, RunnerFacts DEF Consistent, AssignmentsMatchAttempts
<1> QED
  BY <1>1, <1>2, <1>3 DEF RecordCompletion, RetireAttempts

LEMMA QueuedKeepsRunners ==
  ASSUME NEW j \in Jobs, Typed, Consistent, AcceptQueued(j), UNCHANGED <<assignments, checks>>
  PROVE  NoRunnerLost
<1>1. \A k \in Jobs : jobs'[k] = "running" => jobs[k] = "running"
  BY DEF AcceptQueued, CreateAttempt, Typed, TypeOK
<1>2. \A r \in Runners : attempts[r] = "running" => attempts'[r] = "running"
  <2>1. CASE UNCHANGED attempts
    BY <2>1
  <2>2. CASE CreateAttempt(j)
    <3> PICK n \in 1..MaxAttempts :
          IsNextAttempt(j, n) /\ attempts' = [attempts EXCEPT ![<<j, n>>] = "created"]
      BY <2>2 DEF CreateAttempt
    <3>1. attempts[<<j, n>>] = "absent"
      BY AttemptsAssumption DEF IsNextAttempt
    <3> QED
      BY <3>1 DEF Typed, TypeOK
  <2> QED
    BY <2>1, <2>2 DEF AcceptQueued, attemptVars
<1> QED
  BY <1>1, <1>2, RunningKept

\* The sweep gives up the attempt of a running job only for a check.
LEMMA CheckReplacesRunner ==
  ASSUME NEW r \in Runners, NEW j \in Jobs, NEW state, Typed, Consistent, Watched,
         AssignedJob(r, j), ScheduleConclusionCheck(j), RetireAttempts({r}, state),
         UNCHANGED <<jobs, assignments>>
  PROVE  RunningJobWatched'
<1> SUFFICES ASSUME NEW k \in Jobs, jobs[k] = "running"
             PROVE  attempts'[assignments[k]] = "running" \/ checks'[k] # None
  BY DEF RunningJobWatched
<1>1. assignments[k] \in Runners
  BY DEF Consistent, NoForgottenJob, Typed, TypeOK
<1>2. checks' = [checks EXCEPT ![j] = sweepNow] /\ sweepNow # None
  BY HorizonFacts DEF ScheduleConclusionCheck, Typed, TypeOK
<1>3. CASE assignments[k] = r
  <2>1. k = j
    BY <1>1, <1>3, RunnerFacts DEF AssignedJob, Consistent, AssignmentsMatchAttempts
  <2> QED
    BY <1>2, <2>1 DEF Typed, TypeOK
<1>4. CASE assignments[k] # r
  <2>1. attempts'[assignments[k]] = attempts[assignments[k]]
    BY <1>1, <1>4 DEF RetireAttempts
  <2>2. checks[k] # None => checks'[k] # None
    BY <1>2 DEF Typed, TypeOK
  <2> QED
    BY <2>1, <2>2 DEF Watched, RunningJobWatched
<1> QED
  BY <1>3, <1>4

LEMMA ReturnWatched ==
  ASSUME Typed, Consistent, WorldInv, Watched, Return PROVE Watched'
<1> SUFFICES RunningJobWatched'
  BY DEF Watched, QueuedAnswerHarmless, Return
<1>1. ASSUME NoRunnerLost PROVE RunningJobWatched'
  BY <1>1, SweepWatched DEF Watched, Return
<1>2. CASE Provisioned(remote)
  <2>1. \A k \in Jobs : jobs'[k] = "running" => jobs[k] = "running"
    BY <1>2 DEF Provisioned, FinishProvisioning, FailProvisioning, MoveJob, Typed, TypeOK
  <2>2. \A r \in Runners : attempts[r] = "running" => attempts'[r] = "running"
    BY <1>2 DEF Provisioned, FinishProvisioning, FailProvisioning, RetireAttempts, Typed, TypeOK
  <2> QED
    BY <1>1, <1>2, <2>1, <2>2, RunningKept DEF Provisioned
<1>3. CASE Reclaimed
  BY <1>1, <1>3, RunningKept DEF Reclaimed, tables
<1>4. CASE TriggeringJobRead(remote = "claimed")
  <2>1. /\ row \in Runners /\ TriggeringJob(row) \in Jobs
        /\ UNCHANGED checks
    BY <1>4, RunnerFacts DEF TriggeringJobRead, Typed, HoldsRow, AwaitPoints
  <2>2. CASE RecordAssignment(TriggeringJob(row), row, sweepNow)
    BY <1>1, <2>1, <2>2, AssignKeepsRunners
  <2>3. CASE UNCHANGED <<jobs, attemptVars, assignments, pending>>
    BY <1>1, <2>1, <2>3, RunningKept DEF attemptVars
  <2>4. CASE /\ UnassignedExpired(row) /\ RetireAttempts({row}, "expired")
             /\ RequeueUnassigned(TriggeringJob(row)) /\ UNCHANGED assignments
    <3>1. \A k \in Jobs : jobs'[k] = "running" => jobs[k] = "running"
      BY <2>1, <2>4, RequeueEffect
    <3>2. \A r \in Runners : attempts[r] = "running" => attempts'[r] = "running"
      BY <2>4 DEF UnassignedExpired, RetireAttempts, ViableStates
    <3> QED
      BY <1>1, <2>1, <2>4, <3>1, <3>2, RunningKept
  <2> QED
    BY <1>4, <2>2, <2>3, <2>4 DEF TriggeringJobRead
<1>5. CASE Probed(remote = "running")
  <2>1. CASE UNCHANGED <<attemptVars, checks>>
    BY <1>1, <1>5, <2>1, RunningKept DEF Probed, jobVars, attemptVars
  <2>2. CASE /\ RetireAttempts({row}, "stopped")
             /\ \E j \in Jobs : AssignedJob(row, j) /\ ScheduleConclusionCheck(j)
    <3>1. row \in Runners /\ UNCHANGED <<jobs, assignments>>
      BY <1>5 DEF Probed, jobVars, Typed, HoldsRow, AwaitPoints
    <3> QED
      BY <2>2, <3>1, CheckReplacesRunner
  <2> QED
    BY <1>5, <2>1, <2>2 DEF Probed
<1>6. CASE ConclusionRead(remote)
  <2>1. /\ asked \in Jobs /\ sweepAt = "readingConclusion"
        /\ UNCHANGED <<attempts, assignments>>
    BY <1>6 DEF ConclusionRead, attemptVars, Typed, HoldsRow
  <2>2. CASE UNCHANGED <<jobVars, pending, checks>>
    BY <1>1, <2>1, <2>2, RunningKept DEF jobVars
  <2>3. CASE /\ remote = "queued" /\ RequeueUnassigned(asked)
             /\ checks' = [checks EXCEPT ![asked] = None]
    <3>1. \A k \in Jobs : jobs'[k] = "running" => jobs[k] = "running"
      BY <2>1, <2>3, RequeueEffect
    <3>2. jobs[asked] = "running" => attempts[assignments[asked]] = "running"
      BY <2>1, <2>3 DEF Watched, QueuedAnswerHarmless
    <3>3. \A k \in Jobs \ {asked} : checks'[k] = checks[k]
      BY <2>1, <2>3 DEF Typed, TypeOK
    <3> QED
      BY <2>1, <3>1, <3>2, <3>3 DEF Watched, RunningJobWatched
  <2>4. CASE /\ checks' = [checks EXCEPT ![asked] = sweepNow + CheckInterval]
             /\ UNCHANGED jobVars
    <3>1. sweepNow + CheckInterval # None
      BY HorizonFacts DEF Typed, TypeOK
    <3>2. \A k \in Jobs : checks[k] # None => checks'[k] # None
      BY <2>1, <2>4, <3>1 DEF Typed, TypeOK
    <3> QED
      BY <1>1, <2>1, <2>4, <3>2, RunningKept DEF jobVars
  <2>5. CASE Conclude(asked, remote)
    BY <2>1, <2>5, ConcludeEffect DEF Watched, RunningJobWatched
  <2> QED
    BY <1>6, <2>2, <2>3, <2>4, <2>5 DEF ConclusionRead
<1> QED
  BY <1>2, <1>3, <1>4, <1>5, <1>6 DEF Return

LEMMA ReadWatched ==
  ASSUME Typed, Consistent, WorldInv, Truthful, Watched, ReadStatusOfJob PROVE Watched'
<1>1. /\ asked \in Jobs /\ sweepAt = "readingConclusion"
      /\ UNCHANGED <<jobs, attempts, assignments, checks, sweepAt, asked, gh, claimedBy>>
  BY DEF ReadStatusOfJob, Calling, Typed, HoldsRow, vars, tables, sweepVars, worldVars, githubVars
<1>2. RunningJobWatched'
  BY <1>1 DEF Watched, RunningJobWatched
<1>3. ASSUME remote' = "queued" PROVE jobs[asked] # "running"
  <2>1. \A c \in Conclusions : c # "queued"
    BY ConclusionFacts
  <2>2. gh[asked] = "completed" => result[asked] \in Conclusions
    BY <1>1 DEF WorldInv, TypeOKWorld
  <2>3. gh[asked] = "queued"
    BY <1>1, <1>3, <2>1, <2>2 DEF ReadStatusOfJob
  <2>4. assignments[asked] = None
    BY <1>1, <2>3 DEF WorldInv, Truthful, AssignmentsAreTrue
  <2> QED
    BY <1>1, <2>4 DEF Consistent, NoForgottenJob
<1> QED
  BY <1>1, <1>2, <1>3 DEF Watched, QueuedAnswerHarmless

LEMMA ProceedWatched ==
  ASSUME Typed, Consistent, WorldInv, Watched, Proceed PROVE Watched'
<1>1. remote' = "none"
  <2>1. sweepAt \notin AwaitPoints
    BY DEF Proceed, AlarmFires, StartProvisioning, NothingPending, SelectUnassigned,
           ReadTriggeringJob, SelectOverdue, ExpireRunning, SelectLive, Probe, SelectChecks,
           ReadConclusion, Rearm, AwaitPoints
  <2> QED
    BY <2>1 DEF Proceed, WorldInv
<1>2. CASE StartProvisioning
  <2> PICK j \in PendingJobs : /\ jobs' = [jobs EXCEPT ![j] = "provisioning"]
                               /\ attempts' = [attempts EXCEPT ![<<j, pending[j]>>] = "starting"]
    BY <1>2 DEF StartProvisioning
  <2>1. attempts[<<j, pending[j]>>] # "running"
    BY DEF Consistent, PendingNotStarted
  <2>2. \A r \in Runners : attempts[r] = "running" => attempts'[r] = "running"
    BY <2>1 DEF Typed, TypeOK
  <2>3. \A k \in Jobs : jobs'[k] = "running" => jobs[k] = "running"
    BY DEF Typed, TypeOK
  <2> QED
    BY <1>1, <1>2, <2>2, <2>3, RunningKept, SweepWatched DEF StartProvisioning
<1>3. ASSUME NEW r \in Runners, ExpireRunning(r) PROVE Watched'
  <2>1. CASE Overdue(r)
    <3>1. RunningJobWatched'
      BY <1>3, <2>1, CheckReplacesRunner DEF ExpireRunning, jobVars
    <3> QED
      BY <1>1, <3>1 DEF Watched, QueuedAnswerHarmless
  <2>2. CASE ~Overdue(r)
    BY <1>1, <1>3, <2>2, RunningKept, SweepWatched DEF ExpireRunning, jobVars, attemptVars
  <2> QED
    BY <2>1, <2>2
<1>4. CASE \/ AlarmFires \/ NothingPending \/ SelectUnassigned \/ ReadTriggeringJob \/ SelectOverdue
           \/ SelectLive \/ Probe \/ SelectChecks \/ ReadConclusion \/ Rearm
  <2>1. UNCHANGED tables
    BY <1>4 DEF AlarmFires, NothingPending, SelectUnassigned, ReadTriggeringJob, SelectOverdue,
                SelectLive, Probe, SelectChecks, ReadConclusion, Rearm
  <2> QED
    BY <1>1, <2>1, RunningKept, SweepWatched DEF tables
<1> QED
  BY <1>2, <1>3, <1>4 DEF Proceed

LEMMA WatchedStep ==
  IInv /\ WorldInv /\ Truthful /\ Watched /\ [JitneyNext]_allVars => Watched'
<1> SUFFICES ASSUME Typed, Consistent, WorldInv, Truthful, Watched, [JitneyNext]_allVars
             PROVE  Watched'
  BY DEF IInv
<1>1. ASSUME UNCHANGED vars, UNCHANGED remote PROVE Watched'
  BY <1>1, RunningKept, HandlerWatched DEF vars, tables, sweepVars
<1>2. ASSUME NEW j \in Jobs, DeliverQueued(j) \/ ReconcileDiscovered(j) PROVE Watched'
  BY <1>2, QueuedKeepsRunners, HandlerWatched
  DEF DeliverQueued, ReconcileDiscovered, AcceptQueuedDelivery, Reconcile, sweepVars
<1>3. ASSUME NEW j \in Jobs, DeliverInProgress(j) PROVE Watched'
  <2>1. /\ claimedBy[j] \in Runners \cup {None}
        /\ UNCHANGED <<checks, sweepAt, asked, remote>>
    BY <1>3 DEF DeliverInProgress, AcceptInProgress, sweepVars, WorldInv, TypeOKWorld
  <2>2. CASE RecordAssignment(j, claimedBy[j], 0)
    BY <2>1, <2>2, AssignKeepsRunners, HandlerWatched
  <2>3. CASE UNCHANGED <<jobs, attemptVars, assignments, pending>>
    BY <2>1, <2>3, RunningKept, HandlerWatched DEF attemptVars
  <2> QED
    BY <1>3, <2>2, <2>3 DEF DeliverInProgress, AcceptInProgress
<1>4. ASSUME NEW j \in Jobs, DeliverCompleted(j) PROVE Watched'
  <2>1. UNCHANGED <<assignments, sweepAt, asked, remote>>
    BY <1>4 DEF DeliverCompleted, AcceptCompleted, sweepVars
  <2>2. CASE RecordCompletion(j, result[j])
    BY <2>1, <2>2, CompletionKeepsRunners, HandlerWatched
  <2>3. CASE UNCHANGED <<jobVars, attemptVars, pending, checks>>
    BY <2>1, <2>3, RunningKept, HandlerWatched DEF jobVars, attemptVars
  <2> QED
    BY <1>4, <2>2, <2>3 DEF DeliverCompleted, AcceptCompleted
<1>5. ASSUME NEW j \in Jobs, \/ \E r \in Runners : Claim(r, j)
                             \/ Finish(j) \/ LoseJob(j) \/ CancelQueued(j) \/ DeleteRun(j)
                             \/ Discover(j)
      PROVE  Watched'
  BY <1>1, <1>5 DEF Claim, Finish, LoseJob, CancelQueued, DeleteRun, Discover, WorldStep
<1>6. ASSUME NEW r \in Runners, Exit(r) PROVE Watched'
  BY <1>1, <1>6 DEF Exit, WorldStep
<1>7. CASE RemoteStep
  <2>1. CASE \/ MintJitConfig \/ RefuseProvision \/ StartContainer \/ DestroyContainer
             \/ DeleteRunner \/ ProbeContainer \/ ReadRunnerOfJob
    <3>1. UNCHANGED vars /\ sweepAt # "readingConclusion"
      BY <2>1 DEF MintJitConfig, RefuseProvision, StartContainer, DestroyContainer, DeleteRunner,
                  ProbeContainer, ReadRunnerOfJob, Calling
    <3>2. UNCHANGED <<jobs, attempts, assignments, checks, sweepAt>>
      BY <3>1 DEF vars, tables, sweepVars
    <3> QED
      BY <3>1, <3>2 DEF Watched, RunningJobWatched, QueuedAnswerHarmless
  <2> QED
    BY <1>7, <2>1, ReadWatched, ReturnWatched DEF RemoteStep
<1>8. CASE Crash
  BY <1>8, RunningKept, SweepWatched DEF Crash, Restart, tables
<1>9. CASE TimePasses
  <2>1. \A j \in Jobs : checks[j] # None => checks'[j] # None
    BY <1>9, HorizonFacts DEF TimePasses, Tick, Typed, TypeOK
  <2>2. UNCHANGED <<jobs, attempts, assignments, sweepAt, asked, remote>>
    BY <1>9 DEF TimePasses, Tick, jobVars, sweepLocals
  <2> QED
    BY <2>1, <2>2, RunningKept, HandlerWatched
<1>10. CASE UNCHANGED allVars
  BY <1>1, <1>10 DEF allVars
<1> QED
  BY <1>2, <1>3, <1>4, <1>5, <1>6, <1>7, <1>8, <1>9, <1>10, ProceedWatched DEF JitneyNext

LEMMA WatchedInit == JitneyInit => Watched
BY DEF JitneyInit, Init, Watched, RunningJobWatched, QueuedAnswerHarmless

\* A job is never shown as running with nothing left to notice its end: through crashes,
\* failed reads and reclaims, stale answers and webhooks in any order, it keeps a running
\* attempt or a conclusion check.
THEOREM RunningAlwaysWatched == JitneySpec => []RunningJobWatched
<1>1. JitneyInit => IInv
  BY IInvInit DEF JitneyInit
<1>2. IInv => Typed
  BY DEF IInv
<1>3. Watched => RunningJobWatched
  BY DEF Watched
<1> QED
  BY <1>1, <1>2, <1>3, WorldInvInit, WorldInvStep, JitneySchedules, IInvStep, TruthfulInit,
     TruthfulStep, WatchedInit, WatchedStep, PTL DEF JitneySpec

-----------------------------------------------------------------------------
(* Containers.  What the Scheduler knows of a container rests on the step     *)
(* that starts it finding none before it, and on the reclaim that follows a   *)
(* retired attempt.  A crash between the start of a container and its record, *)
(* or a reclaim that fails, leaves one behind; nothing else does.             *)

ContainersOwned ==
  /\ NoStrayContainer
  /\ \A r \in up : attempts[r] \notin {"absent", "created"}
  /\ \A r \in Runners : attempts[r] = "starting" => sweepAt = "provisioning" /\ row = r
  /\ sweepAt = "provisioning" =>
       /\ attempts[row] \notin {"absent", "created"}
       /\ attempts[row] = "starting" \/ Used(row)
       /\ remote \in {"none", "minted", "refused"} => row \notin up
  /\ sweepAt = "reclaiming" /\ remote \in {"destroyed", "done"} => row \notin up

\* How the handlers that take no part in provisioning or reclaiming treat an attempt.
AttemptsSpared ==
  \A r \in Runners :
    \/ attempts'[r] = attempts[r]
    \/ attempts'[r] = "running" /\ Used(r)
    \/ attempts'[r] = "stopped" /\ Used(r)
    \/ attempts[r] = "absent" /\ attempts'[r] = "created"
    \/ attempts[r] = "created" /\ attempts'[r] = "stopped"

LEMMA HandlerOwned ==
  ASSUME Typed, WorldInv, ContainersOwned, AttemptsSpared,
         UNCHANGED <<claimedBy, up, sweepAt, row, remote>>
  PROVE  ContainersOwned'
<1>1. \A r \in Runners : Used(r)' = Used(r)
  BY DEF Used
<1>2. up \subseteq Runners /\ (sweepAt = "provisioning" => row \in Runners)
  BY DEF WorldInv, TypeOKWorld, Typed, HoldsRow, AwaitPoints
<1>3. NoStrayContainer'
  BY <1>1, <1>2 DEF ContainersOwned, AttemptsSpared, NoStrayContainer, ActiveStates, ViableStates
<1>4. \A r \in up : attempts'[r] \notin {"absent", "created"}
  BY <1>2 DEF ContainersOwned, AttemptsSpared
<1>5. \A r \in Runners : attempts'[r] = "starting" => attempts[r] = "starting"
  BY DEF AttemptsSpared
<1>6. sweepAt = "provisioning" => /\ attempts'[row] \notin {"absent", "created"}
                                  /\ attempts'[row] = "starting" \/ Used(row)
  BY <1>2 DEF ContainersOwned, AttemptsSpared
<1> QED
  BY <1>1, <1>2, <1>3, <1>4, <1>5, <1>6 DEF ContainersOwned

\* A step of the sweep that neither starts, retires nor leaves the row of a container.
LEMMA SweepOwned ==
  ASSUME Typed, WorldInv, ContainersOwned, AttemptsSpared, UNCHANGED <<claimedBy, up>>,
         sweepAt \notin {"provisioning", "reclaiming"},
         sweepAt' \notin {"provisioning", "reclaiming"}
  PROVE  ContainersOwned'
<1>1. \A r \in Runners : Used(r)' = Used(r)
  BY DEF Used
<1>2. up \subseteq Runners
  BY DEF WorldInv, TypeOKWorld
<1>3. NoStrayContainer'
  BY <1>1, <1>2 DEF ContainersOwned, AttemptsSpared, NoStrayContainer, ActiveStates, ViableStates
<1>4. \A r \in up : attempts'[r] \notin {"absent", "created"}
  BY <1>2 DEF ContainersOwned, AttemptsSpared
<1>5. \A r \in Runners : attempts'[r] # "starting"
  BY DEF ContainersOwned, AttemptsSpared
<1> QED
  BY <1>3, <1>4, <1>5 DEF ContainersOwned

\* An attempt is retired and its container is the next to be reclaimed.
LEMMA RetireOwned ==
  ASSUME NEW r \in Runners, NEW state \in {"expired", "stopped", "failed"},
         Typed, WorldInv, ContainersOwned, UNCHANGED <<claimedBy, up>>,
         RetireAttempts({r}, state), sweepAt # "reclaiming",
         \A q \in Runners \ {r} : attempts[q] # "starting",
         sweepAt' = "reclaiming", row' = r, remote' = "none"
  PROVE  ContainersOwned'
<1>1. \A q \in Runners : Used(q)' = Used(q)
  BY DEF Used
<1>2. /\ attempts'[r] = state
      /\ \A q \in Runners \ {r} : attempts'[q] = attempts[q]
  BY DEF RetireAttempts
<1>3. up \subseteq Runners
  BY DEF WorldInv, TypeOKWorld
<1> QED
  BY <1>1, <1>2, <1>3 DEF ContainersOwned, NoStrayContainer

LEMMA AssignSpares ==
  ASSUME NEW j \in Jobs, NEW r \in Runners \cup {None}, NEW now,
         RecordAssignment(j, r, now), r # None => claimedBy[j] = r
  PROVE  AttemptsSpared
<1>1. CASE UNCHANGED attemptVars
  BY <1>1 DEF AttemptsSpared, attemptVars
<1>2. CASE ~Unassignable(j, r)
  <2>1. r \in Runners /\ Used(r)
    BY <1>2 DEF Unassignable, Used
  <2>2. \A q \in Runners : \/ q = r /\ attempts'[q] = "running"
                           \/ attempts[q] = "created" /\ attempts'[q] = "stopped"
                           \/ attempts'[q] = attempts[q]
    BY <1>2 DEF RecordAssignment
  <2> QED
    BY <2>1, <2>2 DEF AttemptsSpared
<1> QED
  BY <1>1, <1>2 DEF RecordAssignment

LEMMA QueuedSpares ==
  ASSUME NEW j \in Jobs, Typed, AcceptQueued(j) PROVE AttemptsSpared
<1>1. CASE UNCHANGED attempts
  BY <1>1 DEF AttemptsSpared
<1>2. CASE CreateAttempt(j)
  <2> PICK n \in 1..MaxAttempts :
        IsNextAttempt(j, n) /\ attempts' = [attempts EXCEPT ![<<j, n>>] = "created"]
    BY <1>2 DEF CreateAttempt
  <2>1. attempts[<<j, n>>] = "absent"
    BY AttemptsAssumption DEF IsNextAttempt
  <2> QED
    BY <2>1 DEF AttemptsSpared, Typed, TypeOK
<1> QED
  BY <1>1, <1>2 DEF AcceptQueued, attemptVars

LEMMA CompletionSpares ==
  ASSUME NEW j \in Jobs, NEW c, Truthful, RecordCompletion(j, c) PROVE AttemptsSpared
<1> SUFFICES ASSUME NEW r \in Runners, assignments[j] = r PROVE Used(r)
  BY DEF RecordCompletion, RetireAttempts, AttemptsSpared
<1> QED
  BY RunnerFacts DEF Truthful, AssignmentsAreTrue, Used

LEMMA ReturnOwned ==
  ASSUME Typed, Consistent, WorldInv, ContainersOwned, Return PROVE ContainersOwned'
<1>1. /\ remote' = "none" /\ UNCHANGED <<claimedBy, up>>
      /\ up \subseteq Runners
      /\ \A r \in Runners : Used(r)' = Used(r)
  BY DEF Return, worldVars, githubVars, Used, WorldInv, TypeOKWorld
<1>2. CASE remote \in {"started", "refused", "container_start"} /\ Provisioned(remote)
  <2>1. /\ row \in Runners /\ sweepAt = "provisioning"
        /\ \A r \in Runners \ {row} : attempts[r] # "starting"
    BY <1>2 DEF Provisioned, Typed, HoldsRow, AwaitPoints, ContainersOwned
  <2>2. \A r \in up : Used(r) \/ attempts[r] \in ActiveStates
    BY <2>1 DEF ContainersOwned, NoStrayContainer
  <2>3. CASE remote = "started"
    <3>1. /\ \A r \in Runners \ {row} : attempts'[r] = attempts[r]
          /\ attempts'[row] = IF attempts[row] = "starting" THEN "waiting_for_assignment"
                              ELSE attempts[row]
          /\ sweepAt' = "drained"
      BY <1>2, <2>1, <2>3 DEF Provisioned, FinishProvisioning, Typed, TypeOK
    <3>2. \A r \in up : Used(r) \/ attempts'[r] \in ActiveStates
      BY <1>1, <2>2, <3>1 DEF ActiveStates, ViableStates
    <3> QED
      BY <1>1, <2>1, <3>1, <3>2 DEF ContainersOwned, NoStrayContainer
  <2>4. CASE remote # "started"
    <3>1. /\ \A r \in Runners \ {row} : attempts'[r] = attempts[r]
          /\ attempts'[row] = IF attempts[row] = "starting" THEN "failed" ELSE attempts[row]
      BY <1>2, <2>1, <2>4 DEF Provisioned, FailProvisioning, RetireAttempts
    <3>2. /\ \A r \in up \ {row} : Used(r) \/ attempts'[r] \in ActiveStates
          /\ \A r \in up : attempts'[r] \notin {"absent", "created"}
          /\ \A r \in Runners : attempts'[r] # "starting"
      BY <1>1, <2>1, <2>2, <3>1 DEF ContainersOwned
    <3>3. CASE remote = "refused"
      <4>1. row \notin up /\ sweepAt' = "drained"
        BY <1>2, <2>1, <3>3 DEF Provisioned, ContainersOwned
      <4> QED
        BY <1>1, <3>2, <4>1 DEF ContainersOwned, NoStrayContainer
    <3>4. CASE remote = "container_start"
      <4>1. sweepAt' = "reclaiming" /\ row' = row
        BY <1>2, <3>4 DEF Provisioned
      <4> QED
        BY <1>1, <3>2, <4>1 DEF ContainersOwned, NoStrayContainer
    <3> QED
      BY <1>2, <2>4, <3>3, <3>4
  <2> QED
    BY <2>3, <2>4
<1>3. CASE remote = "done" /\ Reclaimed
  <2>1. /\ sweepAt = "reclaiming" /\ row \notin up /\ UNCHANGED attempts
        /\ sweepAt' \notin {"provisioning", "reclaiming"}
    BY <1>3 DEF Reclaimed, tables, ContainersOwned, Typed, TypeOK, RunningPoints
  <2>2. \A r \in up : Used(r) \/ attempts[r] \in ActiveStates
    BY <2>1 DEF ContainersOwned, NoStrayContainer
  <2> QED
    BY <1>1, <2>1, <2>2 DEF ContainersOwned, NoStrayContainer
<1>4. CASE TriggeringJobRead(remote = "claimed")
  <2>1. /\ row \in Runners /\ TriggeringJob(row) \in Jobs /\ sweepAt = "readingJob"
        /\ \A r \in Runners : attempts[r] # "starting"
    BY <1>4, RunnerFacts DEF TriggeringJobRead, Typed, HoldsRow, AwaitPoints, ContainersOwned
  <2>2. CASE /\ remote = "claimed" /\ RecordAssignment(TriggeringJob(row), row, sweepNow)
             /\ sweepAt' = "expire"
    <3>1. claimedBy[TriggeringJob(row)] = row
      BY <2>1, <2>2 DEF WorldInv
    <3>2. AttemptsSpared
      BY <2>1, <2>2, <3>1, AssignSpares
    <3> QED
      BY <1>1, <2>1, <2>2, <3>2, SweepOwned
  <2>3. CASE UNCHANGED attemptVars /\ sweepAt' = "expire"
    BY <1>1, <2>1, <2>3, SweepOwned DEF attemptVars, AttemptsSpared
  <2>4. CASE RetireAttempts({row}, "expired") /\ sweepAt' = "reclaiming" /\ row' = row
    BY <1>1, <2>1, <2>4, RetireOwned
  <2> QED
    BY <1>4, <2>2, <2>3, <2>4 DEF TriggeringJobRead
<1>5. CASE Probed(remote = "running")
  <2>1. /\ row \in Runners /\ sweepAt = "probing"
        /\ \A r \in Runners : attempts[r] # "starting"
    BY <1>5 DEF Probed, Typed, HoldsRow, AwaitPoints, ContainersOwned
  <2>2. CASE UNCHANGED attemptVars /\ sweepAt' = "exits"
    BY <1>1, <2>1, <2>2, SweepOwned DEF attemptVars, AttemptsSpared
  <2>3. CASE RetireAttempts({row}, "stopped") /\ sweepAt' = "reclaiming" /\ row' = row
    BY <1>1, <2>1, <2>3, RetireOwned
  <2> QED
    BY <1>5, <2>2, <2>3 DEF Probed
<1>6. CASE ConclusionRead(remote)
  BY <1>1, <1>6, SweepOwned DEF ConclusionRead, attemptVars, AttemptsSpared
<1> QED
  BY <1>2, <1>3, <1>4, <1>5, <1>6 DEF Return

LEMMA CallsOwned ==
  ASSUME "reclaim" \notin Faulty, Typed, WorldInv, ContainersOwned, RemoteStep, ~Return
  PROVE  ContainersOwned'
<1>1. /\ UNCHANGED <<attempts, sweepAt, row, claimedBy>>
      /\ up \subseteq Runners
  BY DEF RemoteStep, MintJitConfig, RefuseProvision, StartContainer, DestroyContainer,
         DeleteRunner, ProbeContainer, ReadRunnerOfJob, ReadStatusOfJob, Calling, vars, tables,
         sweepVars, worldVars, githubVars, WorldInv, TypeOKWorld
<1>2. \A r \in Runners : Used(r)' = Used(r)
  BY <1>1 DEF Used
<1>3. sweepAt \in {"provisioning", "reclaiming"} => row \in Runners
  BY DEF Typed, HoldsRow, AwaitPoints
<1>4. CASE MintJitConfig \/ RefuseProvision
  <2>1. sweepAt = "provisioning" /\ remote = "none" /\ up' = up
    BY <1>4 DEF MintJitConfig, RefuseProvision, Calling, worldVars
  <2> QED
    BY <1>1, <1>2, <1>3, <2>1 DEF ContainersOwned, NoStrayContainer
<1>5. CASE StartContainer
  <2>1. /\ sweepAt = "provisioning" /\ remote' \in {"started", "container_start"}
        /\ up' \subseteq up \cup {row}
    BY <1>5 DEF StartContainer
  <2>2. Used(row) \/ attempts[row] \in ActiveStates
    BY <2>1 DEF ContainersOwned, ActiveStates, ViableStates
  <2> QED
    BY <1>1, <1>2, <1>3, <2>1, <2>2 DEF ContainersOwned, NoStrayContainer
<1>6. CASE DestroyContainer
  <2>1. sweepAt = "reclaiming" /\ up' = up \ {row}
    BY <1>6 DEF DestroyContainer, Calling
  <2> QED
    BY <1>1, <1>2, <1>3, <2>1 DEF ContainersOwned, NoStrayContainer
<1>7. CASE DeleteRunner
  <2>1. sweepAt = "reclaiming" /\ remote = "destroyed" /\ up' = up
    BY <1>7 DEF DeleteRunner
  <2> QED
    BY <1>1, <1>2, <1>3, <2>1 DEF ContainersOwned, NoStrayContainer
<1>8. CASE ProbeContainer \/ ReadRunnerOfJob \/ ReadStatusOfJob
  <2>1. sweepAt \notin {"provisioning", "reclaiming"} /\ up' = up
    BY <1>8 DEF ProbeContainer, ReadRunnerOfJob, ReadStatusOfJob, Calling, worldVars
  <2> QED
    BY <1>1, <1>2, <2>1 DEF ContainersOwned, NoStrayContainer
<1> QED
  BY <1>4, <1>5, <1>6, <1>7, <1>8 DEF RemoteStep

LEMMA ProceedOwned ==
  ASSUME Typed, Consistent, WorldInv, ContainersOwned, Proceed PROVE ContainersOwned'
<1>1. /\ sweepAt \notin AwaitPoints
      /\ UNCHANGED <<claimedBy, up, remote>>
  BY DEF Proceed, AlarmFires, StartProvisioning, NothingPending, SelectUnassigned,
         ReadTriggeringJob, SelectOverdue, ExpireRunning, SelectLive, Probe, SelectChecks,
         ReadConclusion, Rearm, AwaitPoints, worldVars, githubVars
<1>2. remote' = "none" /\ up \subseteq Runners
  BY <1>1 DEF WorldInv, TypeOKWorld
<1>3. \A r \in Runners : attempts[r] # "starting" /\ Used(r)' = Used(r)
  BY <1>1 DEF ContainersOwned, AwaitPoints, Used
<1>4. CASE StartProvisioning
  <2> PICK j \in PendingJobs : /\ attempts' = [attempts EXCEPT ![<<j, pending[j]>>] = "starting"]
                               /\ row' = <<j, pending[j]>>
    BY <1>4 DEF StartProvisioning
  <2>1. row' \in Runners /\ attempts[row'] \in {"created", "starting"}
    BY PendingRow DEF PendingJobs, Consistent, PendingNotStarted
  <2>2. attempts[row'] = "created" /\ row' \notin up
    BY <1>3, <2>1 DEF ContainersOwned
  <2>3. /\ attempts'[row'] = "starting" /\ sweepAt' = "provisioning"
        /\ \A r \in Runners : r # row' => attempts'[r] = attempts[r]
    BY <1>4, <2>1 DEF StartProvisioning, Typed, TypeOK
  <2>4. \A r \in up : Used(r) \/ attempts[r] \in ActiveStates
    BY <1>1 DEF ContainersOwned, NoStrayContainer, AwaitPoints
  <2> QED
    BY <1>1, <1>2, <1>3, <2>1, <2>2, <2>3, <2>4 DEF ContainersOwned, NoStrayContainer
<1>5. ASSUME NEW r \in Runners, ExpireRunning(r) PROVE ContainersOwned'
  <2>1. CASE Overdue(r)
    <3>1. RetireAttempts({r}, "expired") /\ sweepAt' = "reclaiming" /\ row' = r
      BY <1>5, <2>1 DEF ExpireRunning
    <3> QED
      BY <1>1, <1>2, <1>3, <3>1, RetireOwned DEF AwaitPoints
  <2>2. CASE ~Overdue(r)
    <3>1. UNCHANGED attempts /\ sweepAt' = sweepAt
      BY <1>5, <2>2 DEF ExpireRunning, attemptVars
    <3> QED
      BY <1>1, <3>1, SweepOwned DEF AttemptsSpared, AwaitPoints
  <2> QED
    BY <2>1, <2>2
<1>6. CASE \/ AlarmFires \/ NothingPending \/ SelectUnassigned \/ ReadTriggeringJob \/ SelectOverdue
           \/ SelectLive \/ Probe \/ SelectChecks \/ ReadConclusion \/ Rearm
  <2>1. UNCHANGED attempts /\ sweepAt' \notin {"provisioning", "reclaiming"}
    BY <1>6 DEF AlarmFires, NothingPending, Goto, SelectUnassigned, ReadTriggeringJob,
                SelectOverdue, SelectLive, Probe, SelectChecks, ReadConclusion, Rearm, tables
  <2> QED
    BY <1>1, <2>1, SweepOwned DEF AttemptsSpared, AwaitPoints
<1> QED
  BY <1>4, <1>5, <1>6 DEF Proceed

LEMMA OwnedStep ==
  ASSUME "crash" \notin Faulty, "reclaim" \notin Faulty
  PROVE  IInv /\ WorldInv /\ Truthful /\ ContainersOwned /\ [JitneyNext]_allVars => ContainersOwned'
<1> SUFFICES ASSUME Typed, Consistent, WorldInv, Truthful, ContainersOwned, [JitneyNext]_allVars
             PROVE  ContainersOwned'
  BY DEF IInv
<1>1. ASSUME NEW j \in Jobs, DeliverQueued(j) \/ ReconcileDiscovered(j) PROVE ContainersOwned'
  <2>1. AcceptQueued(j) /\ UNCHANGED <<claimedBy, up, sweepAt, row, remote>>
    BY <1>1 DEF DeliverQueued, ReconcileDiscovered, AcceptQueuedDelivery, Reconcile, sweepVars,
                worldVars, githubVars
  <2> QED
    BY <2>1, QueuedSpares, HandlerOwned
<1>2. ASSUME NEW j \in Jobs, DeliverInProgress(j) PROVE ContainersOwned'
  <2>1. /\ claimedBy[j] \in Runners \cup {None}
        /\ UNCHANGED <<claimedBy, up, sweepAt, row, remote>>
    BY <1>2 DEF DeliverInProgress, AcceptInProgress, sweepVars, worldVars, githubVars, WorldInv,
                TypeOKWorld
  <2>2. CASE RecordAssignment(j, claimedBy[j], 0)
    BY <2>1, <2>2, AssignSpares, HandlerOwned
  <2>3. CASE UNCHANGED attemptVars
    BY <2>1, <2>3, HandlerOwned DEF attemptVars, AttemptsSpared
  <2> QED
    BY <1>2, <2>2, <2>3 DEF DeliverInProgress, AcceptInProgress
<1>3. ASSUME NEW j \in Jobs, DeliverCompleted(j) PROVE ContainersOwned'
  <2>1. UNCHANGED <<claimedBy, up, sweepAt, row, remote>>
    BY <1>3 DEF DeliverCompleted, AcceptCompleted, sweepVars, worldVars, githubVars
  <2>2. CASE RecordCompletion(j, result[j])
    BY <2>1, <2>2, CompletionSpares, HandlerOwned
  <2>3. CASE UNCHANGED attemptVars
    BY <2>1, <2>3, HandlerOwned DEF attemptVars, AttemptsSpared
  <2> QED
    BY <1>3, <2>2, <2>3 DEF DeliverCompleted, AcceptCompleted
<1>4. ASSUME NEW j \in Jobs, NEW r \in Runners, Claim(r, j) PROVE ContainersOwned'
  <2>1. UNCHANGED <<attempts, up, sweepAt, row, remote>>
    BY <1>4 DEF Claim, WorldStep, vars, tables, sweepVars
  <2>2. claimedBy[j] = None /\ \A k \in Jobs \ {j} : claimedBy'[k] = claimedBy[k]
    BY <1>4 DEF Claim, WorldInv, TypeOKWorld
  <2>3. \A q \in Runners : Used(q) => Used(q)'
    BY <2>2, RunnerFacts DEF Used
  <2>4. up \subseteq Runners /\ (sweepAt = "provisioning" => row \in Runners)
    BY DEF WorldInv, TypeOKWorld, Typed, HoldsRow, AwaitPoints
  <2> QED
    BY <2>1, <2>3, <2>4 DEF ContainersOwned, NoStrayContainer
<1>5. ASSUME NEW j \in Jobs, \/ Finish(j) \/ LoseJob(j) \/ CancelQueued(j) \/ DeleteRun(j)
                             \/ Discover(j)
      PROVE  ContainersOwned'
  <2>1. UNCHANGED <<attempts, claimedBy, up, sweepAt, row, remote>>
    BY <1>5 DEF Finish, LoseJob, CancelQueued, End, DeleteRun, Discover, WorldStep, vars, tables,
                sweepVars, githubVars
  <2> QED
    BY <2>1, HandlerOwned DEF AttemptsSpared
<1>6. ASSUME NEW r \in Runners, Exit(r) PROVE ContainersOwned'
  <2>1. /\ UNCHANGED <<attempts, claimedBy, sweepAt, row, remote>>
        /\ up' \subseteq up
    BY <1>6 DEF Exit, WorldStep, vars, tables, sweepVars, githubVars
  <2>2. \A q \in Runners : Used(q)' = Used(q)
    BY <2>1 DEF Used
  <2>3. up \subseteq Runners /\ (sweepAt = "provisioning" => row \in Runners)
    BY DEF WorldInv, TypeOKWorld, Typed, HoldsRow, AwaitPoints
  <2> QED
    BY <2>1, <2>2, <2>3 DEF ContainersOwned, NoStrayContainer
<1>7. CASE Proceed
  BY <1>7, ProceedOwned
<1>8. CASE RemoteStep
  BY <1>8, CallsOwned, ReturnOwned
<1>9. CASE TimePasses \/ UNCHANGED allVars
  BY <1>9, HandlerOwned
  DEF TimePasses, Tick, sweepLocals, allVars, vars, tables, sweepVars, worldVars, githubVars,
      AttemptsSpared
<1> QED
  BY <1>1, <1>2, <1>3, <1>4, <1>5, <1>6, <1>7, <1>8, <1>9 DEF JitneyNext, Crash

LEMMA OwnedInit == JitneyInit => ContainersOwned
BY RunnerFacts
DEF JitneyInit, Init, InitWorld, ContainersOwned, NoStrayContainer

\* Where no crash and no failed reclaim falls between a container and its record, no runner
\* is left without an owner: not by a refused or failed start, a false answer of GitHub, a
\* container that dies, a deleted run or any order of the webhooks.
THEOREM NoStrayWithoutCrash ==
  ASSUME "crash" \notin Faulty, "reclaim" \notin Faulty
  PROVE  JitneySpec => []NoStrayContainer
<1>1. JitneyInit => IInv
  BY IInvInit DEF JitneyInit
<1>2. IInv => Typed
  BY DEF IInv
<1>3. ContainersOwned => NoStrayContainer
  BY DEF ContainersOwned
<1>4. IInv /\ WorldInv /\ Truthful /\ ContainersOwned /\ [JitneyNext]_allVars => ContainersOwned'
  BY OwnedStep
<1> QED
  BY <1>1, <1>2, <1>3, <1>4, WorldInvInit, WorldInvStep, JitneySchedules, IInvStep, TruthfulInit,
     TruthfulStep, OwnedInit, PTL DEF JitneySpec

=============================================================================
