------------------------------- MODULE Jitney -------------------------------
(***************************************************************************)
(* The Scheduler among the services it drives: GitHub's job queue and      *)
(* runner registrations, the runner containers, the webhooks and the cron  *)
(* that feed its intake, and the four calls of runner-attempt-operations.ts*)
(* in the steps each of them takes.                                        *)
(*                                                                         *)
(* GitHub and the container platform are not part of the repository.  They *)
(* are modelled from how worker/src uses them: a just-in-time runner is    *)
(* registered under a unique name, claims any queued job that carries the  *)
(* label (not only the one it was created for), runs one job and leaves.   *)
(*                                                                         *)
(* A webhook reports a fact of GitHub and carries one delivery GUID.  It   *)
(* arrives any time after the fact, in any order, any number of times or   *)
(* never.  Every step of the Scheduler is a step of module Scheduler with  *)
(* the inputs these services can give it.                                  *)
(***************************************************************************)
EXTENDS Scheduler

CONSTANT
  Faulty   \* the kinds of fault that happen: "crash", "provision", "reclaim",
           \* "read", "container", "deleted"

ASSUME DeliveriesAssumption ==
  Deliveries = {"queued", "in_progress", "completed"} \X Jobs
ASSUME LostJobsFail == "failure" \in Conclusions

VARIABLES
  gh,           \* GitHub's status of each job
  claimedBy,    \* the runner GitHub gave the job to
  result,       \* GitHub's conclusion
  registered,   \* runners registered with GitHub
  up,           \* runners whose container is running
  discovered,   \* jobs the cron listed as queued and has yet to reconcile
  remote        \* how far the call the sweep awaits has come

githubVars == <<gh, claimedBy, result>>
worldVars  == <<gh, claimedBy, result, registered, up, discovered>>
allVars    == <<vars, worldVars, remote>>

TypeOKWorld ==
  /\ gh \in [Jobs -> {"queued", "in_progress", "completed", "gone"}]
  /\ claimedBy \in [Jobs -> Runners \cup {None}]
  /\ result \in [Jobs -> Conclusions \cup {None}]
  /\ registered \subseteq Runners
  /\ up \subseteq Runners
  /\ discovered \subseteq Jobs
  /\ remote \in {"none", "minted", "started", "refused", "container_start", "destroyed",
                 "done", "claimed", "unclaimed", "running", "stopped",
                 "queued", "in_progress", "unknown"} \cup Conclusions

InitWorld ==
  /\ gh = [j \in Jobs |-> "queued"]
  /\ claimedBy = [j \in Jobs |-> None]
  /\ result = [j \in Jobs |-> None]
  /\ registered = {}
  /\ up = {}
  /\ discovered = {}
  /\ remote = "none"

-----------------------------------------------------------------------------
(* GitHub.  Between two awaits the Scheduler takes no time, so the world only *)
(* moves while its event loop is free.                                       *)

Busy(r) == \E j \in Jobs : claimedBy[j] = r /\ gh[j] = "in_progress"
Used(r) == \E j \in Jobs : claimedBy[j] = r

WorldStep == EventLoopFree /\ UNCHANGED <<vars, remote>>

Claim(r, j) ==
  /\ WorldStep
  /\ r \in registered \cap up /\ ~Used(r)
  /\ gh[j] = "queued"
  /\ gh' = [gh EXCEPT ![j] = "in_progress"]
  /\ claimedBy' = [claimedBy EXCEPT ![j] = r]
  /\ UNCHANGED <<result, registered, up, discovered>>

End(j, c) ==
  /\ gh' = [gh EXCEPT ![j] = "completed"]
  /\ result' = [result EXCEPT ![j] = c]
  /\ registered' = registered \ {claimedBy[j]}
  /\ UNCHANGED <<claimedBy, up, discovered>>

Finish(j) ==
  /\ WorldStep
  /\ gh[j] = "in_progress" /\ claimedBy[j] \in up
  /\ \E c \in Conclusions : End(j, c)

\* GitHub notices that the runner is gone and fails the job.
LoseJob(j) ==
  /\ WorldStep
  /\ gh[j] = "in_progress" /\ claimedBy[j] \notin up
  /\ End(j, "failure")

CancelQueued(j) ==
  /\ WorldStep
  /\ gh[j] = "queued" /\ "cancelled" \in Conclusions
  /\ End(j, "cancelled")

\* The workflow run is deleted: GitHub answers 404 from now on.
DeleteRun(j) ==
  /\ WorldStep
  /\ "deleted" \in Faulty
  /\ gh[j] = "completed"
  /\ gh' = [gh EXCEPT ![j] = "gone"]
  /\ UNCHANGED <<claimedBy, result, registered, up, discovered>>

\* The supervisor exits with the runner, which exits after its one job.
Exit(r) ==
  /\ WorldStep
  /\ r \in up
  /\ \/ Used(r) /\ ~Busy(r)
     \/ "container" \in Faulty
  /\ up' = up \ {r}
  /\ UNCHANGED <<githubVars, registered, discovered>>

-----------------------------------------------------------------------------
(* Webhooks and the reconciliation cron. *)

DeliverQueued(j) ==
  /\ AcceptQueuedDelivery(<<"queued", j>>, j)
  /\ UNCHANGED <<worldVars, remote>>

DeliverInProgress(j) ==
  /\ claimedBy[j] # None
  /\ AcceptInProgress(<<"in_progress", j>>, j, claimedBy[j])
  /\ UNCHANGED <<worldVars, remote>>

DeliverCompleted(j) ==
  /\ result[j] # None
  /\ AcceptCompleted(<<"completed", j>>, j, result[j])
  /\ UNCHANGED <<worldVars, remote>>

Discover(j) ==
  /\ WorldStep
  /\ gh[j] = "queued"
  /\ discovered' = discovered \cup {j}
  /\ UNCHANGED <<githubVars, registered, up>>

ReconcileDiscovered(j) ==
  /\ j \in discovered
  /\ Reconcile(j)
  /\ discovered' = discovered \ {j}
  /\ UNCHANGED <<githubVars, registered, up, remote>>

-----------------------------------------------------------------------------
(* Runner Attempt Operations. *)

Calling(point) == sweepAt = point /\ remote = "none" /\ UNCHANGED vars

\* provision: verify the installation, get a token, register the runner, start
\* its container.  Everything before the registration fails alike, and GitHub
\* refuses a name that is already registered.
MintJitConfig ==
  /\ Calling("provisioning")
  /\ row \notin registered
  /\ registered' = registered \cup {row}
  /\ \/ remote' = "minted"
     \/ "provision" \in Faulty /\ remote' = "refused"
  /\ UNCHANGED <<githubVars, up, discovered>>

RefuseProvision ==
  /\ Calling("provisioning")
  /\ row \in registered \/ "provision" \in Faulty
  /\ remote' = "refused"
  /\ UNCHANGED worldVars

StartContainer ==
  /\ sweepAt = "provisioning" /\ remote = "minted" /\ UNCHANGED vars
  /\ \/ up' = up \cup {row} /\ remote' = "started"
     \/ /\ "provision" \in Faulty
        /\ up' \in {up, up \cup {row}}
        /\ remote' = "container_start"
  /\ UNCHANGED <<githubVars, registered, discovered>>

\* Mutant: reclaim goes on without destroying the container.
ForgetContainer == Calling("reclaiming") /\ remote' = "destroyed" /\ UNCHANGED worldVars

\* reclaim: destroy the container, then find and delete the registration, which
\* GitHub refuses while the runner is busy.
DestroyContainer ==
  /\ Calling("reclaiming")
  /\ \/ up' = up \ {row} /\ remote' = "destroyed"
     \/ "reclaim" \in Faulty /\ remote' = "done" /\ UNCHANGED up
  /\ UNCHANGED <<githubVars, registered, discovered>>

DeleteRunner ==
  /\ sweepAt = "reclaiming" /\ remote = "destroyed" /\ UNCHANGED vars
  /\ remote' = "done"
  /\ \/ registered' = IF Busy(row) THEN registered ELSE registered \ {row}
     \/ "reclaim" \in Faulty /\ UNCHANGED registered
  /\ UNCHANGED <<githubVars, up, discovered>>

ProbeContainer ==
  /\ Calling("probing")
  /\ \/ remote' = IF row \in up THEN "running" ELSE "stopped"
     \/ "read" \in Faulty /\ remote' = "running"
  /\ UNCHANGED worldVars

\* Mutant: any runner of the job will do.
ReadStatusOnly ==
  /\ Calling("readingJob")
  /\ remote' = IF gh[TriggeringJob(row)] = "in_progress" THEN "claimed" ELSE "unclaimed"
  /\ UNCHANGED worldVars

\* jobStatus for an attempt past its assignment deadline.
ReadRunnerOfJob ==
  /\ Calling("readingJob")
  /\ LET j == TriggeringJob(row)
     IN \/ remote' = IF gh[j] = "in_progress" /\ claimedBy[j] = row THEN "claimed" ELSE "unclaimed"
        \/ "read" \in Faulty /\ remote' = "unclaimed"
  /\ UNCHANGED worldVars

\* Mutants: the status is passed on where the conclusion belongs; a read that failed
\* counts as not found.
ReadRawStatus ==
  Calling("readingConclusion") /\ remote' = gh[asked] /\ UNCHANGED worldVars
ReadFailureAsMissing ==
  /\ Calling("readingConclusion")
  /\ \/ remote' = IF gh[asked] = "completed" THEN result[asked] ELSE gh[asked]
     \/ remote' = "unknown"
  /\ UNCHANGED worldVars

\* jobStatus for a conclusion check; a deleted run is not found.
ReadStatusOfJob ==
  /\ Calling("readingConclusion")
  /\ \/ remote' = CASE gh[asked] = "completed" -> result[asked]
                    [] gh[asked] = "gone" -> "unknown"
                    [] OTHER -> gh[asked]
     \/ "read" \in Faulty /\ remote' = "in_progress"
  /\ UNCHANGED worldVars

\* The await returns; the world may have moved since the answer was given.
Return ==
  /\ remote # "none"
  /\ remote' = "none"
  /\ \/ remote \in {"started", "refused", "container_start"} /\ Provisioned(remote)
     \/ remote = "done" /\ Reclaimed
     \/ TriggeringJobRead(remote = "claimed") /\ remote \in {"claimed", "unclaimed"}
     \/ remote \in {"running", "stopped"} /\ Probed(remote = "running")
     \/ ConclusionRead(remote)
  /\ UNCHANGED worldVars

Crash ==
  /\ "crash" \in Faulty
  /\ Restart
  /\ remote' = "none"
  /\ UNCHANGED worldVars

-----------------------------------------------------------------------------

\* The segments of the sweep that end at an await, and those between two phases.
Proceed ==
  /\ \/ AlarmFires \/ StartProvisioning \/ NothingPending \/ SelectUnassigned
     \/ ReadTriggeringJob \/ SelectOverdue \/ (\E r \in Runners : ExpireRunning(r))
     \/ SelectLive \/ Probe \/ SelectChecks \/ ReadConclusion \/ Rearm
  /\ UNCHANGED <<worldVars, remote>>

RemoteStep ==
  \/ MintJitConfig \/ RefuseProvision \/ StartContainer
  \/ DestroyContainer \/ DeleteRunner
  \/ ProbeContainer \/ ReadRunnerOfJob \/ ReadStatusOfJob
  \/ Return

TimePasses == Tick /\ UNCHANGED <<worldVars, remote>>

JitneyNext ==
  \/ \E j \in Jobs :
       \/ \E r \in Runners : Claim(r, j)
       \/ Finish(j) \/ LoseJob(j) \/ CancelQueued(j) \/ DeleteRun(j)
       \/ DeliverQueued(j) \/ DeliverInProgress(j) \/ DeliverCompleted(j)
       \/ Discover(j) \/ ReconcileDiscovered(j)
  \/ \E r \in Runners : Exit(r)
  \/ Proceed
  \/ RemoteStep
  \/ Crash
  \/ TimePasses

JitneyInit == Init /\ InitWorld

JitneySpec == JitneyInit /\ [][JitneyNext]_allVars

-----------------------------------------------------------------------------
(* Safety properties. *)

\* Whatever arrives late, twice or not at all, the assignments table never says anything
\* GitHub did not do: an assigned runner did claim that job.
AssignmentsAreTrue ==
  \A j \in Jobs : assignments[j] # None => claimedBy[j] = assignments[j]

\* A job is shown as over only when GitHub ended it, and with the conclusion GitHub
\* gave; "unknown" stands for a run GitHub no longer has.
ConclusionsAreTrue ==
  \A j \in Jobs :
    /\ jobs[j] \in TerminalStates => gh[j] \in {"completed", "gone"}
    /\ conclusion[j] # None =>
         conclusion[j] = result[j] \/ (conclusion[j] = "unknown" /\ gh[j] = "gone")

\* A job shown as running either has its attempt still running, or a conclusion check
\* that will ask GitHub how it ended.
RunningJobWatched ==
  \A j \in Jobs : jobs[j] = "running" =>
    attempts[assignments[j]] = "running" \/ checks[j] # None

\* A container that has not been given a job belongs to an attempt the Scheduler still
\* counts, or to the one it is reclaiming at this moment.
NoStrayContainer ==
  \A r \in up : Used(r) \/ attempts[r] \in ActiveStates \/ (sweepAt = "reclaiming" /\ row = r)

\* A job that is over stays over: it is not queued, provisioned or shown as running again.
EndedStaysEnded ==
  [][\A j \in Jobs : jobs[j] \in TerminalStates => jobs'[j] \in TerminalStates]_allVars

\* The sweep never expires, for want of an assignment, a runner that is busy with a job.
BusyRunnerKept ==
  [][\A r \in Runners :
       attempts[r] \in ViableStates /\ attempts'[r] = "expired" => ~Busy(r)]_allVars

\* Between sweeps, a pending row is a tick away from being provisioned.
PendingIsScheduled ==
  sweepAt = "idle" /\ PendingJobs # {} => alarm # None /\ alarm <= SchedulerTick

-----------------------------------------------------------------------------
(* Liveness.  Handlers run to their end and remote calls return; time passes;  *)
(* the cron keeps listing and reconciling; GitHub hands queued jobs to idle     *)
(* runners, jobs end and their runners exit.  No webhook is ever promised to    *)
(* arrive.  The steps of the world are strongly fair only because they wait for *)
(* the Scheduler's event loop here, which in truth they do not.                 *)

Fairness ==
  /\ WF_allVars(Proceed)
  /\ WF_allVars(RemoteStep)
  /\ WF_allVars(TimePasses)
  /\ \A j \in Jobs :
       /\ SF_allVars(Discover(j) /\ j \notin discovered)
       /\ SF_allVars(ReconcileDiscovered(j))
       /\ SF_allVars(\E r \in Runners : Claim(r, j))
       /\ SF_allVars(Finish(j) \/ LoseJob(j))
  /\ \A r \in Runners : SF_allVars(Exit(r) /\ Used(r))

JitneyFairSpec == JitneySpec /\ Fairness

\* MaxAttempts bounds the model: past it the Scheduler cannot try again.
Exhausted(j) == attempts[<<j, MaxAttempts>>] # "absent"

\* A queued job gets a runner though every webhook about it is lost: some runner claims
\* it, or the Scheduler has made every attempt the model allows.
QueuedJobServed ==
  \A j \in Jobs : gh[j] = "queued" ~> gh[j] # "queued" \/ Exhausted(j)

\* A job shown as running while a sweep or an alarm is due is eventually shown as ended,
\* though its webhooks are lost, its runner overstays its deadline or its container dies.
WatchedJobConcluded ==
  \A j \in Jobs : jobs[j] = "running" /\ (sweepAt # "idle" \/ alarm # None)
                    ~> jobs[j] \in TerminalStates

\* A running attempt gives its slot back in the end: its container exits or overstays the
\* runtime deadline, and the Scheduler notices.
RunningSlotFreed ==
  \A r \in Runners : attempts[r] = "running" ~> attempts[r] # "running"

\* Every pending row is eventually provisioned or withdrawn.
PendingDrained ==
  \A j \in Jobs : pending[j] # 0 ~> pending[j] = 0

\* A job the Scheduler knows and GitHub ended is eventually shown as ended.
EndedJobConcluded ==
  \A j \in Jobs : gh[j] = "completed" /\ jobs[j] # "absent" ~> jobs[j] \in TerminalStates

=============================================================================
