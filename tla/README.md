# Jitney: models, checks and proofs

Jitney runs GitHub Actions jobs on just-in-time runners in Cloudflare Containers. A Worker
receives GitHub's webhooks, one Durable Object (the Scheduler) decides which runner attempts to
make and when to give up on them, one Durable Object per attempt owns a container, and a
command-line tool installs, upgrades, repairs and destroys deployments. This directory holds TLA+
models of that system, the TLC runs that check them and TLAPS proofs of the properties that matter
most.

## The system

| Component | Source | State | Operations | Status |
|---|---|---|---|---|
| Scheduler lifecycle | `worker/src/lifecycle.ts`, `scheduler.ts`, `schema.ts` | tables deliveries, jobs, attempts, assignments, pending, conclusion_checks; the alarm; the intake switch | accept, defer, reconcile, suspendIntake, resumeIntake, activeAttemptCount, alarm (sweep) | modelled: `Scheduler` |
| Runner Attempt Operations | `worker/src/runner-attempt-operations.ts` | none of its own | provision, reclaim, isRunning, jobStatus | modelled: `Jitney` |
| Ingress and reconciliation | `worker/src/index.ts`, `delivery-classification.ts`, `reconciliation.ts`, `github.ts` | none | webhook, cron, lifecycle requests | partly: `Jitney` |
| Runner Container | `worker/src/runner-container.ts` | running, armed | startAttempt, isRunning, destroy | modelled: `RunnerContainer`; up or not in `Jitney` |
| Uninstall and drain protocol | `worker/src/uninstall.ts`, `lifecycle-status.ts`, `shared/contract.ts` | none | suspend, drain, resume, delete, inventory | partly: the intake switch in `Scheduler`, its callers in `VersionChange`, `Installation`, `Teardown` |
| Receipt store and leases | `cli/src/receipts/` | receipts in an eventually consistent store, the lease inside each, the namespace they share | create, acquire, renew, update, finish, release, delete | modelled: `Leases`, `Account` |
| Version change (upgrade, rollback) | `cli/src/upgrade*.ts` | the receipt, the Worker, the registry | prepare, record, drain, activate, prune, resume, compensate | modelled: `VersionChange` |
| Install and adopt | `cli/src/install*.ts`, `deploy.ts`, `adopt*.ts`, `github-installations.ts` | the same, the App, the markers of repositories | a saga of remote steps with its rollback; claims | modelled: `Installation`, `Account` |
| Destroy | `cli/src/destroy*.ts`, `alchemy/destroy-deployment.ts` | the same | plan, teardown, residue, settlement | modelled: `Teardown` |
| Repair | `cli/src/repair*.ts` | the same | plan, release, two repairs, settlement | modelled: `Teardown`, `Leases` |
| Deployment list | `cli/src/list.ts` | none | probes, findings, health | partly: the health of one receipt, in `Deployment` |
| GitHub App and image registry clients | `cli/src/github-*.ts`, `runner-image-registry.ts` | none | one request each | partly: what each request changes, and that it may fail |
| Infrastructure stack | `cli/src/alchemy/` | the deployed resources | deploy, destroy, done or interrupted | partly: `Deployment` |
| Supervisor | `supervisor/cmd/supervisor/` | the runner process | launch, signal escalation | modelled: `RunnerContainer` |
| CLI shell, logs, end-to-end tests, runner image | the rest | none of the system's | I/O | not modelled |

How they interact. GitHub sends `workflow_job` deliveries to the Worker, which checks and
classifies them and calls `Scheduler.accept`; a cron lists queued jobs every five minutes and calls
`Scheduler.reconcile` for each. Both only write tables and set the alarm. The alarm runs `sweep`,
the only part of the Scheduler that awaits remote calls: it provisions one pending attempt,
expires attempts nobody claimed and jobs that overran, notices containers that exited, asks GitHub
how unaccounted jobs ended, and sets the next alarm. While the sweep awaits, any intake handler may
run. A runner GitHub knows under Jitney's label takes any queued job with that label, so the job an
attempt was created for and the job it ran may differ. The command-line tool talks to the Worker's
lifecycle endpoints, which suspend intake and read the number of active attempts before a
deployment is changed or removed. Its commands exclude one another by a lease in the receipt, a
value in a key-value store that may serve what was replaced a while ago. They change Cloudflare and
GitHub one request at a time, record each change in the receipt, and answer a step that fails with
compensation (upgrade), removal of what was made (deploy), or a receipt that says what is left
(destroy). Deployments of one account share the namespace of their receipts, the image registry and
the repositories, where each leaves a marker.

What is hard, and where it bites, is listed line by line under `hazards` in `PROJECT.json`: webhooks
late, twice, reordered or lost; handlers that run while the sweep awaits and change what it read;
one alarm shared by everything that must happen later; deadlines that race with late answers; an
object that dies between a remote effect and its record of it; capacity freed by one handler and
taken by another. What makes each component correct:

* Scheduler: one viable attempt per job; assignments that are unique, permanent and true; no job
  that waits for nothing; capacity; an alarm for everything owed; jobs that are over stay over.
* Runner operations and containers: no container that nobody counts and no job runs in.
* Receipt store: an operator that has lost its lease stops soon; repair takes no lease from one that
  is alive; an operation that is over stays over.
* Upgrade, deploy, adopt, destroy, repair: a receipt that says active describes a deployment that
  works; a receipt goes only after what it records; no image is left that nobody accounts for, and
  no image that runs is removed; `list` calls healthy only what is.
* Deployments that share an account: one owner per repository, no marker of a deployment that is
  gone, no receipt lost to the removal of the namespace. The code meets the last for the receipts that
  are there when the removal begins, and not for one that is created during it (`receipt_lost`).
* Runner Container and supervisor: a start is reported as failed only when nothing is up; a container
  that is up gets its inactivity timeout; a shutdown ends.

## Modules

| Module | Models | Lines of code it stands for |
|---|---|---|
| `Scheduler` | the Durable Object, its environment unconstrained | `lifecycle.ts`, `scheduler.ts`, `schema.ts` |
| `AttemptLedger` | what it promises about attempts: open, bind, close | `#createAttempt`, `#recordAssignment`, the updates that end an attempt |
| `Jitney` | `Scheduler` with GitHub, containers, webhooks, cron and the remote calls step by step | `runner-attempt-operations.ts`, `index.ts`, `reconciliation.ts`, `github.ts`; GitHub and the container platform are external |
| `Leases` | the receipt of one deployment and the commands that race for its lease, request by request | `receipts/store.ts`, `receipts/leased-operation.ts` |
| `Deployment` | one deployment: its resources, its receipt, the steps every command is made of, and `list` | `receipts/schema.ts`, `alchemy/jitney-stack.ts`, `list.ts` |
| `VersionChange`, `Installation`, `Teardown` | the commands, on the state of `Deployment` | `upgrade*.ts`; `install*.ts`, `deploy.ts`, `adopt*.ts`; `destroy*.ts`, `repair.ts`, `uninstall.ts` |
| `Lifecycle` | any sequence of those commands, and the properties of all | |
| `Account` | several deployments: claims of repositories, the namespace of the receipts | `github-installations.ts`, `receipts/cloudflare.ts`, the end of `store.ts` |
| `RunnerContainer` | one container: the object that controls it, the platform, the supervisor inside and its runner | `runner-container.ts`, `supervisor/cmd/supervisor/` |
| `ContainerContract` | what the Scheduler relies on when it asks for a container | the calls of `runner-attempt-operations.ts` |
| `MCJitney`, `MCLeases`, `MCLifecycle`, `MCAccount` | constants, constraints and views for TLC | |
| `SchedulerProofs`, `LedgerProofs`, `BoundsProofs`, `JitneyProofs`, `LeaseProofs`, `LifecycleProofs`, `AccountProofs`, `ContainerProofs` | theorems | |

The modules fall into two groups, the Worker (`Scheduler`, `Jitney`, `RunnerContainer`) and the command-line tool
(`Leases`, `Lifecycle`, `Account`), and the three of the tool divide its concurrency between them.
`Leases` has the requests of two commands on one receipt, and no resources. `Lifecycle` has the
resources, one command at a time, and a store call in one step. `Account` has commands of several
deployments at once, and of each command only what reaches what they share.

### The Worker

**State.** Each table is a function on jobs or attempts with a value for "no row". An attempt is the
pair of the job it was created for and its number, from which the code derives its runner and
container names. `deadline` is the assignment deadline of a viable attempt and the runtime deadline
of a running one: the code keeps both columns, but no query reads the one that the state makes
irrelevant, and an attempt that is over has none. `conclusion` keeps "unknown" apart from the three
classes of conclusions the code distinguishes; "failure" stands for every other one. Names,
labels, repository and installation ids, timestamps that are only stored, and log lines are left
out.

**Steps.** A handler runs to its end without yielding, except at an await of a remote call, so an
intake handler is one action, with its transaction and its alarm. `#setAlarm` is a storage
operation, during which the object's gates hold other events back. The sweep is a chain of
actions, one per segment between awaits; `sweepAt` says where it stands. At a point of
`AwaitPoints` other handlers and the world may move; at a point of `RunningPoints` only the sweep
may. The rows a phase selected are a set, because SQLite promises no order without ORDER BY; the
pending row is the one with the lowest job id, because that query does order. `Restart` is an
eviction at an await: tables and alarm survive, the sweep is forgotten, and an alarm whose handler
did not finish is delivered again.

**Time.** Everything is relative to now, which is always 0. `Tick` moves every stored time one unit
into the past. A time further back than any running sweep can tell apart is `Past`. So behaviours
are unbounded in length while the state space is finite. `MaxSweepAge` bounds how long a sweep may
take; it is a parameter of the theorems as well, as are all timeouts.

**The environment.** In `Scheduler` any delivery may say anything and a remote call may answer
anything. In `Jitney` a delivery carries a fact: queued, in progress with the runner GitHub gave the
job to, completed with GitHub's conclusion. It can be delivered any time after the fact, or never;
a redelivery carries the same id and changes nothing (`d \notin deliveries` is the guard of every
delivery). `provision` registers the runner and then starts the container; `reclaim` destroys the
container and then deletes the registration; a failure can come before, between or after, and the
effect can have happened although the call failed. `Faulty` switches the kinds of fault: `crash`,
`provision`, `reclaim`, `read`, `container`, `deleted`.

`Jitney` does not suspend intake: every other action of `Scheduler` occurs in it, and
`JitneyRunsScheduler` proves that a behaviour of `Jitney` is one of `Scheduler`.

### RunnerContainer

`armed` is the variable of that name, which lives as long as the object; `timed` is the truth, which
lives as long as the instance. `start` and `probe` say where `startAttempt` and `isRunning` stand: the
object awaits the platform when it sets the timeout and the pause between two tries. An error of a
try is taken for a success when the container is up, as the code does, and is tried again otherwise.
A container can go at any moment, also together with the refusal to set its timeout. `supervisor` is the
last thing the supervisor did; in `interrupt`, `terminate` and `kill` it waits for the runner. A signal
can find the session gone, which is no error, or be refused, which ends the supervisor. SIGTERM
before the supervisor has asked for signals kills it at once: a Go program starts with the default
action. What is left of the session then dies with the container, when tini exits.

`live` is what the Scheduler knows of the attempt: the sweep probes the containers of attempts that wait
for a job or run one (`liveContainerStates`, `lifecycle.ts:720`), and no others. `AttemptLives` and
`AttemptEnds` are the moments at which that changes, whatever the cause; a late assignment can make an
attempt live again.

`Overlapping` says whether a probe can come while a start is outstanding. It takes a Scheduler
that is restarted during a start, whose old call goes on, and a runner of that start that has a job:
in the run it is off, and under Further configurations it is on.

### Leases

A command is two fibers, the operation and the heartbeat. `held[c]` is the Ref they share, `call[f]`
the store call a fiber is in: its context when it began, the value it is going to write, and whether
it reads, writes or reads back. `kv` is the value under the key; for `staleness` ticks after a write
a read may be served what the write replaced (`replaced`), and `Served` is what a read may return.
`getSince` polls until it sees a value at least as new as the caller's own, or takes what it gets
after `PollLimit` ticks. Timestamps are `stamp`s, one per call, so that two calls in one tick are
told apart; `clock` counts ticks. `Fence` is the renewal an operation begins with, `Beat` the
renewals after it. A record, a finish or a deletion that fails, or whose answer is lost, does not end the
command: its operation compensates (`undoing`) with its heartbeat alive, and finishes again or, a deploy,
deletes the receipt. `lost[c]`, for a property, is when the stored receipt last ceased to carry the lease of
`c`. `Tick` waits for everything that is due now (`MayWait`): requests, and fibers, are
answered within a tick, which is the punctuality the fifteen minutes of a lease are chosen for.
A scenario is the receipt there is at the start, the role of each command, the staleness of the store and
the length of the behaviour.

### Deployment, VersionChange, Installation, Teardown, Lifecycle

`stack` is what Cloudflare runs, `registry` the image tags there (a tag is a hash of the image, so
it is named by its version), `intake` the switch of the Scheduler, `github` the App, its
installation, whether that is suspended, and the markers on its repositories, which are one repository
here. A destroy suspends the installation with the intake, lifts that to delete the markers and puts it
back; nothing else of the tool lifts it. `receipt` is the
store, `held` the copy of the command that runs, which differ after a write whose answer was lost.
`command` is the command, its step and its local variables. Each action is one step of a command:
its effect, the failure before the effect and the failure after it, and where the code goes from
there. A deployment engine that fails leaves any of its resources deployed or not
(`PartlyDeployedTo`). `Crash` ends a command at any step and leaves a lease nobody renews. A repair
is a plan, made under no lease, and its execution, which other commands may come between.
`abandoned` and `excuse` are for the properties.

An upgrade or a rollback removes the tag it copied after its lease is released, so that removal
(`RemoveCopiedTag`) runs beside the next command.

`ActiveServes` has excuses, each a way of the code to break it, set where it happens:

| Excuse | What happens |
|---|---|
| `revived` | an upgrade, rollback or repair that starts from an unfinished install, upgrade or destroy settles the receipt as active; a change that then goes well deploys the Worker again and lifts this excuse |
| `half done` | the same from an unfinished install or destroy: its installations and markers may be missing, and no change looks for them, so that this one stays, and covers them only |
| `intake` | the drain failed, the resume that answers it failed too, and its answer is ignored (`upgrade-platform.ts:104`) |
| `answer lost` | finish wrote the receipt, its answer was lost, and the compensation deploys the old version under it (a deploy takes its resources back, and is half done as well) |
| `resumed with another version` | an adoption resumed by another version of the tool deploys that one; the receipt keeps `versions.current` (`adopt.ts`) |

### Account

`namespace` is the id of the namespace of the receipts; one that is made again has a new id. `keys`
says whether a receipt is stored, and for how long it has been so: a listing shows a change after
`Lag` ticks at the latest, and may show it earlier. A claim inspects all repositories, marks those
that had no marker, and inspects all again; an adoption asks the Worker to do the first two.
A repository is reached one at a time, in any order, while the other deployments do the same.
`verified` holds the repositories a claim has seen to be its own alone.

## Runs

| Run | Checks | Instance |
|---|---|---|
| `scheduler` | `TypeOK`, `OneViableAttempt`, `AssignmentsMatchAttempts`, `NoForgottenJob`, `ReferencesHold`, `WithinCapacity`, `BindingsPermanent`, `RevivedOnlyByAssignment`, `DrainedStaysDrained`, `KeepsLedger` | module `Scheduler`: 2 jobs x 2 attempts, 1 pending row, 2 active attempts, 1 delivery of any content besides the cron and the sweep |
| `jitney_faults` | `TypeOKWorld`, `ConclusionsAreTrue`, `RunningJobWatched` | 1 job x 2 attempts, every fault, sweeps that outlast a tick |
| `jitney_crossing` | `AssignmentsAreTrue`, `NoStrayContainer`, `PendingNotStarted`, `WakeupArmed`, `DeadlinesWatched` | 2 jobs x 1 attempt, 2 pending rows, no fault but the order and loss of webhooks |
| `container` | `TypeOK`, `ArmedMeansTimed`, `KeepsContract`, `WatchedIsTimed`, `StartAnswered`, `ShutdownEnds` | module `RunnerContainer`: one attempt, 2 retries, every loss, refusal, restart and signal |
| `leases` | `TypeOK`, `HistoryMatchesLease`, `LoserStops`, `RepairSparesTheLiving` | module `Leases`: 2 commands in four scenarios: a repair and the release of an expired lease, two deploys, an upgrade and a destroy, an upgrade and the release of a lease |
| `deployment` | `TypeOK`, `ActiveServes`, `OkIsHealthy`, `NothingLeftOver`, `RemovedWithResources` | module `Lifecycle`: 2 versions and a third that another deployment records, any number of commands, two failed requests or one crash |
| `account` | `TypeOK`, `OneOwner`, `NoOrphanMarker`, `NamespaceSparesReceipts` | module `Account`: 2 deployments, 2 repositories, listings that lag as long as the removal waits |
| `jitney_liveness` | `QueuedJobServed`, `WatchedJobConcluded`, `PendingDrained` | 1 job x 2 attempts, containers die, provisioning fails |

Why these bounds. Two jobs are what crossing needs: a runner of one job that claims the other, two
jobs that compete for a pending row or a slot. Two attempts are what a second attempt beside a
first that is not quite over needs. The tables refer to at most two jobs and two attempts of one
job in any single transaction. In `scheduler` queued jobs also come from the cron, assignments also
from the sweep and conclusions also from the checks, so that the one delivery races with every
other source of the same fact; in `Jitney` every fact has a delivery of its own. Timeouts are a few
ticks, and in `jitney_crossing` the check interval exceeds the assignment timeout so that a
deadline can be what must wake the object. The theorems lift all of these but the liveness
properties to any instance.

`container`: what a retry finds depends on the last one only, so two retries show all of fourteen; the object
and its container have nothing to do with those of other attempts. `CHECK_DEADLOCK` is off there: an
attempt ends with its container.

The bounds of the tool's modules. `leases`: a lease is lost to a race of two, a third command only
repeats it. A tick is a minute, and the lease of 15, the heartbeat of 5 and the polling of a minute and a
half (`PollLimit` = 2, rounded up) are those of the code, because how many beats a lease outlasts decides
whether repair spares a command that lives. The store may serve a replaced value for up to a minute
(`store.ts:262`). In three scenarios it does so for a whole one (`staleness` = 1), and so into the next tick:

* a repair and a release that was decided on a receipt read earlier, for 9 minutes, in which the lease is
  lost and the heartbeat, the polls and the stale value pass with which the loser finds out;
* two deploys, and an upgrade and a destroy, over the requests of their first minute, any number of them in
  any order, failures and compensations included.

In the fourth, an upgrade and a release, it serves it until the tick ends (`staleness` = 0), which spans any
number of requests, for 18 minutes: three beats, the end of a lease and a release that waits for it. By hand,
the worst case of an upgrade uses fourteen and a half of the fifteen minutes of a lease (two beats, the polls,
a stale read); in whole minutes with `staleness` = 1 each of its parts rounds up and their sum does not fit,
so `RepairSparesTheLiving` is checked for the repair with `staleness` = 1, for the upgrade with 0. A command
of the role "change" records one update, so that record, renewal and finish race. The other roles record none
in this run, although deploy makes three, adopt two and repair one: the numbers of updates are the
theorems' (`LoserAlwaysStops` for any, `LivingAlwaysSpared` for those a lease outlasts) and
`lease_rolled_back.cfg`'s. A history keeps 2 entries, so that it is cut.

`deployment`: two versions are what an upgrade, a rollback and an upgrade back need; the receipt remembers
two. Two requests that fail, or a command that dies (`LittleTrouble`), are a step and its compensation; the
phase or the resources they leave meet every later command. A repair is planned while at most one request has
failed, and while it waits only a destroy runs beside it. The third version, needed for a tag that falls out
of the receipt and for one another deployment records, is in play in behaviours without failures, without a
planned repair or a takeover, and on repositories that are nobody else's (`Plain`); the behaviours without
failures are those `NothingLeftOver` is about. The view leaves out `abandoned` once something has failed,
because only that property reads it.

`account`: two deployments race for two repositories, so that each may win one; the removal of the namespace
meets one other receipt. Versions that no other deployment records, commands, deployments and repositories
are symmetric. `CHECK_DEADLOCK` is off in the runs of the tool's modules: commands end, and behaviours may
end with them.

The other runs end in a counterexample: the code departs from what its own tests, comments or
documents say. `PROJECT.json` quotes each under `findings`.

| Run | Property refuted | In short |
|---|---|---|
| `ended_again` | `EndedStaysEnded` | the job ends while its status is read; the answer makes it run again |
| `lease_returns` | `SettledIsReleased` | a renewal that was under way when finish released the lease writes the lease back |
| `receipt_lost` | `ConcurrentReceiptKept` | a receipt created between the two listings is missing from the second and goes with the namespace |
| `image_pruned` | `RunningImageKept` | upgrade 1 to 2 to 1: the second one prunes tag 1, which it has just activated |

`EndedStaysEnded` fails in two more ways, which larger instances of the same model show: with two
jobs, a runner of an ended job claims the other and the ended one is queued again; with two
attempts, the pending row of the second outlives a conclusion check and the ended job is
provisioned again.

### Further configurations

Eight more configurations end in a counterexample each. The first five are of `MCJitney` and a property
of `Jitney` that states what the README or a comment of the repository promises of the Worker; then one
of `MCLifecycle`, where the repository's README promises that `upgrade` "moves a deployment to that CLI
version", one of `RunnerContainer`, and one of `MCLeases`, where `leased-operation.ts:24` says that
under `hold` "a background heartbeat keeps the lease alive":

| Configuration | Property refuted | In short |
|---|---|---|
| `ended_unnoticed.cfg` | `EndedJobConcluded` | cancelled while queued, completed delivery lost: never concluded (`lifecycle.ts:574`) |
| `busy_runner.cfg` | `BusyRunnerKept` | the sweep asks about the triggering job, not about the one the runner took (`lifecycle.ts:558`) |
| `lost_wakeup.cfg` | `PendingIsScheduled` | the sweep's last step overwrites an alarm set during the sweep (`lifecycle.ts:511`) |
| `slot_held.cfg` | `RunningSlotFreed` | an expired attempt revived with no alarm set keeps its slot (`lifecycle.ts:399`) |
| `stray_container.cfg` | `NoStrayContainer` | crash between start and record: the retry is refused, nothing is reclaimed (`lifecycle.ts:947`) |
| `unfinished_upgrade.cfg` | `UpgradeDelivers` | an upgrade to the version the receipt records settles it as active and deploys nothing, also when the command that recorded it died before it deployed (`upgrade.ts:104`) |
| `untimed_container.cfg` | `ArmedMeansTimed` | with `Overlapping`: a probe sets the timeout during a start, the container goes, and the next try starts one that is taken for timed (`runner-container.ts:30`) |
| `lease_rolled_back.cfg` | `RepairSparesTheLiving` | a deploy that records two updates, each during a renewal, undoes both renewals, and repair frees its lease (`store.ts:434`) |

`NoStrayContainer` is checked twice: without faults it holds (`jitney_crossing`), with crashes it does
not. `RunningJobWatched` and `ConclusionsAreTrue` hold under every fault.

`image_pruned` excludes the removal of a copied tag after its lease (`NoCleanup`), so that its
counterexample is the plain prune. `receipt_lost` has one repository; nothing else of the run `account` is
different.

`RepairSparesTheLiving` is checked twice too. A record writes back the receipt it read, the lease
included, and confirms itself by that lease; when a renewal falls between its read and its write, the
renewal is undone and nobody notices. An upgrade or a rollback makes one such update, so that one
renewal is lost, a lease outlasts that, and the property holds (`leases`). An adoption makes two and a
deploy three, and two of them, each during a renewal, are enough (`lease_rolled_back.cfg`). With ticks in which a lease outlasts
six beats the property held of everything; the attempt to prove it led here.

**Fairness.** Only `jitney_liveness`, configurations of `Jitney` and `container` assume any. `JitneyFairSpec` assumes that the sweep, once begun, goes on and its remote calls
return (`WF` of `Proceed` and `RemoteStep`: handlers run to completion and every call of
`runner-attempt-operations.ts` ends in a value or a failure); that time passes; that the cron lists
and submits a queued job again and again; that GitHub gives a queued job to an idle runner, that
jobs end, and that a used runner's container exits. The last group is strongly fair because in the
model these steps wait for the Scheduler's event loop, which in truth they do not. No webhook is
assumed to arrive, no fault is assumed to stop.

`FairSpec` of `RunnerContainer` assumes that the object's calls return and its pauses end, that the sweep
looks again and again at the container of an attempt that stays live (`WF`: the check interval; once the
attempt is over nobody looks, and `WatchedIsTimed` promises nothing), that the platform does not refuse
the timeout of a container that stays up for ever (`SF`), that the waits of the supervisor end (`WF`: they
have timeouts), that not every signal it sends is refused, and that a process that was sent SIGKILL ends. The
runner is not assumed to exit otherwise, nor the container to go.

`CHECK_DEADLOCK` is on in the runs of `Scheduler` and `Jitney`: time can always pass. Nothing is said
about the liveness of the tool's commands: they wait for people, and end.

## Proofs

All theorems are for arbitrary constants that satisfy the assumptions of their modules: any set of
numbered jobs, any number of attempts and deliveries, any capacities, timeouts and tick above zero;
any number of commands, any times, any history limit above zero, any scenarios whose receipts have a
fitting history and are of commands that are over; any deployments and repositories; any versions, and any number of failed requests and
commands that die. They assume nothing about the environment beyond the specification they are about,
except where it is said below (`NoStrayWithoutCrash`, `ArmedAlwaysTimed`, `LivingAlwaysSpared`).

* `SchedulerProofs`: `TypeCorrect`, `OneViable`, `PendingRowsFresh`, `AssignmentsSound`,
  `References`, `NoneForgotten`. They rest on one inductive invariant,
  `IInv == Typed /\ Consistent /\ OnlyRowStarting`. The checked invariants are not inductive by
  themselves. `Typed` adds that the sweep holds a row exactly where its segments use one.
  `Consistent` collects what the tables say of one another and adds that a job whose attempt is
  only created or starting is not shown as waiting for its runner. `OnlyRowStarting` adds that the
  attempt the sweep provisions is the only one that can be starting for its job, which is why a
  provisioning that returns late cannot leave a job waiting for an attempt that is gone. There is
  one lemma per handler and per segment of the sweep, and the theorems follow from the lemmas.
* `LedgerProofs`: `ImplementsLedger`, that each step of the Scheduler opens, binds or closes an
  attempt of the ledger or leaves it alone; `BoundForever` and `RevivedByAssignment` then follow
  from the ledger's own steps. `DrainedForGood` adds that a suspended Scheduler makes no new row
  (`SuspendedKnown`), so that what becomes active after the drain is an attempt that is revived.
* `BoundsProofs`: `WakesInTime`, `NeverAsleep`, `CapacityKept`. The wake-up invariant needs, beyond
  `DeadlinesWatched`, `AlarmSoon`: while a sweep is under way the alarm is unset or at most one
  tick away. Capacity needs `Bounded`: the sets of pending jobs and active attempts are finite,
  and each step moves their cardinalities by at most one.
* `JitneyProofs`: `JitneyRunsScheduler` (so everything above holds of the composed system),
  `WorldTyped`, `AssignmentsTrue`, `ConclusionsTrue`. `Truthful` is the conjunction of the two
  safety properties. The invariant behind it, `WorldInv`, says what an answer in flight still
  guarantees when it is used: a claim, once made, is never taken back, a
  conclusion never changes, and only the deletion of the run makes it unknown.
  `RunningAlwaysWatched` holds under every fault. Its invariant adds to `RunningJobWatched` what an
  answer under way means for it: "queued" ends a conclusion check without settling the job, and it does no
  harm because whatever made the job run since the question also left its attempt running.
  `NoStrayWithoutCrash` is for every configuration without the faults `crash` and `reclaim`, which
  are the two that do leave a container behind (`stray_container.cfg`; a failed reclaim is not
  repeated). Its invariant `ContainersOwned` says that only the attempt being provisioned is starting,
  that no container is up before its start, and none after its destruction while the reclaim goes on.

* `LeaseProofs`: `LeasesTyped` and `HistoryAlwaysMatchesLease`. finish and repair close the last entry
  of a history, whoever wrote it. The invariant `AllFit` says of every receipt that is stored, still
  served, held or about to be written that its last entry is open, and its lease's own, exactly
  while it has a lease; `AllMine` that what a running command holds, what its calls began from and
  what they are about to write carries that command's own lease or none. Whether a read is stale or a race was
  lost plays no part in it: a store call tests the lease of the value it has read and writes what it
  computed from that value.
  `LoserAlwaysStops` is about time, for any staleness, any times and any number of updates. Its invariant
  `Timed` says of every command which calls it makes at which stage, that it writes no lease but its own
  (`Mine`), and that its heartbeat is punctual; and of a command whose lease is not the stored one (`Losing`)
  that its lease is served for no longer than the staleness since it went, so that its next renewal, a
  heartbeat after the last one that may have read it, is over by then and finds out. If a write that was under
  way brings the lease back, it is no loser, and when the lease goes again the count begins anew. Nothing
  bounds how often two commands that record update after update could do that to each other, so the theorem
  says how long a loser goes on, not how long two commands overlap.
  `LivingAlwaysSpared`: no receipt ever says that repair freed the lease of a command that lives, when the
  leases of its role outlast its updates, `Ttl > Heartbeat + 2 + PollLimit + Heartbeat * Records[r]` (two
  ticks for the start of the command's tick and a stale read of the lease). It looks at the role of that command
  only, so that with the times of the code it is about every upgrade, rollback, destroy and repair
  (`OneRecordOutlasted`), whatever deploys run beside them; of an adoption, which updates twice, and a deploy
  the property is false. It assumes a heartbeat that takes time and a store that forgets a replaced value
  within the tick (`staleness = 0`); with `staleness` = 1 TLC checks a repair. The proof has two invariants above `Timed`. `Numbered` orders what a command may find
  by the stamps of receipts and leases: a receipt with its lease is as new as the call that wrote it, so a
  read that asks for one at least as new as what the command holds finds the latest lease or one that a
  record put back. `Phased` says how long every such lease lasts. While the effect runs the heartbeat is
  in one of four phases: early (no renewal is due), timely (it is at work, and each tick it
  is behind is the work of a record), doomed (the lease it waits for is gone, so that the command ends when its polls are
  over, before its leases do), awaited (written in the last tick and read in this one). Each renewal a record
  undoes costs a heartbeat and one of the records the role has left, so their number bounds the loss.
* `LifecycleProofs`: `LifecycleTypes`, `OkAlwaysHealthy`, `ActiveAlwaysServes`,
  `RemovedOnlyWhenGone`, `NothingEverLeftOver`, for the about fifty steps of all commands, their failures and their crashes.
  `OkIsHealthy` needs only types, because `list` looks at every resource it vouches for.
  `ActiveServes` needs `Serving`: what each command knows at each of its steps of the Worker, the tags
  and the intake switch, so that the step that settles the receipt as active finds them as it records
  them. And it needs `GitHubServes`: at which steps the App is known to answer with nothing suspended, because
  a health gate has passed or the command has spoken with it, and that the installations and markers a receipt records
  are there until a destroy begins. `RemovedWithResources` needs `Accounted`: at each step of a rollback and of a destroy, what is
  already gone or counted as residue, and that the markers of a receipt that
  records installations can still be reached, through the installation or through the Worker's secrets;
  an adoption that was interrupted, resumed and then destroyed must not lose them on the way. Two lemmas
  show that no step but the end of a rollback and that of a destroy removes a receipt.
  `NothingLeftOver` needs `Pushed`, which follows every tag a command pushes to the step that records or
  removes it: while nothing has failed, what a command holds is what is stored, and each tag in the registry is
  recorded, given up for good, listed for removal, or the one the command is at. One case needs more
  (`Named`): a command that deploys a version the receipt names already pushes that version's tag, which is
  the tag recorded beside it. It is not when an adoption was resumed by another version of the tool; but then
  the recorded version is one whose tag was given up, if the deployment passes the health gate at all. A suspended
  installation does not pass it; `Suspension` says that it belongs to a receipt that records it until a destroy
  deletes it or counts it as residue, so that no install or adoption meets one.
* `AccountProofs`: `AccountTyped`, `OneOwnerAlways`, `NoOrphanMarkerEver`, `NamespaceAlwaysSpares`.
  `VerifiedAreMarked` (what is verified carries the claim's own marker) makes `OneOwner` inductive: a claim
  verifies nothing that carries another's marker, and no command removes a marker but its own.
  `MarkersAreRecorded` says that a command that lets go has every marked repository still to visit; it rests on
  `VisitsAreRecorded`. `SeenAtFirstListing` follows a receipt from the first listing to the second:
  by then it is `Lag` old, so the second listing shows it. This is where `Lag <= Delay` is needed,
  the assumption the minute of the code (`store.ts:238`) is chosen for.

* `ContainerProofs`: `ContainerTyped`; `ArmedAlwaysTimed`, under the assumption `~Overlapping`, from
  `ArmedInv`: while a start is outstanding nothing is armed and no probe is under way, so the container
  it starts is not taken for timed; `ContractKept`, the refinement of `ContainerContract`, which needs
  no assumption: every answer of a start looks at whether the container is up at that moment.

TLC has checked every strengthening named here as an invariant, before its proof: `ContainersOwned` on the
instance of `jitney_crossing`, `Serving`, `GitHubServes`, `Accounted` and `Pushed` on that of
`deployment`, the parts of `Timed` on that of `leases`, `Numbered` and `Phased` on
scenarios with a lease of 6 and a heartbeat of 2, and, with a lease of 10, on a command that makes two updates. Two attempts ended in a correction. The compensation of an upgrade (`Restore` in
`VersionChange`) took the excuse away from a receipt whose version and tag differ, although it only goes
back to that receipt; and `RepairSparesTheLiving` is false of a deploy (see above).

Only model-checked: the liveness properties, because liveness is out of the prover's reach. Every other
property of a passing run is a theorem, `RepairSparesTheLiving` in part. What the theorems leave open is said by their assumptions:
`LivingAlwaysSpared` is the part of `RepairSparesTheLiving` that is true: not for a deploy and an adoption,
of which it is false, nor for ticks shorter than the store's staleness.

## Not modelled

The paging of GitHub's lists, rate limits, token lifetimes, the HMAC of webhooks, SQL errors
(`SchedulerStorageError`: the handler fails as a whole and its transaction is rolled back, which is
a delivery or an alarm that did not happen), the retry back-off of alarms, and deployments of new
code during a sweep other than as a restart. `suspendIntake` awaits storage before it sets its flag
and is one step here, because the platform delivers an object no other event while it waits for its
storage. `Jitney` and `RunnerContainer` are not composed: `Jitney` has a container that is up or not, and
`ContainerContract` is what the two have in common. The inactivity timeout is there as a fact about a
container; that it passes is one of the ways a container is lost. Processes of the runner's session that
outlive its leader die with the container and are left out.

Of the tool: its arguments, prompts and output (the shell), the manifest flow and tokens of the App,
polling intervals, decoding of receipts, the export of a receipt before a destroy, `--keep-partial`
(which is a crash here), orphans and account findings of `list`, and a plain `create` of receipts no
command calls. The drain of an upgrade ends or times out without the attempts of `Scheduler`: the
two are not composed. Several repositories and installations of one deployment are one in `Lifecycle`; `Account` has several
repositories. What people do on GitHub themselves (suspend or delete an installation, delete a marker) is left out. A command whose
lease is dead waits for its expiry in `Leases` only.

## Seen and not stated as a property

Reading the code for the models turned up some more of what it does. Where a model has it, it is an excuse
of a property, or is left out by a constraint named above.

* `list` (`list-command.ts`, around line 83) takes the Worker's "the installations differ" for no
  installation, which a receipt without recorded installations agrees with: that drift is not shown.
* The copied tag is removed after the lease (`upgrade.ts:159`), when the next upgrade may have
  activated the same tag. `NoCleanup` keeps it out of `image_pruned`, where the tag is lost already.
* A destroy that is given up leaves the installations suspended, and a later resume opens the intake only
  (`uninstall.ts:210`): GitHub sends such a deployment nothing. One that deleted markers or installations leaves
  a deployment that an upgrade settles as active (excuse `half done`); `list` shows both.
* A deploy that dies can be neither run again (`deploy.ts:127`: there is a receipt) nor repaired
  (repair sends the user to deploy). An adoption that finds a Worker with its secrets can take the
  receipt over, and a destroy removes it.
* A bootstrap that fails after its push leaves a tag in the registry that no receipt records
  (`install-platform.ts:287`); `NothingLeftOver` is for behaviours without failures.
* A tag another receipt records protects the tag of that name in every repository.
* Once its Worker is gone, a destroy that is run again takes the recorded repositories for residue
  each time (`destroy-platform.ts:116`), so a receipt with installations is never removed then.
* The last check of a destroy does not wait for the listings to show what was deleted.


## Plan

1. Done: `Scheduler`, `AttemptLedger`, `Jitney` and their proofs.
2. Done: `Leases`; `Deployment` with `VersionChange`, `Installation`, `Teardown` and `Lifecycle`;
   `Account`; `LeaseProofs` and `AccountProofs`.
3. Done: `LifecycleProofs`, with `RemovedWithResources`, `OkIsHealthy`, `ActiveServes` and
   `NothingLeftOver`.
4. Done: `RunnerContainer` with the supervisor, `ContainerContract`, `ContainerProofs`. Left: `Jitney`
   composed with `ContainerContract` by INSTANCE.
5. Done for the Scheduler: `DrainedStaysDrained`. Left: the drain of `VersionChange` composed with it.
6. Done: `RunningJobWatched`, `NoStrayContainer`, `LoserStops` for every staleness. Left: `LivingAlwaysSpared`
   for a store that is stale across ticks.
