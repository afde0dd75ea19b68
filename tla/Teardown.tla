------------------------------ MODULE Teardown ------------------------------
(***************************************************************************)
(* destroy and repair: cli/src/destroy.ts, destroy-platform.ts,             *)
(* alchemy/destroy-deployment.ts, the Worker's side of both                 *)
(* (worker/src/uninstall.ts, lifecycle-status.ts) and cli/src/repair.ts.    *)
(***************************************************************************)
EXTENDS Deployment

BeginDestroy ==
    /\ CanBegin
    /\ Acquire("destroying")
    /\ command' = [Idle EXCEPT !.op = "destroy",
                               !.step = IF receipt.installed THEN "suspend" ELSE "delete app"]
    /\ UNCHANGED <<resources, plan, cleanup, abandoned, excuse, faults, crashes>>

\* Only the App can lift a suspension again; an installation that is gone has none.
Locked(g) == IF g.installed THEN [g EXCEPT !.suspended = TRUE] ELSE g
Unlocked(g) == [g EXCEPT !.suspended = FALSE]
Gone(g) == [Unlocked(g) EXCEPT !.installed = FALSE]

\* "suspend" of the Worker: the intake, then every installation.  Nothing but
\* destroy lifts their suspension.
Locks == IF stack.worker = None THEN github ELSE Locked(github)
SuspendAll ==
    /\ At({"destroy"}, "suspend")
    /\ \/ Works /\ Answers /\ IntakeSetTo("suspended") /\ github' = Locks /\ Goto("drain")
       \/ Works /\ ~Answers /\ UNCHANGED <<intake, github>> /\ Goto("give up")
       \/ /\ Fails
          /\ \/ UNCHANGED <<intake, github>>
             \/ IntakeSetTo("suspended") /\ github' \in {github, Locks}
          /\ Goto("give up")
    /\ UNCHANGED <<stack, registry, records, rest>>

\* With --now, or when the Worker is gone, nothing is waited for.
DrainAll ==
    /\ At({"destroy"}, "drain")
    /\ Works
    /\ Goto("delete ownership") \/ Goto("give up")
    /\ UNCHANGED <<resources, records, rest>>

\* deleteOwnership of the Worker deletes the environment by its name, with the
\* token of an installation that is not suspended meanwhile; what is gone already
\* counts as deleted, and that it is not suspended again is ignored.  Without the
\* Worker every recorded repository is taken for residue.
Unmarked == IF github.installed THEN [github EXCEPT !.markers = @ \ {"own"}] ELSE github
DeleteOwnership ==
    /\ At({"destroy"}, "delete ownership")
    /\ \/ /\ stack.worker # None
          /\ \/ Works /\ github' = Locked(Unmarked)
             \/ Fails /\ github' = Unlocked(Unmarked)
          /\ Goto("delete installations")
       \/ /\ Works /\ stack.worker = None /\ github' = github
          /\ command' = [command EXCEPT !.step = "delete installations", !.residue = {"marker"}]
       \/ /\ Fails
          /\ github' \in {github} \cup (IF stack.worker = None THEN {}
                                      ELSE {Unlocked(github), Locked(Unmarked), Unlocked(Unmarked)})
          /\ Goto("give up")
    /\ UNCHANGED <<stack, registry, intake, records, rest>>

Uninstalled == IF stack.worker = None THEN github ELSE Gone(github)
DeleteInstallations ==
    /\ At({"destroy"}, "delete installations")
    /\ \/ Works /\ github' = Uninstalled /\ Goto("delete app")
       \/ Fails /\ github' \in {github, Uninstalled} /\ Goto("give up")
    /\ UNCHANGED <<stack, registry, intake, records, rest>>

\* The user deletes a recorded App in the browser, or the command stops waiting.
DeleteApp ==
    /\ At({"destroy"}, "delete app")
    /\ Works
    /\ \/ ~held.app /\ UNCHANGED github /\ Goto("destroy stack")
       \/ /\ held.app
          /\ \/ github' = [Gone(github) EXCEPT !.app = FALSE] /\ Goto("destroy stack")
             \/ github.app /\ UNCHANGED github /\ Goto("give up")
    /\ UNCHANGED <<stack, registry, intake, records, rest>>

DestroyStack ==
    /\ At({"destroy"}, "destroy stack")
    /\ \/ Works /\ Removed /\ Goto("prune")
       \/ Fails /\ PartlyRemoved /\ Goto("give up")
    /\ UNCHANGED <<registry, github, records, rest>>

PruneAll ==
    /\ At({"destroy"}, "prune")
    /\ \/ Works /\ registry' = Pruned(RecordedTags(held.tags)) /\ Goto("verify")
       \/ /\ Fails
          /\ registry' \in {Pruned(tags) : tags \in SUBSET RecordedTags(held.tags)}
          /\ Goto("give up")
    /\ UNCHANGED <<stack, intake, github, records, rest>>

\* verify: what the accounts still show.  Mutant: what the earlier steps found is
\* not counted.
SeenOnly(shown) == {"tag" : t \in RecordedTags(held.tags) \cap registry} \cup shown
ResidueSeen(shown) ==
    command.residue \cup shown \cup {"tag" : t \in RecordedTags(held.tags) \cap registry}

\* A listing may still show what was deleted a moment ago.
Verify ==
    /\ At({"destroy"}, "verify")
    /\ \/ Works /\ command' = [command EXCEPT !.step = "settle", !.residue = ResidueSeen({})]
       \/ /\ Fails
          /\ \/ \E shown \in {{"worker"}, {"application"}, {"worker", "application"}} :
                   command' = [command EXCEPT !.step = "settle", !.residue = ResidueSeen(shown)]
             \/ Goto("give up")
    /\ UNCHANGED <<resources, records, rest>>

\* Any residue keeps the receipt.
Settle ==
    /\ At({"destroy"}, "settle")
    /\ LET done == IF command.residue = {} THEN NoReceipt
                   ELSE [Settled("destroying") EXCEPT !.residue = command.residue]
       IN  \/ Works /\ LeaseHeld /\ Over(done)
           \/ Fails /\ receipt' \in {receipt, done} /\ held' = held /\ Goto("give up")
    /\ UNCHANGED <<resources, rest>>

GiveUp ==
    /\ At({"destroy"}, "give up")
    /\ SettleAndEnd("destroying")
    /\ UNCHANGED <<resources, rest>>

-----------------------------------------------------------------------------
(* repair *)

Plan == [release : BOOLEAN, redirect : BOOLEAN, application : BOOLEAN, ownership : BOOLEAN]

\* planRepair, under no lease or a dead one.  The probes of the Worker and of
\* GitHub may fail; an application without proof needs the user to name it.  A plan
\* with nothing to do is not kept.
PlanRepair ==
    /\ plan = NoPlan
    /\ receipt # NoReceipt
    /\ receipt.lease # "held"
    /\ \E new \in Plan, named, reached \in BOOLEAN :
          /\ new = [release |-> receipt.lease = "dead",
                    redirect |-> receipt.phase \in {"installing", "destroying", "upgrading"},
                    application |-> /\ stack.application # None
                                    /\ \/ named
                                       \/ (~receipt.application /\ stack.worker # None),
                    ownership |-> /\ reached /\ stack.worker # None /\ PassesHealthGate
                                  /\ github.installed /\ receipt.installed
                                  /\ github.markers = {}]
          /\ new.release \/ (~new.redirect /\ (new.application \/ new.ownership))
          /\ plan' = new
    /\ UNCHANGED <<resources, records, command, cleanup, abandoned, excuse, faults, crashes>>

\* The user declines, or there is nothing left to do.
DropPlan ==
    /\ plan # NoPlan
    /\ command.op # "repair"
    /\ plan' = NoPlan
    /\ UNCHANGED <<resources, records, command, cleanup, abandoned, excuse, faults, crashes>>

\* releaseExpiredLeaseForRepair reads the receipt again; the rest of the plan is
\* what was seen before the user answered.
ReleaseExpired ==
    /\ command = Idle
    /\ plan # NoPlan /\ plan.release
    /\ receipt # NoReceipt
    /\ receipt' = [receipt EXCEPT !.lease = "none"]
    /\ plan' = IF plan.redirect \/ ~(plan.application \/ plan.ownership) THEN NoPlan
               ELSE [plan EXCEPT !.release = FALSE]
    /\ UNCHANGED <<resources, held, command, cleanup, abandoned, excuse, faults, crashes>>

BeginRepair ==
    /\ CanBegin
    /\ plan # NoPlan /\ ~plan.release /\ ~plan.redirect
    /\ plan.application \/ plan.ownership
    /\ Acquire("repairing")
    /\ command' = [Idle EXCEPT !.op = "repair",
                               !.step = IF plan.application THEN "record application"
                                        ELSE "rewrite ownership"]
    /\ excuse' = excuse \cup TakenOver
    /\ UNCHANGED <<resources, plan, cleanup, abandoned, faults, crashes>>

RecordApplication ==
    /\ At({"repair"}, "record application")
    /\ Record([receipt EXCEPT !.application = TRUE],
              IF plan.ownership THEN "rewrite ownership" ELSE "finish", "give up")
    /\ UNCHANGED <<resources, rest>>

\* rewriteLifecycleOwnership of the Worker creates the environment again.
Rewritten == IF stack.worker # None /\ PassesHealthGate /\ github.installed /\ held.installed
             THEN [github EXCEPT !.markers = @ \cup {"own"}] ELSE github
RewriteOwnership ==
    /\ At({"repair"}, "rewrite ownership")
    /\ \/ Works /\ Rewritten # github /\ github' = Rewritten /\ Goto("finish")
       \/ /\ IF Rewritten # github THEN Fails ELSE Works
          /\ github' \in {github, Rewritten}
          /\ Goto("give up")
    /\ UNCHANGED <<stack, registry, intake, records, rest>>

FinishRepair ==
    /\ At({"repair"}, "finish")
    /\ \/ Works /\ LeaseHeld /\ Over(Settled("active")) /\ plan' = NoPlan
       \/ /\ Fails /\ receipt' \in {receipt, Settled("active")} /\ held' = held
          /\ Goto("give up") /\ UNCHANGED plan
    /\ UNCHANGED <<resources, cleanup, abandoned, excuse, crashes>>

\* A repair that fails says active as well.
GiveUpRepair ==
    /\ At({"repair"}, "give up")
    /\ SettleAndEnd("active")
    /\ plan' = NoPlan
    /\ UNCHANGED <<resources, cleanup, abandoned, excuse, crashes>>

TeardownStep ==
    \/ BeginDestroy \/ SuspendAll \/ DrainAll \/ DeleteOwnership \/ DeleteInstallations
    \/ DeleteApp \/ DestroyStack \/ PruneAll \/ Verify \/ Settle \/ GiveUp
    \/ PlanRepair \/ DropPlan \/ ReleaseExpired \/ BeginRepair \/ RecordApplication
    \/ RewriteOwnership \/ FinishRepair \/ GiveUpRepair
=============================================================================
