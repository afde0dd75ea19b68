----------------------------- MODULE Deployment -----------------------------
(***************************************************************************)
(* One named deployment: the resources the command-line tool manages on    *)
(* Cloudflare and GitHub, the receipt that records them, and the list of   *)
(* what is wrong with them (cli/src/list.ts).  The commands are in the     *)
(* modules that extend this one.                                           *)
(*                                                                         *)
(* One command runs at a time, and a call of the receipt store is a single *)
(* step: the module Leases is about the store and its lease.  A request    *)
(* may fail with or without having had its effect, at most MaxFaults times *)
(* in a behaviour; a command may die at any step, at most MaxCrashes       *)
(* times, and leaves a lease nobody renews.                                *)
(***************************************************************************)
EXTENDS Naturals, FiniteSets

CONSTANTS
    Version,        \* versions of Jitney; an image tag is named by its version
    None,           \* no version, no tag
    Unpushed,       \* what tags.current holds before an image is pushed
    NoReceipt,
    NoPlan,
    Shared,         \* the image tags that receipts of other deployments record
    MaxFaults,      \* bound: requests that fail
    MaxCrashes      \* bound: commands that die

ASSUME DeploymentConstants ==
    /\ None \notin Version /\ Unpushed \notin Version /\ None # Unpushed
    /\ Shared \subseteq Version
    /\ MaxFaults \in Nat /\ MaxCrashes \in Nat

Tag == Version \cup {Unpushed}
Phase == {"installing", "active", "upgrading", "repairing", "destroying"}
Operation == {"install", "adopt", "upgrade", "rollback", "destroy", "repair"}
Residue == {"worker", "application", "marker", "tag"}

\* versions and cloudflare.tags of a receipt.
Versions == [current : Version, previous : Version \cup {None}]
Tags == [current : Tag, previous : Tag \cup {None}]

\* DeploymentReceipt: application, app and installed say whether the container
\* application, the GitHub App and its installations are in the inventory.  A
\* lease is held by the command that runs, or dead.
Receipt == [phase : Phase, lease : {"none", "held", "dead"},
            versions : Versions, tags : Tags,
            application : BOOLEAN, app : BOOLEAN, installed : BOOLEAN,
            residue : SUBSET Residue]

ASSUME ReceiptAssumption == NoReceipt \notin Receipt

VARIABLES
    stack,      \* the Worker, its App secrets and the container application
    registry,   \* the image tags in the deployment's repository
    intake,     \* the Scheduler's intake switch
    github,     \* the App, its installations, the markers of their repositories
    receipt,    \* what the store holds under the deployment's name
    held,       \* the copy of the receipt the command that runs holds
    command,    \* the command that runs, and how far it is
    plan,       \* a repair that was planned and waits for a confirmation
    cleanup,    \* copied tags that upgrades which are over still have to remove
    abandoned,  \* the tags no receipt has to account for: those from before it, and those
                \* an adoption or the undoing of a change that failed leaves (for the
                \* properties)
    excuse,     \* why an active receipt may be wrong (for the properties)
    faults, crashes

resources == <<stack, registry, intake, github>>
records == <<receipt, held>>
rest == <<plan, cleanup, abandoned, excuse, crashes>>
vars == <<stack, registry, intake, github, receipt, held, command, plan, cleanup, abandoned,
          excuse, faults, crashes>>

NoStack == [worker |-> None, application |-> None, secrets |-> FALSE]
\* suspended: some installation of the App is suspended.
NoGitHub == [app |-> FALSE, installed |-> FALSE, suspended |-> FALSE, markers |-> {}]

\* What a command keeps in its own variables: the version it moves to, the
\* versions and tags it found, the tag it copied, whether it has drained the
\* Worker, whether it has the App's credentials, the residue it has seen.
Idle == [op |-> "none", step |-> "idle", target |-> None, tag |-> None,
         versions |-> None, tags |-> None, copied |-> None,
         drained |-> FALSE, credentials |-> FALSE, residue |-> {}]

\* A deployment is installed from nothing, or adopted: made by hand, or by a
\* deploy whose receipt was lost (then its own marker is still there).
Init ==
    /\ \/ stack = NoStack /\ registry = {} /\ github = NoGitHub
       \/ \E v \in Version, installed \in BOOLEAN, markers \in {{}, {"own"}, {"foreign"}} :
             /\ stack = [worker |-> v, application |-> v, secrets |-> TRUE]
             /\ registry = {v}
             /\ github = [app |-> TRUE, installed |-> installed, suspended |-> FALSE,
                          markers |-> markers]
    /\ abandoned = registry
    /\ intake = "open"
    /\ receipt = NoReceipt /\ held = NoReceipt
    /\ command = Idle /\ plan = NoPlan /\ cleanup = {} /\ excuse = {}
    /\ faults = 0 /\ crashes = 0

-----------------------------------------------------------------------------
(* Steps of a command *)

At(ops, step) == command.op \in ops /\ command.step = step
Goto(step) == command' = [command EXCEPT !.step = step]
Works == faults' = faults
Fails == faults < MaxFaults /\ faults' = faults + 1

\* A command may begin when no lease is recorded, whatever the phase is.
CanBegin == command = Idle /\ receipt # NoReceipt /\ receipt.lease = "none"
Acquire(phase) ==
    /\ receipt' = [receipt EXCEPT !.phase = phase, !.lease = "held"]
    /\ held' = receipt'

\* A change or a repair does not ask for the phase.  It takes over what an
\* operation that is not finished left behind, an installation or a destroy that
\* is half done on GitHub too.
TakenOver == CASE receipt.phase \in {"active", "repairing"} -> {}
               [] receipt.phase \in {"installing", "destroying"} -> {"revived", "half done"}
               [] OTHER -> {"revived"}

\* requireLease: only the command itself can have released the lease.
LeaseHeld == receipt # NoReceipt /\ receipt.lease = "held"

\* updateOperation.  A failed call may have written the receipt or not; the
\* command's copy stays what it was.
Record(new, next, failed) ==
    \/ LeaseHeld /\ receipt' = new /\ held' = new /\ Works /\ Goto(next)
    \/ Fails /\ receipt' \in {receipt, new} /\ held' = held /\ Goto(failed)

\* finishOperation: the phase and the lease change in one write.
Settled(phase) == [receipt EXCEPT !.phase = phase, !.lease = "none"]

\* The command is over and leaves r.  A lease it has not released is renewed by
\* nobody; until it expires every command is refused, which is left out.
Over(r) ==
    /\ receipt' = IF r # NoReceipt /\ r.lease = "held" THEN [r EXCEPT !.lease = "dead"] ELSE r
    /\ held' = NoReceipt
    /\ command' = Idle

\* finish as the last thing a command does: it may fail, with or without effect.
SettleAndEnd(phase) ==
    \/ Works /\ Over(IF LeaseHeld THEN Settled(phase) ELSE receipt)
    \/ Fails /\ LeaseHeld /\ (Over(receipt) \/ Over(Settled(phase)))

\* The process dies, or the renewal that fences the command fails.
Crash ==
    /\ command # Idle
    /\ crashes < MaxCrashes
    /\ crashes' = crashes + 1
    /\ Over(receipt)
    /\ plan' = IF command.op = "repair" THEN NoPlan ELSE plan
    /\ UNCHANGED <<resources, cleanup, abandoned, excuse, faults>>

-----------------------------------------------------------------------------
(* Resources *)

\* Alchemy deploys the resources one by one and pushes the image first; a run
\* that fails leaves some of them new.  A Worker keeps the secrets it has.
DeployedTo(v, secrets) ==
    /\ registry' = registry \cup {v}
    /\ stack' = [worker |-> v, application |-> v, secrets |-> secrets]
    /\ intake' = IF stack.worker = None THEN "open" ELSE intake

PartlyDeployedTo(v, secrets) ==
    /\ registry' \in {registry, registry \cup {v}}
    /\ stack' \in {stack, [stack EXCEPT !.worker = v, !.secrets = secrets]}
                \cup (IF v \in registry'
                      THEN {[stack EXCEPT !.application = v],
                            [worker |-> v, application |-> v, secrets |-> secrets]}
                      ELSE {})
    /\ intake' = IF stack.worker = None THEN "open" ELSE intake

Removed == stack' = NoStack /\ intake' = "open"
PartlyRemoved ==
    /\ \/ stack' = stack \/ stack' = [stack EXCEPT !.application = None]
       \/ stack' = [stack EXCEPT !.worker = None, !.secrets = FALSE] \/ stack' = NoStack
    /\ intake' = IF stack'.worker = None THEN "open" ELSE intake

\* The health gate reads the lifecycle status, which answers "ok" for the App when
\* the Worker can list its installations and their repositories; the repositories
\* of a suspended installation cannot be listed.
PassesHealthGate == stack.secrets /\ github.app /\ ~github.suspended

\* A lifecycle call of a Worker that is gone answers None and changes nothing; a
\* Worker without the App's secrets throws before it does anything.
Answers == stack.worker = None \/ stack.secrets
IntakeSetTo(value) == intake' = IF stack.worker = None THEN intake ELSE value

RecordedTags(t) == {t.current, t.previous} \ {None}

\* An image tag is deleted unless another receipt records a tag of that name.
Pruned(tags) == registry \ (tags \ Shared)

-----------------------------------------------------------------------------
(* list: what is wrong with a deployment, as far as the probes that answer    *)
(* show.  down is the set of planes that do not answer.                       *)

WorkerFindings(down) ==
    IF "cloudflare" \in down THEN {"unknown"}
    ELSE IF stack.worker = None THEN {"missing"}
    ELSE IF stack.worker # receipt.versions.current THEN {"drifted"}
    ELSE {}

ApplicationFindings(down) ==
    IF "cloudflare" \in down THEN {"unknown"}
    ELSE IF ~receipt.application \/ stack.application = None THEN {"missing"}
    ELSE IF stack.application # receipt.tags.current THEN {"drifted"}
    ELSE {}

RegistryFindings(down) ==
    IF "cloudflare" \in down THEN {"unknown"}
    ELSE IF RecordedTags(receipt.tags) \subseteq registry THEN {}
    ELSE {"missing"}

\* lifecycleStatus: the Worker reads the marker of each recorded repository.
OwnershipFindings ==
    CASE Cardinality(github.markers) > 1 -> {"unknown"}
      [] github.markers = {} -> {"missing"}
      [] github.markers = {"foreign"} -> {"drifted"}
      [] OTHER -> {}

\* The Worker compares the installations it sees with the receipt, and says no more
\* than that they differ: the command takes that for no installation at all, which
\* is no difference to a receipt that records none.
GitHubFindings(down) ==
    IF ~receipt.app THEN {"missing"}
    ELSE IF "github" \in down THEN {"unknown"}
    ELSE IF ~github.app THEN {"missing"}
    ELSE IF "cloudflare" \in down \/ ~stack.secrets \/ github.suspended THEN {"unknown"}
    ELSE IF ~receipt.installed THEN {}
    ELSE IF ~github.installed THEN {"drifted"}
    ELSE OwnershipFindings

ReleaseFindings(down) == IF "release" \in down THEN {"unknown"} ELSE {}

Findings(down) ==
    WorkerFindings(down) \cup ApplicationFindings(down) \cup RegistryFindings(down)
    \cup GitHubFindings(down) \cup ReleaseFindings(down)

\* statusFromFindings.  Mutant: a probe that fails says nothing is wrong.
HealthUnlessKnownBad(found) ==
    IF "missing" \in found THEN "missing"
    ELSE IF "drifted" \in found THEN "drifted"
    ELSE "ok"
HealthOf(found) ==
    IF "missing" \in found THEN "missing"
    ELSE IF "drifted" \in found THEN "drifted"
    ELSE IF "unknown" \in found THEN "unknown"
    ELSE "ok"

Health(down) == HealthOf(Findings(down))
=============================================================================
