---------------------------- MODULE Installation ----------------------------
(***************************************************************************)
(* deploy and adopt: cli/src/install.ts, install-platform.ts, deploy.ts,    *)
(* cloudflare-inventory.ts, adopt.ts and adopt-platform.ts.  deploy makes   *)
(* everything and, when a step fails, removes what it made; adopt puts a    *)
(* receipt on what is there and never removes anything.                     *)
(***************************************************************************)
EXTENDS Deployment

\* createDeploymentReceipt and createWithInstallLease.
FreshReceipt(v) ==
    [phase |-> "installing", lease |-> "held",
     versions |-> [current |-> v, previous |-> None],
     tags |-> [current |-> Unpushed, previous |-> None],
     application |-> FALSE, app |-> FALSE, installed |-> FALSE, residue |-> {}]

Creates(new, op, step) ==
    \/ /\ Works /\ receipt' = new /\ held' = new
       /\ command' = [Idle EXCEPT !.op = op, !.step = step, !.target = new.versions.current]
    \/ Fails /\ (Over(receipt) \/ Over(new))

\* A deploy refuses a name that has a receipt, a Worker or an application.
BeginInstall ==
    /\ command = Idle
    /\ receipt = NoReceipt
    /\ stack.worker = None /\ stack.application = None
    /\ \E v \in Version : Creates(FreshReceipt(v), "install", "bootstrap")
    /\ excuse' = {}
    /\ UNCHANGED <<resources, plan, cleanup, abandoned, crashes>>

Bootstrap ==
    /\ At({"install"}, "bootstrap")
    /\ \/ Works /\ DeployedTo(command.target, FALSE) /\ Goto("record stack")
       \/ Fails /\ PartlyDeployedTo(command.target, FALSE) /\ Goto("release")
    /\ UNCHANGED <<github, records, rest>>

RecordStack ==
    /\ At({"install"}, "record stack")
    /\ Record([receipt EXCEPT !.application = TRUE, !.tags.current = command.target],
              "create app", "release")
    /\ UNCHANGED <<resources, rest>>

\* GitHub may have made an App whose credentials never arrive.  An App that is new
\* has no installation.
NewApp == [app |-> TRUE, installed |-> FALSE, suspended |-> FALSE, markers |-> github.markers]
CreateApp ==
    /\ At({"install"}, "create app")
    /\ \/ /\ Works /\ github' = NewApp
          /\ command' = [command EXCEPT !.step = "record app", !.credentials = TRUE]
       \/ Fails /\ github' \in {github, NewApp} /\ Goto("release")
    /\ UNCHANGED <<stack, registry, intake, records, rest>>

RecordApp ==
    /\ At({"install"}, "record app")
    /\ Record([receipt EXCEPT !.app = TRUE], "configure", "release")
    /\ UNCHANGED <<resources, rest>>

\* activate: the same stack again, with the App's secrets.
Configure ==
    /\ At({"install"}, "configure")
    /\ \/ Works /\ DeployedTo(command.target, TRUE) /\ Goto("install app")
       \/ Fails /\ PartlyDeployedTo(command.target, TRUE) /\ Goto("release")
    /\ UNCHANGED <<github, records, rest>>

\* The user installs the App, or the command stops waiting.
InstallApp ==
    /\ At({"install"}, "install app")
    /\ Works
    /\ \/ github' = [github EXCEPT !.installed = TRUE] /\ Goto("record installations")
       \/ github' \in {github, [github EXCEPT !.installed = TRUE]} /\ Goto("release")
    /\ UNCHANGED <<stack, registry, intake, records, rest>>

RecordInstallations ==
    /\ At({"install"}, "record installations")
    /\ Record([receipt EXCEPT !.installed = TRUE], "claim", "release")
    /\ UNCHANGED <<resources, rest>>

\* claimRepositories: the module Account is about the race of two claims.
Marked == [github EXCEPT !.markers = @ \cup {"own"}]
Claim ==
    /\ At({"install"}, "claim")
    /\ \/ Works /\ "foreign" \notin github.markers /\ github' = Marked /\ Goto("health")
       \/ Works /\ "foreign" \in github.markers /\ github' = github /\ Goto("release")
       \/ Fails /\ github' \in {github, Marked} /\ Goto("release")
    /\ UNCHANGED <<stack, registry, intake, records, rest>>

CheckHealth ==
    /\ At({"install"}, "health")
    /\ \/ Works /\ stack.worker = command.target /\ Goto("finish")
       \/ Fails /\ Goto("release")
    /\ UNCHANGED <<resources, records, rest>>

\* As with FinishChange, what was installed is removed even when the receipt says
\* active and only the answer is lost.
FinishInstall ==
    /\ At({"install"}, "finish")
    /\ \/ Works /\ LeaseHeld /\ Over(Settled("active")) /\ UNCHANGED excuse
       \/ /\ Fails
          /\ \/ UNCHANGED <<receipt, excuse>>
             \/ /\ receipt' = Settled("active")
                /\ excuse' = excuse \cup {"answer lost", "half done"}
          /\ Goto("release")
          /\ UNCHANGED held
    /\ UNCHANGED <<resources, plan, cleanup, abandoned, crashes>>

-----------------------------------------------------------------------------
(* rollback, from the copy of the receipt the command holds.  A failure in    *)
(* there leaves the receipt.                                                  *)

\* Mutant: an install that fails keeps its markers.
ReleasesNothing == github
Released == IF held.installed THEN [github EXCEPT !.markers = @ \ {"own"}] ELSE github

Release ==
    /\ At({"install"}, "release")
    /\ \/ /\ Works /\ Goto("remove stack") /\ UNCHANGED records
          /\ github' = IF command.credentials THEN Released ELSE github
       \/ Fails /\ command.credentials /\ github' \in {github, Released} /\ Over(receipt)
    /\ UNCHANGED <<stack, registry, intake, rest>>

\* waitForDeploymentRemoval is part of it.
RemoveStack ==
    /\ At({"install"}, "remove stack")
    /\ \/ Works /\ Removed /\ Goto("remove image") /\ UNCHANGED records
       \/ Fails /\ PartlyRemoved /\ Over(receipt)
    /\ UNCHANGED <<registry, github, rest>>

\* Mutant: the image is not deleted.
ImageStays == {}
InstalledImage == IF held.application THEN {held.tags.current} ELSE {}

RemoveImage ==
    /\ At({"install"}, "remove image")
    /\ \/ Works /\ registry' = registry \ InstalledImage /\ Goto("delete app") /\ UNCHANGED records
       \/ Fails /\ registry' \in {registry, registry \ InstalledImage} /\ Over(receipt)
    /\ UNCHANGED <<stack, intake, github, rest>>

\* The user deletes the App in the browser, or the command stops waiting.
DeletePartialApp ==
    /\ At({"install"}, "delete app")
    /\ Works
    /\ \/ /\ Goto("delete receipt") /\ UNCHANGED records
          /\ github' = IF command.credentials
                       THEN [NewApp EXCEPT !.app = FALSE] ELSE github
       \/ command.credentials /\ Over(receipt) /\ UNCHANGED github
    /\ UNCHANGED <<stack, registry, intake, rest>>

DeletePartialReceipt ==
    /\ At({"install"}, "delete receipt")
    /\ \/ Works /\ Over(IF LeaseHeld THEN NoReceipt ELSE receipt)
       \/ Fails /\ LeaseHeld /\ (Over(receipt) \/ Over(NoReceipt))
    /\ UNCHANGED <<resources, rest>>

-----------------------------------------------------------------------------
(* adopt *)

\* newReceipt: the Worker has its classes and secrets, and nobody else's receipt
\* records the application or the Worker's id.  beginAdoption: an adoption that
\* failed is resumed with the version of the command that resumes it; the receipt
\* keeps the version of the command that made it.
BeginAdopt ==
    /\ command = Idle
    /\ \E v \in Version :
          \/ /\ receipt = NoReceipt
             /\ stack.worker # None /\ stack.secrets /\ stack.application # None
             /\ Creates([FreshReceipt(v) EXCEPT !.application = TRUE], "adopt", "deploy over")
             /\ excuse' = {}
          \/ /\ CanBegin
             /\ receipt.phase = "installing"
             /\ Acquire("installing")
             /\ command' = [Idle EXCEPT !.op = "adopt", !.step = "deploy over", !.target = v]
             /\ excuse' = IF v = receipt.versions.current THEN excuse
                          ELSE excuse \cup {"resumed with another version"}
             /\ UNCHANGED faults
    /\ UNCHANGED <<resources, plan, cleanup, abandoned, crashes>>

DeployOver ==
    /\ At({"adopt"}, "deploy over")
    /\ LET secrets == stack.secrets
       IN  \/ /\ Works /\ PassesHealthGate
              /\ DeployedTo(command.target, secrets) /\ Goto("record adopted")
           \/ /\ IF PassesHealthGate THEN Fails ELSE Works
              /\ PartlyDeployedTo(command.target, secrets) /\ Goto("leave installing")
    /\ UNCHANGED <<github, records, rest>>

RecordAdopted ==
    /\ At({"adopt"}, "record adopted")
    /\ Record([receipt EXCEPT !.application = TRUE,
                              !.tags = [current |-> command.target, previous |-> None]],
              "inventory", "leave installing")
    /\ UNCHANGED <<resources, rest>>

Inventory ==
    /\ At({"adopt"}, "inventory")
    /\ Record([receipt EXCEPT !.app = TRUE, !.installed = github.installed],
              "ownership", "leave installing")
    /\ UNCHANGED <<resources, rest>>

\* Every recorded repository has to answer, none may carry a foreign marker, and
\* the missing ones are written.
ClaimMissing ==
    /\ At({"adopt"}, "ownership")
    /\ \/ /\ Works
          /\ IF ~held.installed THEN github' = github /\ Goto("finish")
             ELSE IF "foreign" \in github.markers
             THEN github' = github /\ Goto("leave installing")
             ELSE github' = Marked /\ Goto("finish")
       \/ Fails /\ github' \in {github, Marked} /\ Goto("leave installing")
    /\ UNCHANGED <<stack, registry, intake, records, rest>>

FinishAdopt ==
    /\ At({"adopt"}, "finish")
    /\ \/ Works /\ LeaseHeld /\ Over(Settled("active"))
       \/ /\ Fails /\ receipt' \in {receipt, Settled("active")} /\ held' = held
          /\ Goto("leave installing")
    /\ UNCHANGED <<resources, rest>>

\* An adoption that fails removes nothing.
LeaveInstalling ==
    /\ At({"adopt"}, "leave installing")
    /\ SettleAndEnd("installing")
    /\ abandoned' = abandoned \cup registry
    /\ UNCHANGED <<resources, plan, cleanup, excuse, crashes>>

InstallStep ==
    \/ BeginInstall \/ Bootstrap \/ RecordStack \/ CreateApp \/ RecordApp \/ Configure
    \/ InstallApp \/ RecordInstallations \/ Claim \/ CheckHealth \/ FinishInstall
    \/ Release \/ RemoveStack \/ RemoveImage \/ DeletePartialApp \/ DeletePartialReceipt
    \/ BeginAdopt \/ DeployOver \/ RecordAdopted \/ Inventory \/ ClaimMissing
    \/ FinishAdopt \/ LeaveInstalling
=============================================================================
