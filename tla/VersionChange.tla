--------------------------- MODULE VersionChange ---------------------------
(***************************************************************************)
(* upgrade and rollback (cli/src/upgrade.ts, upgrade-platform.ts): record   *)
(* what is wanted, drain the Worker, deploy, prune the image that falls out *)
(* of the receipt, resume, settle; and what is done when a step fails.      *)
(***************************************************************************)
EXTENDS Deployment

Change == {"upgrade", "rollback"}
Desired == [versions |-> [current |-> command.target, previous |-> command.versions.current],
            tags |-> [current |-> command.tag, previous |-> command.tags.current]]

\* A change that ends well leaves no excuse but versions that never fitted the tags
\* and what is missing on GitHub: it deploys the Worker again and nothing else.
Stays == excuse \cap {"resumed with another version", "half done"}

BeginChange(op, v) ==
    /\ CanBegin
    /\ Acquire("upgrading")
    /\ command' = [Idle EXCEPT !.op = op, !.step = "prepare", !.target = v,
                               !.versions = receipt.versions, !.tags = receipt.tags]
    /\ excuse' = excuse \cup TakenOver
    /\ UNCHANGED <<resources, plan, cleanup, abandoned, faults, crashes>>

BeginUpgrade == \E v \in Version : BeginChange("upgrade", v)
BeginRollback == BeginChange("rollback", None)

\* An upgrade to the version the receipt records settles it and does nothing.
UpgradeToSame ==
    /\ At({"upgrade"}, "prepare")
    /\ command.target = command.versions.current
    /\ \/ Works /\ LeaseHeld /\ Over(Settled("active"))
       \/ Fails /\ receipt' \in {receipt, Settled("active")} /\ held' = held /\ Goto("restore")
    /\ UNCHANGED <<resources, rest>>

\* targetFor and prepare: an upgrade copies the image, a rollback needs the one
\* it goes back to.
PrepareUpgrade ==
    /\ At({"upgrade"}, "prepare")
    /\ command.target # command.versions.current
    /\ \/ /\ Works
          /\ registry' = registry \cup {command.target}
          /\ command' = [command EXCEPT !.step = "record", !.tag = command.target,
                                        !.copied = command.target]
       \/ Fails /\ registry' \in {registry, registry \cup {command.target}} /\ Goto("restore")
    /\ UNCHANGED <<stack, intake, github, records, rest>>

PrepareRollback ==
    /\ At({"rollback"}, "prepare")
    /\ LET there == /\ command.versions.previous # None
                    /\ command.tags.previous # None
                    /\ command.tags.previous \in registry
       IN  \/ /\ there /\ Works
              /\ command' = [command EXCEPT !.step = "record",
                                            !.target = command.versions.previous,
                                            !.tag = command.tags.previous]
           \/ (IF there THEN Fails ELSE Works) /\ Goto("restore")
    /\ UNCHANGED <<resources, records, rest>>

RecordDesired ==
    /\ At(Change, "record")
    /\ Record([receipt EXCEPT !.versions = Desired.versions, !.tags = Desired.tags],
              "suspend", "restore")
    /\ UNCHANGED <<resources, rest>>

Suspend ==
    /\ At(Change, "suspend")
    /\ \/ Works /\ Answers /\ IntakeSetTo("suspended") /\ Goto("drain")
       \/ Works /\ ~Answers /\ UNCHANGED intake /\ Goto("reopen")
       \/ Fails /\ (UNCHANGED intake \/ IntakeSetTo("suspended")) /\ Goto("reopen")
    /\ UNCHANGED <<stack, registry, github, records, rest>>

\* The attempts end within an hour or they do not; a Worker that is gone cannot
\* be drained.
Drain ==
    /\ At(Change, "drain")
    /\ \/ stack.worker # None /\ command' = [command EXCEPT !.step = "activate", !.drained = TRUE]
       \/ Goto("reopen")
    /\ Works
    /\ UNCHANGED <<resources, records, rest>>

\* onError of drain: the answer of this resume_intake is ignored.
Reopen ==
    /\ At(Change, "reopen")
    /\ \/ Works /\ Answers /\ IntakeSetTo("open") /\ UNCHANGED excuse
       \/ Works /\ ~Answers /\ UNCHANGED <<intake, excuse>>
       \/ Fails /\ UNCHANGED intake /\ excuse' = excuse \cup {"intake"}
    /\ Goto("restore")
    /\ UNCHANGED <<stack, registry, github, records, plan, cleanup, abandoned, crashes>>

Activate ==
    /\ At(Change, "activate")
    /\ \/ /\ Works /\ PassesHealthGate
          /\ DeployedTo(command.target, stack.secrets)
          /\ Goto(IF command.op = "upgrade" /\ command.tags.previous # None
                  THEN "prune" ELSE "resume")
       \/ /\ IF PassesHealthGate THEN Fails ELSE Works
          /\ PartlyDeployedTo(command.target, stack.secrets)
          /\ Goto("reactivate")
    /\ UNCHANGED <<github, records, rest>>

Prune ==
    /\ At({"upgrade"}, "prune")
    /\ \/ Works /\ registry' = Pruned({command.tags.previous}) /\ Goto("resume")
       \/ /\ Fails
          /\ registry' \in {registry, Pruned({command.tags.previous})}
          /\ Goto("reactivate")
    /\ UNCHANGED <<stack, intake, github, records, rest>>

Resume ==
    /\ At(Change, "resume")
    /\ \/ Works /\ IntakeSetTo("open") /\ Goto("finish")
       \/ Fails /\ (UNCHANGED intake \/ IntakeSetTo("open")) /\ Goto("reactivate")
    /\ UNCHANGED <<stack, registry, github, records, rest>>

\* When the receipt was written and only the answer is lost, the compensation
\* runs all the same and cannot take the receipt back.
FinishChange ==
    /\ At(Change, "finish")
    /\ \/ /\ Works /\ LeaseHeld
          /\ Over([Settled("active") EXCEPT !.versions = Desired.versions, !.tags = Desired.tags])
          /\ excuse' = Stays
       \/ /\ Fails
          /\ \/ UNCHANGED <<receipt, excuse>>
             \/ /\ receipt' = [Settled("active") EXCEPT !.versions = Desired.versions,
                                                        !.tags = Desired.tags]
                /\ excuse' = excuse \cup {"answer lost"}
          /\ Goto("reactivate")
          /\ UNCHANGED held
    /\ UNCHANGED <<resources, plan, cleanup, abandoned, crashes>>

-----------------------------------------------------------------------------
(* What a failure is answered with: before the drain the receipt is restored, *)
(* after it the Worker first.  A failure in there ends the command.           *)

Reactivate ==
    /\ At(Change, "reactivate")
    /\ \/ /\ Works /\ PassesHealthGate
          /\ DeployedTo(command.versions.current, stack.secrets)
          /\ Goto("resume original")
          /\ UNCHANGED <<records, abandoned>>
       \/ /\ IF PassesHealthGate THEN Fails ELSE Works
          /\ PartlyDeployedTo(command.versions.current, stack.secrets)
          /\ Over(receipt)
          /\ abandoned' = abandoned \cup registry'
    /\ UNCHANGED <<github, plan, cleanup, excuse, crashes>>

ResumeOriginal ==
    /\ At(Change, "resume original")
    /\ \/ Works /\ IntakeSetTo("open") /\ Goto("restore") /\ UNCHANGED records
       \/ Fails /\ (UNCHANGED intake \/ IntakeSetTo("open")) /\ Over(receipt)
    /\ UNCHANGED <<stack, registry, github, rest>>

\* Mutants: the versions the change wanted stay in the receipt; the copied tag is
\* not removed; a change that copied nothing removes it all the same.
ReceiptKeepsDesired == Settled("active")
OriginalReceipt == [Settled("active") EXCEPT !.versions = command.versions, !.tags = command.tags]

CopiedTagStays == {}
CopiedTagUnchecked == {command.copied} \ RecordedTags(command.tags)
CopiedTag == {command.copied} \ ({None} \cup RecordedTags(command.tags))

\* The lease goes with the receipt; the copied tag is removed after that.
Restore ==
    /\ At(Change, "restore")
    /\ \/ /\ Works /\ LeaseHeld
          /\ Over(OriginalReceipt)
          /\ cleanup' = cleanup \cup CopiedTag
          /\ excuse' = IF command.drained /\ command.tags.current = command.versions.current
                       THEN Stays ELSE excuse
       \/ /\ IF LeaseHeld THEN Fails ELSE Works
          /\ (Over(receipt) \/ (LeaseHeld /\ Over(OriginalReceipt)))
          /\ UNCHANGED <<cleanup, excuse>>
    /\ UNCHANGED <<resources, plan, abandoned, crashes>>

RemoveCopiedTag ==
    /\ \E tag \in cleanup :
          /\ cleanup' = cleanup \ {tag}
          /\ \/ Works /\ registry' = Pruned({tag})
             \/ Fails /\ registry' = registry
    /\ UNCHANGED <<stack, intake, github, records, command, plan, abandoned, excuse, crashes>>

ChangeStep ==
    \/ BeginUpgrade \/ BeginRollback \/ UpgradeToSame \/ PrepareUpgrade \/ PrepareRollback
    \/ RecordDesired \/ Suspend \/ Drain \/ Reopen \/ Activate \/ Prune \/ Resume \/ FinishChange
    \/ Reactivate \/ ResumeOriginal \/ Restore \/ RemoveCopiedTag
=============================================================================
