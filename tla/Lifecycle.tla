----------------------------- MODULE Lifecycle -----------------------------
(***************************************************************************)
(* The life of a deployment: every command of the command-line tool that    *)
(* writes its receipt (VersionChange, Installation, Teardown), one after    *)
(* the other, with requests that fail and commands that die; and what the   *)
(* receipt is worth to the next command and to the operator who lists the   *)
(* deployments.                                                             *)
(***************************************************************************)
EXTENDS VersionChange, Installation, Teardown

Next == ChangeStep \/ InstallStep \/ TeardownStep \/ Crash

Spec == Init /\ [][Next]_vars

-----------------------------------------------------------------------------
(* Properties *)

Excuse == {"revived", "half done", "intake", "answer lost", "resumed with another version"}

\* Every variable has its type; a command that runs has a step of its own and a
\* plan to repair is there while a repair runs.
TypeOK ==
    /\ stack \in [worker : Version \cup {None}, application : Version \cup {None},
                  secrets : BOOLEAN]
    /\ registry \in SUBSET Version
    /\ intake \in {"open", "suspended"}
    /\ github \in [app : BOOLEAN, installed : BOOLEAN, suspended : BOOLEAN,
                   markers : SUBSET {"own", "foreign"}]
    /\ receipt \in Receipt \cup {NoReceipt}
    /\ held \in Receipt \cup {NoReceipt}
    /\ command = Idle \/ command.op \in Operation
    /\ command.residue \in SUBSET Residue
    /\ plan \in Plan \cup {NoPlan}
    /\ command.op = "repair" => plan # NoPlan
    /\ cleanup \in SUBSET Version
    /\ abandoned \in SUBSET Version
    /\ excuse \in SUBSET Excuse
    /\ faults \in 0 .. MaxFaults
    /\ crashes \in 0 .. MaxCrashes

\* No command runs, nobody's lease is recorded and the receipt says that the last
\* command ended well.
AtRest == command = Idle /\ receipt # NoReceipt /\ receipt.lease = "none"
SettledActive == AtRest /\ receipt.phase = "active"

\* A receipt that is settled as active tells the truth: the Worker and its
\* containers run the version it records, from the tag it records, the intake is
\* open and the App answers with no installation suspended, whatever failed on the
\* way (a change that fails is undone, finish writes the phase last); and the
\* installations it records are there, with the marker by which the deployment owns
\* their repositories.  The excuses are the ways the code has of breaking this,
\* each noted at the step that takes it.  A change that goes well puts the Worker
\* and the intake right again, and does nothing for an installation or a marker
\* that a half-done destroy deleted.
ActiveServes ==
    SettledActive =>
        /\ excuse \subseteq {"half done"} =>
             /\ stack.worker = receipt.versions.current
             /\ stack.application = receipt.versions.current
             /\ receipt.tags.current = receipt.versions.current
             /\ PassesHealthGate
             /\ intake = "open"
        /\ "half done" \notin excuse /\ receipt.installed =>
             github.installed /\ "own" \in github.markers

\* While no request fails and no command dies, whatever a command pushed to the
\* registry is recorded in the receipt when the command is over or still to be
\* removed (otherReceiptTags, removeCopiedTag, pruneAfterSuccess, rollback).
NothingLeftOver ==
    command = Idle /\ faults = 0 /\ crashes = 0 =>
        registry \subseteq abandoned \cup Shared \cup cleanup
                           \cup (IF receipt = NoReceipt THEN {} ELSE RecordedTags(receipt.tags))

\* The receipt is removed only after everything it records is gone: the Worker, the
\* application, the App, its installations, the markers of this deployment and the
\* image tags no other deployment records.  It is what the copy of the command
\* records that counts: a command does not know of a record whose answer was lost.
RemovedWithResources ==
    [][receipt # NoReceipt /\ receipt' = NoReceipt =>
         /\ stack' = NoStack
         /\ held.app => ~github'.app
         /\ held.installed => ~github'.installed /\ "own" \notin github'.markers
         /\ RecordedTags(held.tags) \cap registry' \subseteq Shared]_vars

\* What jitney list calls "ok" is a deployment that is all there: the recorded
\* version in the Worker, the recorded image in the registry and in the
\* containers, the App with its secrets, and the repositories the receipt records
\* marked as this deployment's and no other's, and no installation suspended.  A plane
\* that does not answer never counts as healthy.
OkIsHealthy ==
    receipt # NoReceipt =>
        \A down \in {{}, {"cloudflare"}, {"github"}, {"release"}} :
            Health(down) = "ok" =>
                /\ down = {}
                /\ stack.worker = receipt.versions.current
                /\ stack.application = receipt.tags.current
                /\ RecordedTags(receipt.tags) \subseteq registry
                /\ PassesHealthGate
                /\ receipt.installed => github.installed /\ github.markers = {"own"}

\* The image of the running containers is in the registry ("The image tags this
\* receipt keeps alive: current and previous, when set").
RunningImageKept ==
    receipt # NoReceipt /\ receipt.application /\ stack.application # None =>
        stack.application \in registry

\* After an upgrade that ended well the Worker runs the version of the receipt.
UpgradeDelivers ==
    SettledActive => stack.worker = receipt.versions.current
=============================================================================
