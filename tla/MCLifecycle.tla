---- MODULE MCLifecycle ----
(* Small instances of Lifecycle: the versions are model values, and those no   *)
(* other deployment records are interchangeable.                               *)
EXTENDS Lifecycle, TLC

Symmetric == Permutations(Version \ Shared)

Troubled == faults + crashes > 0

\* The versions this deployment has to do with.
InUse == registry \cup {stack.worker, stack.application, command.target}
         \cup (IF receipt = NoReceipt THEN {}
               ELSE {receipt.versions.current, receipt.versions.previous})

\* Bounds.  Two requests fail or one command dies; a repair is planned while no
\* more than one has failed, and waits while nothing else runs but a destroy.
LittleTrouble ==
    /\ faults + 2 * crashes <= 2
    /\ plan = NoPlan \/ (faults <= 1 /\ command.op \in {"none", "repair", "destroy"})

\* The third version, whose tag another deployment records, is in play while the
\* commands are one after the other, none of them fails or follows on one that is
\* not finished, and the repositories are nobody else's.
OneByOne == cleanup # {} => command = Idle
Plain == /\ ~Troubled /\ plan = NoPlan /\ excuse = {}
         /\ OneByOne
         /\ "foreign" \notin github.markers

Small == LittleTrouble' /\ (InUse' \cap Shared # {} => Plain')

\* NothingLeftOver alone reads abandoned, and only while nothing has failed.
Looked == <<resources, records, command, plan, cleanup, excuse, faults, crashes,
            IF Troubled THEN {} ELSE abandoned>>

\* Nothing is cleaned up after its lease is released.
NoCleanup == cleanup = {}
====
