------------------------- MODULE ContainerContract -------------------------
(***************************************************************************)
(* What the Scheduler may rely on when it asks for the container of a      *)
(* runner attempt: it comes up only while a start is outstanding, a start  *)
(* that failed has left none, and one that succeeded has one.              *)
(***************************************************************************)
VARIABLES
    up,         \* the container is running
    starting,   \* a start is outstanding
    answer      \* how the last start ended

vars == <<up, starting, answer>>

Init == up = FALSE /\ starting = FALSE /\ answer = "none"

Ask == ~starting /\ starting' = TRUE /\ answer' = "none" /\ UNCHANGED up

ComeUp == starting /\ up' = TRUE /\ UNCHANGED <<starting, answer>>

\* The runner is done, the container was destroyed, or the platform lost it.
GoDown == up' = FALSE /\ UNCHANGED <<starting, answer>>

Succeed == starting /\ up' = TRUE /\ starting' = FALSE /\ answer' = "started"

\* A container that is lost while a start waits for it can end the start at once.
Refuse == starting /\ up' = FALSE /\ starting' = FALSE /\ answer' = "failed"

\* The object that was asked is gone, and maybe its container.
Lose == starting /\ up' \in {up, FALSE} /\ starting' = FALSE /\ answer' = "lost"

Next == Ask \/ ComeUp \/ GoDown \/ Succeed \/ Refuse \/ Lose

Spec == Init /\ [][Next]_vars
=============================================================================
