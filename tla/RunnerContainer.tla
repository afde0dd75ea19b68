-------------------------- MODULE RunnerContainer --------------------------
(***************************************************************************)
(* The container of one runner attempt: the object that controls it        *)
(* (worker/src/runner-container.ts), the supervisor inside it              *)
(* (supervisor/cmd/supervisor), and the runner the supervisor launches.    *)
(* The container platform, tini and the runner are not part of the         *)
(* repository; they are modelled from how the code uses them.              *)
(*                                                                         *)
(* The object runs one segment between two awaits at a time.  It awaits    *)
(* the platform when it sets the inactivity timeout, and the pause between *)
(* two tries; a container can go at any time meanwhile.                    *)
(***************************************************************************)
EXTENDS Naturals

CONSTANTS
    MaxRetries,     \* how often a start is tried again (14)
    Overlapping     \* a probe can come while a start is outstanding

ASSUME ContainerConstants == MaxRetries \in Nat /\ Overlapping \in BOOLEAN

VARIABLES
    running,        \* container.running
    timed,          \* the platform has an inactivity timeout for this instance
    armed,          \* what the object remembers of that
    start,          \* how far startAttempt is
    tries,          \* the retries it has made
    answer,         \* what it answered
    live,           \* the Scheduler has the attempt as one whose container must run
    probe,          \* how far isRunning is
    supervisor,     \* how far the supervisor is
    runner,         \* the leader of the runner's session
    told,           \* the last signal the session was sent
    notified        \* a signal waits in the supervisor's channel

object    == <<armed, start, tries, answer, probe>>
session   == <<runner, told, notified>>
vars      == <<running, timed, object, live, supervisor, session>>

Shutdown == {"interrupt", "terminate", "kill"}

TypeOK ==
    /\ running \in BOOLEAN /\ timed \in BOOLEAN /\ armed \in BOOLEAN
    /\ start \in {"idle", "try", "arming", "pause"}
    /\ tries \in 0 .. MaxRetries
    /\ answer \in {"none", "started", "failed", "lost"}
    /\ probe \in {"idle", "arming"}
    /\ live \in BOOLEAN
    /\ supervisor \in {"none", "boot", "launched", "waiting", "exited"} \cup Shutdown
    /\ runner \in {"none", "up", "exited"}
    /\ told \in {"nothing"} \cup Shutdown
    /\ notified \in BOOLEAN
    /\ timed => running
    /\ supervisor # "none" => running

Init ==
    /\ running = FALSE /\ timed = FALSE /\ armed = FALSE
    /\ start = "idle" /\ tries = 0 /\ answer = "none" /\ probe = "idle" /\ live = FALSE
    /\ supervisor = "none" /\ runner = "none" /\ told = "nothing" /\ notified = FALSE

-----------------------------------------------------------------------------
(* The platform *)

Up ==
    /\ running' = TRUE /\ timed' = FALSE
    /\ supervisor' = "boot" /\ runner' = "none" /\ told' = "nothing" /\ notified' = FALSE

\* Mutant: the timeout of an instance outlives it.
DownStillTimed ==
    /\ running' = FALSE /\ UNCHANGED timed
    /\ supervisor' = "none" /\ runner' = "none" /\ told' = "nothing" /\ notified' = FALSE
Down ==
    /\ running' = FALSE /\ timed' = FALSE
    /\ supervisor' = "none" /\ runner' = "none" /\ told' = "nothing" /\ notified' = FALSE

SameContainer == UNCHANGED <<running, timed, supervisor, session>>

\* tini exits with the supervisor, and the container with tini.
ContainerExits ==
    /\ supervisor = "exited"
    /\ Down
    /\ UNCHANGED <<object, live>>

\* The host fails, or the platform is done waiting.
LoseContainer ==
    /\ running
    /\ Down
    /\ UNCHANGED <<object, live>>

\* The object is evicted, or a deploy restarts it; a container that stays up may
\* have lost its timeout.
Restart ==
    /\ \/ Down
       \/ SameContainer
       \/ timed' = FALSE /\ UNCHANGED <<running, supervisor, session>>
    /\ armed' = FALSE
    /\ start' = "idle" /\ tries' = 0 /\ probe' = "idle"
    /\ answer' = IF start = "idle" THEN answer ELSE "lost"
    /\ UNCHANGED live

-----------------------------------------------------------------------------
(* startAttempt, isRunning, destroy *)

\* The Scheduler provisions an attempt once, and again when it was restarted before
\* it had an answer, which GitHub refuses while the runner is registered.
StartAttempt ==
    /\ start = "idle" /\ answer \in {"none", "lost"}
    /\ start' = "try" /\ answer' = "none"
    /\ SameContainer /\ UNCHANGED <<armed, tries, probe, live>>

Answered(a) == start' = "idle" /\ tries' = 0 /\ answer' = a

\* Mutants: an error is reported although the container is up; the pause before
\* the next try does not count.
FailedAnyway ==
    IF tries < MaxRetries
    THEN start' = "pause" /\ tries' = tries + 1 /\ UNCHANGED answer
    ELSE Answered("failed")
RetryForever ==
    IF running' THEN Answered("started")
    ELSE start' = "pause" /\ UNCHANGED <<tries, answer>>

\* An error of a try.  A runner that is up may already be running a job.
TryFailed ==
    IF running' THEN Answered("started")
    ELSE IF tries < MaxRetries
    THEN start' = "pause" /\ tries' = tries + 1 /\ UNCHANGED answer
    ELSE Answered("failed")

Try ==
    /\ start = "try"
    /\ \/ /\ IF running THEN SameContainer ELSE Up
          /\ IF armed THEN Answered("started") ELSE start' = "arming" /\ UNCHANGED <<tries, answer>>
       \/ ~running /\ SameContainer /\ TryFailed
    /\ UNCHANGED <<armed, probe, live>>

\* The timeout is set, or the platform has no such container (any more).
\* Mutant: the object takes the timeout for set whatever the platform says.
ArmedAnyway == armed' = TRUE
NotArmed == UNCHANGED armed

TimeoutSet == running /\ timed' = TRUE /\ armed' = TRUE /\ UNCHANGED <<running, supervisor, session>>
TimeoutRefused == (SameContainer \/ Down) /\ NotArmed

StartArmed ==
    /\ start = "arming"
    /\ \/ TimeoutSet /\ Answered("started")
       \/ TimeoutRefused /\ TryFailed
    /\ UNCHANGED <<probe, live>>

TryAgain ==
    /\ start = "pause"
    /\ start' = "try"
    /\ SameContainer /\ UNCHANGED <<armed, tries, answer, probe, live>>

\* Mutant: a look at the container leaves its timeout alone.
ProbeOnlyLooks == FALSE
ProbeArms == running /\ ~armed

\* The sweep looks at the attempts that wait for their job or run it, one call at a
\* time unless the Scheduler was restarted during a start.  An attempt comes to wait when
\* its start has succeeded; a job that is assigned late makes one that is over run.
Watchable == answer = "started" \/ (Overlapping /\ start # "idle")
AttemptLives ==
    /\ ~live /\ Watchable
    /\ live' = TRUE
    /\ SameContainer /\ UNCHANGED object

\* Its job is completed, its deadline passes or its container was not up: nobody looks
\* at the container again.
AttemptEnds ==
    /\ live
    /\ live' = FALSE
    /\ SameContainer /\ UNCHANGED object

Probe ==
    /\ probe = "idle"
    /\ live /\ Watchable
    /\ ProbeArms
    /\ probe' = "arming"
    /\ SameContainer /\ UNCHANGED <<armed, start, tries, answer, live>>

ProbeArmed ==
    /\ probe = "arming"
    /\ probe' = "idle"
    /\ TimeoutSet \/ TimeoutRefused
    /\ UNCHANGED <<start, tries, answer, live>>

Destroy ==
    /\ running
    /\ Down
    /\ UNCHANGED <<object, live>>

-----------------------------------------------------------------------------
(* The supervisor *)

SupervisorStep == UNCHANGED <<running, timed, object, live>>

\* run and runSession: the registration leaves the environment, the runner is
\* launched as the leader of a session, and then signals are asked for.
Launch ==
    /\ supervisor = "boot"
    /\ \/ supervisor' = "launched" /\ runner' = "up"
       \/ supervisor' = "exited" /\ UNCHANGED runner
    /\ UNCHANGED <<told, notified>> /\ SupervisorStep

Notify ==
    /\ supervisor = "launched"
    /\ supervisor' = "waiting"
    /\ UNCHANGED session /\ SupervisorStep

\* The platform stops the container: tini passes SIGTERM on.  Before the
\* supervisor has asked for signals it kills it; the channel holds one.
Signal ==
    /\ supervisor \notin {"none", "exited"}
    /\ IF supervisor \in {"boot", "launched"}
       THEN supervisor' = "exited" /\ UNCHANGED notified
       ELSE notified' = TRUE /\ UNCHANGED supervisor
    /\ UNCHANGED <<runner, told>> /\ SupervisorStep

\* The runner ends after its one job, on a signal, or on an error of its own.
RunnerExits ==
    /\ runner = "up"
    /\ runner' = "exited"
    /\ UNCHANGED <<supervisor, told, notified>> /\ SupervisorStep

\* shutdown: a signal to the session, then a wait for the leader with a timeout,
\* the last one without.  A session that is gone is no error.
Send(signal) ==
    \/ supervisor' = signal /\ told' = signal
    \/ runner = "up" /\ supervisor' = "exited" /\ UNCHANGED told

RunnerDone ==
    /\ supervisor \in {"waiting"} \cup Shutdown
    /\ runner = "exited"
    /\ supervisor' = "exited"
    /\ UNCHANGED session /\ SupervisorStep

BeginShutdown ==
    /\ supervisor = "waiting" /\ notified
    /\ Send("interrupt")
    /\ notified' = FALSE
    /\ UNCHANGED runner /\ SupervisorStep

\* Mutant: the supervisor asks politely for ever.
NeverKill == "terminate"
LastResort == "kill"

Escalate ==
    /\ \/ supervisor = "interrupt" /\ Send("terminate")
       \/ supervisor = "terminate" /\ Send(LastResort)
    /\ UNCHANGED <<runner, notified>> /\ SupervisorStep

ObjectStep ==
    \/ StartAttempt \/ Try \/ StartArmed \/ TryAgain \/ Probe \/ ProbeArmed \/ Destroy
    \/ AttemptLives \/ AttemptEnds

ContainerStep ==
    \/ Launch \/ Notify \/ Signal \/ RunnerExits \/ RunnerDone \/ BeginShutdown \/ Escalate
    \/ ContainerExits \/ LoseContainer

Next == ObjectStep \/ ContainerStep \/ Restart

Spec == Init /\ [][Next]_vars

\* The object's calls of the platform return and its pauses end; the Scheduler looks
\* again and again at the container of an attempt that stays live, and no longer; in the
\* end the platform takes the timeout of one that stays up; the supervisor's waits end and not
\* every signal it sends is refused, and a process that was sent SIGKILL ends.
Fairness ==
    /\ WF_vars(Try) /\ WF_vars(StartArmed) /\ WF_vars(TryAgain)
    /\ WF_vars(Probe) /\ WF_vars(ProbeArmed) /\ SF_vars(ProbeArmed /\ timed')
    /\ WF_vars(BeginShutdown) /\ WF_vars(Escalate /\ told' # told) /\ WF_vars(RunnerDone)
    /\ WF_vars(told = "kill" /\ RunnerExits)

FairSpec == Spec /\ Fairness

-----------------------------------------------------------------------------
(* Properties *)

Contract == INSTANCE ContainerContract WITH up <- running, starting <- start # "idle"

\* The Scheduler takes an attempt whose start failed for gone, and one that was started
\* for a container that was up: whatever the platform answers and whenever the
\* container goes, a start answers "failed" only when nothing is up ("A runner that is
\* up may already be running a Job. Never report it as failed"), and nothing comes up
\* outside a start.
KeepsContract == Contract!Spec

\* A container the object has done with has its inactivity timeout, however often
\* containers went while it was being set: the object never looks again at one it
\* remembers as armed.
ArmedMeansTimed == armed /\ running => timed

\* A container whose start succeeded without its timeout, or that lost it when the
\* object was restarted, gets one while its attempt lives, or goes: each look of the
\* sweep tries again.  After the end of the attempt nobody does.
WatchedIsTimed ==
    answer = "started" /\ live /\ running ~> timed \/ ~running \/ ~live

\* A start is answered: the tries are bounded.
StartAnswered == start # "idle" ~> start = "idle"

\* A supervisor that is told to stop ends, though the runner may exit or ignore
\* a signal at any moment and more signals may arrive ("bounded, session-wide shutdown").
ShutdownEnds == notified \/ supervisor \in Shutdown ~> supervisor \in {"none", "exited"}
=============================================================================
