--------------------------- MODULE ContainerProofs ---------------------------
(***************************************************************************)
(* Proofs about RunnerContainer, for any number of retries.                *)
(***************************************************************************)
EXTENDS RunnerContainer, TLAPS

USE DEF Shutdown

(* Types: the container with what runs in it, and the object *)

ContainerOK ==
    /\ running \in BOOLEAN /\ timed \in BOOLEAN /\ notified \in BOOLEAN
    /\ supervisor \in {"none", "boot", "launched", "waiting", "exited"} \cup Shutdown
    /\ runner \in {"none", "up", "exited"}
    /\ told \in {"nothing"} \cup Shutdown
    /\ timed => running
    /\ supervisor # "none" => running

ObjectOK ==
    /\ armed \in BOOLEAN
    /\ start \in {"idle", "try", "arming", "pause"}
    /\ answer \in {"none", "started", "failed", "lost"}
    /\ probe \in {"idle", "arming"}
    /\ live \in BOOLEAN

TriesOK == tries \in 0 .. MaxRetries

LEMMA TypeParts == TypeOK <=> ContainerOK /\ ObjectOK /\ TriesOK
BY DEF TypeOK, ContainerOK, ObjectOK, TriesOK

LEMMA TypeInit == Init => ContainerOK /\ ObjectOK /\ TriesOK
<1>1. Init => ContainerOK
  BY DEF Init, ContainerOK
<1>2. Init => ObjectOK
  BY DEF Init, ObjectOK
<1>3. Init => TriesOK
  BY ContainerConstants DEF Init, TriesOK
<1> QED
  BY <1>1, <1>2, <1>3

LEMMA ContainerOKStep == ContainerOK /\ [Next]_vars => ContainerOK'
<1> SUFFICES ASSUME ContainerOK, [Next]_vars PROVE ContainerOK'
  OBVIOUS
<1> USE DEF ContainerOK
<1>1. CASE Up
  BY <1>1 DEF Up
<1>2. CASE Down
  BY <1>2 DEF Down
<1>3. CASE SameContainer
  BY <1>3 DEF SameContainer, session
<1>4. CASE TimeoutSet
  BY <1>4 DEF TimeoutSet, session
<1>5. CASE Restart
  <2>1. CASE timed' = FALSE /\ UNCHANGED <<running, supervisor, session>>
    BY <2>1 DEF session
  <2> QED
    BY <1>2, <1>3, <1>5, <2>1 DEF Restart
<1>6. CASE Launch
  BY <1>6 DEF Launch, SupervisorStep
<1>7. CASE Notify
  BY <1>7 DEF Notify, SupervisorStep, session
<1>8. CASE Signal
  BY <1>8 DEF Signal, SupervisorStep
<1>9. CASE RunnerExits
  BY <1>9 DEF RunnerExits, SupervisorStep
<1>10. CASE RunnerDone
  BY <1>10 DEF RunnerDone, SupervisorStep, session
<1>11. CASE BeginShutdown
  BY <1>11 DEF BeginShutdown, Send, SupervisorStep
<1>12. CASE Escalate
  BY <1>12 DEF Escalate, Send, LastResort, SupervisorStep
<1>13. CASE UNCHANGED vars
  BY <1>13 DEF vars, session
<1> QED
  BY <1>1, <1>2, <1>3, <1>4, <1>5, <1>6, <1>7, <1>8, <1>9, <1>10, <1>11, <1>12, <1>13
  DEF Next, ObjectStep, ContainerStep, StartAttempt, Try, StartArmed, TryAgain, Probe,
      ProbeArmed, Destroy, AttemptLives, AttemptEnds, ContainerExits, LoseContainer, TimeoutRefused

LEMMA ObjectOKStep == ObjectOK /\ [Next]_vars => ObjectOK'
<1> SUFFICES ASSUME ObjectOK, [Next]_vars PROVE ObjectOK'
  OBVIOUS
<1> USE DEF ObjectOK
<1>1. CASE Restart
  BY <1>1 DEF Restart
<1>2. CASE StartAttempt
  BY <1>2 DEF StartAttempt
<1>3. CASE Try
  BY <1>3 DEF Try, TryFailed, Answered
<1>4. CASE StartArmed
  BY <1>4 DEF StartArmed, TimeoutSet, TimeoutRefused, NotArmed, TryFailed, Answered
<1>5. CASE TryAgain
  BY <1>5 DEF TryAgain
<1>6. CASE Probe
  BY <1>6 DEF Probe
<1>7. CASE ProbeArmed
  BY <1>7 DEF ProbeArmed, TimeoutSet, TimeoutRefused, NotArmed
<1>8. CASE UNCHANGED object /\ live' \in BOOLEAN
  BY <1>8 DEF object
<1> QED
  BY <1>1, <1>2, <1>3, <1>4, <1>5, <1>6, <1>7, <1>8
  DEF Next, vars, ObjectStep, ContainerStep, Destroy, AttemptLives, AttemptEnds,
      ContainerExits, LoseContainer, Launch,
      Notify, Signal, RunnerExits, RunnerDone, BeginShutdown, Escalate, SupervisorStep

LEMMA TriesOKStep == TriesOK /\ [Next]_vars => TriesOK'
<1> SUFFICES ASSUME TriesOK, [Next]_vars PROVE TriesOK'
  OBVIOUS
<1>1. CASE UNCHANGED tries
  BY <1>1 DEF TriesOK
<1>2. CASE tries' = 0
  BY <1>2, ContainerConstants DEF TriesOK
<1>3. CASE TryFailed
  BY <1>3, ContainerConstants DEF TryFailed, Answered, TriesOK
<1> QED
  BY <1>1, <1>2, <1>3
  DEF Next, vars, object, ObjectStep, ContainerStep, Restart, StartAttempt, Try, Answered,
      StartArmed, TryAgain, Probe, ProbeArmed, Destroy, AttemptLives, AttemptEnds,
      ContainerExits, LoseContainer, Launch,
      Notify, Signal, RunnerExits, RunnerDone, BeginShutdown, Escalate, SupervisorStep

\* The state of the object, of the supervisor and of the runner keeps its type: the
\* retries never pass their bound, and nothing survives its container.
THEOREM ContainerTyped == Spec => []TypeOK
<1>1. Spec => [](ContainerOK /\ ObjectOK /\ TriesOK)
  BY TypeInit, ContainerOKStep, ObjectOKStep, TriesOKStep, PTL DEF Spec
<1> QED
  BY <1>1, TypeParts, PTL

-----------------------------------------------------------------------------
(* What the object remembers of the timeout is true *)

\* While a start is outstanding nothing is armed and no probe is under way: probes
\* come after the answer, and an object that was restarted forgets both.
ArmedInv ==
    /\ start # "idle" => answer = "none" /\ ~armed /\ probe = "idle"
    /\ answer # "started" => ~armed /\ probe = "idle"
    /\ ArmedMeansTimed

LEMMA ArmedInit == Init => ArmedInv
BY DEF Init, ArmedInv, ArmedMeansTimed

LEMMA ArmedStep == TypeOK /\ ~Overlapping /\ ArmedInv /\ [Next]_vars => ArmedInv'
<1> SUFFICES ASSUME TypeOK, ~Overlapping, ArmedInv, [Next]_vars PROVE ArmedInv'
  OBVIOUS
<1> USE DEF ArmedInv, ArmedMeansTimed
<1>1. CASE ContainerExits \/ LoseContainer \/ Destroy
  BY <1>1 DEF ContainerExits, LoseContainer, Destroy, Down, object
<1>2. CASE Restart
  BY <1>2 DEF TypeOK, Restart
<1>3. CASE StartAttempt
  BY <1>3 DEF TypeOK, StartAttempt, SameContainer
<1>4. CASE Try
  BY <1>4 DEF TypeOK, Try, Answered, TryFailed
<1>5. CASE StartArmed
  BY <1>5 DEF TypeOK, StartArmed, TimeoutSet, TimeoutRefused, NotArmed, Answered, TryFailed
<1>6. CASE TryAgain
  BY <1>6 DEF TryAgain, SameContainer
<1>7. CASE Probe
  BY <1>7 DEF Probe, Watchable, SameContainer
<1>8. CASE ProbeArmed
  BY <1>8 DEF ProbeArmed, TimeoutSet, TimeoutRefused, NotArmed, SameContainer, Down
<1>9. CASE SupervisorStep
  BY <1>9 DEF SupervisorStep, object
<1>10. CASE UNCHANGED vars
  BY <1>10 DEF vars, object
<1>11. CASE AttemptLives \/ AttemptEnds
  BY <1>11 DEF AttemptLives, AttemptEnds, SameContainer, object
<1> QED
  BY <1>1, <1>2, <1>3, <1>4, <1>5, <1>6, <1>7, <1>8, <1>9, <1>10, <1>11
  DEF Next, ObjectStep, ContainerStep, Launch, Notify, Signal, RunnerExits, RunnerDone,
      BeginShutdown, Escalate

\* When no probe comes during a start, a container the object remembers as armed has its
\* inactivity timeout: no loss of a container, refusal of the platform or restart of
\* the object makes it forget one that stays up.
THEOREM ArmedAlwaysTimed == ASSUME ~Overlapping PROVE Spec => []ArmedMeansTimed
<1>1. Init => ArmedInv
  BY ArmedInit
<1>2. TypeOK /\ ArmedInv /\ [Next]_vars => ArmedInv'
  BY ArmedStep
<1>3. ArmedInv => ArmedMeansTimed
  BY DEF ArmedInv
<1> QED
  BY <1>1, <1>2, <1>3, ContainerTyped, PTL DEF Spec

-----------------------------------------------------------------------------
(* The object keeps the contract the Scheduler relies on *)

LEMMA ContractInit == Init => Contract!Init
BY DEF Init, Contract!Init

\* The answer to an error of a try: with the container up it is a success.
LEMMA FailedTryKeepsContract ==
    ASSUME TypeOK, start # "idle", TryFailed, running' \in {running, FALSE}
    PROVE  [Contract!Next]_Contract!vars
<1>1. CASE running'
  BY <1>1 DEF TypeOK, TryFailed, Answered, Contract!Next, Contract!Succeed
<1>2. CASE ~running' /\ tries < MaxRetries
  BY <1>2 DEF TypeOK, TryFailed, Contract!Next, Contract!GoDown
<1>3. CASE ~running' /\ ~(tries < MaxRetries)
  BY <1>3 DEF TypeOK, TryFailed, Answered, Contract!Next, Contract!Refuse
<1> QED
  BY <1>1, <1>2, <1>3

LEMMA ContractStep == TypeOK /\ [Next]_vars => [Contract!Next]_Contract!vars
<1> SUFFICES ASSUME TypeOK, [Next]_vars PROVE [Contract!Next]_Contract!vars
  OBVIOUS
<1> USE DEF Contract!Next, Contract!vars
<1>1. CASE ContainerExits \/ LoseContainer \/ Destroy
  BY <1>1 DEF ContainerExits, LoseContainer, Destroy, Down, object, Contract!GoDown
<1>2. CASE Restart
  <2>1. UNCHANGED running \/ running' = FALSE
    BY <1>2 DEF Restart, Down, SameContainer
  <2>2. start' = "idle" /\ answer' = IF start = "idle" THEN answer ELSE "lost"
    BY <1>2 DEF Restart
  <2>3. CASE start = "idle"
    BY <2>1, <2>2, <2>3 DEF Contract!GoDown
  <2>4. CASE start # "idle"
    <3>1. (start # "idle") = TRUE /\ (start' # "idle") = FALSE
      BY <2>2, <2>4
    <3>2. running' \in {running, FALSE}
      BY <2>1
    <3> QED
      BY <2>2, <2>4, <3>1, <3>2 DEF Contract!Lose
  <2> QED
    BY <2>3, <2>4
<1>3. CASE StartAttempt
  BY <1>3 DEF StartAttempt, SameContainer, Contract!Ask
<1>4. CASE Try
  <2>1. CASE ~running /\ SameContainer /\ TryFailed
    BY <1>4, <2>1, FailedTryKeepsContract DEF Try, SameContainer
  <2>2. CASE /\ IF running THEN SameContainer ELSE Up
             /\ armed /\ Answered("started")
    BY <1>4, <2>2 DEF TypeOK, Try, SameContainer, Up, Answered, Contract!Succeed
  <2>3. CASE /\ IF running THEN SameContainer ELSE Up
             /\ ~armed /\ start' = "arming" /\ UNCHANGED <<tries, answer>>
    BY <1>4, <2>3 DEF TypeOK, Try, SameContainer, Up, Contract!ComeUp
  <2> QED
    BY <1>4, <2>1, <2>2, <2>3 DEF Try
<1>5. CASE StartArmed
  <2>1. CASE TimeoutSet /\ Answered("started")
    BY <1>5, <2>1 DEF TypeOK, StartArmed, TimeoutSet, Answered, Contract!Succeed
  <2>2. CASE TimeoutRefused /\ TryFailed
    BY <1>5, <2>2, FailedTryKeepsContract DEF StartArmed, TimeoutRefused, SameContainer, Down
  <2> QED
    BY <1>5, <2>1, <2>2 DEF StartArmed
<1>6. CASE TryAgain
  BY <1>6 DEF TryAgain, SameContainer
<1>7. CASE Probe
  BY <1>7 DEF Probe, SameContainer
<1>8. CASE ProbeArmed
  BY <1>8 DEF ProbeArmed, TimeoutSet, TimeoutRefused, SameContainer, Down, Contract!GoDown
<1>9. CASE SupervisorStep
  BY <1>9 DEF SupervisorStep, object
<1>10. CASE UNCHANGED vars
  BY <1>10 DEF vars, object
<1>11. CASE AttemptLives \/ AttemptEnds
  BY <1>11 DEF AttemptLives, AttemptEnds, SameContainer, object
<1> QED
  BY <1>1, <1>2, <1>3, <1>4, <1>5, <1>6, <1>7, <1>8, <1>9, <1>10, <1>11
  DEF Next, ObjectStep, ContainerStep, Launch, Notify, Signal, RunnerExits, RunnerDone,
      BeginShutdown, Escalate

\* Every step of the object, of its container and of the supervisor in it is one the
\* contract allows, also with a probe during a start: a start answers "failed" only
\* when no container is up, and none comes up outside a start.
THEOREM ContractKept == Spec => KeepsContract
<1> QED
  BY ContractInit, ContractStep, ContainerTyped, PTL DEF Spec, KeepsContract, Contract!Spec
=============================================================================
