--------------------------- MODULE AttemptLedger ---------------------------
(***************************************************************************)
(* What the Scheduler promises about runner attempts, without pending rows,*)
(* deadlines, sweeps or remote calls.  Each job has at most one open       *)
(* attempt at a time and its attempts are numbered in the order they were  *)
(* opened.  A job is bound to a runner once and for all, and a runner to a *)
(* job.  An attempt that is over stays over, unless its runner turns out   *)
(* to have claimed a job after all.                                        *)
(***************************************************************************)
EXTENDS Integers

CONSTANTS Jobs, MaxAttempts, None

Runners == Jobs \X (1..MaxAttempts)

VARIABLES
  phase,     \* "none", "open", "busy" or "over"
  boundTo    \* the runner that ran each job, or None

ledger == <<phase, boundTo>>

Phases == {"none", "open", "busy", "over"}

LedgerTypeOK ==
  /\ phase \in [Runners -> Phases]
  /\ boundTo \in [Jobs -> Runners \cup {None}]

LedgerInit ==
  /\ phase = [r \in Runners |-> "none"]
  /\ boundTo = [j \in Jobs |-> None]

Open(j, n) ==
  /\ \A m \in 1..MaxAttempts : phase[<<j, m>>] # "open"
  /\ \A m \in 1..MaxAttempts : phase[<<j, m>>] # "none" <=> m < n
  /\ phase' = [phase EXCEPT ![<<j, n>>] = "open"]
  /\ UNCHANGED boundTo

\* The job's own open attempts are no longer needed and may end with the binding.
Bind(j, r) ==
  /\ boundTo[j] = None
  /\ \A k \in Jobs : boundTo[k] # r
  /\ phase[r] # "none"
  /\ boundTo' = [boundTo EXCEPT ![j] = r]
  /\ \E superseded \in SUBSET {q \in Runners \ {r} : q[1] = j /\ phase[q] = "open"} :
       phase' = [q \in Runners |-> IF q = r THEN "busy"
                                   ELSE IF q \in superseded THEN "over" ELSE phase[q]]

Close(r) ==
  /\ phase[r] \in {"open", "busy"}
  /\ phase' = [phase EXCEPT ![r] = "over"]
  /\ UNCHANGED boundTo

LedgerNext ==
  \/ \E j \in Jobs, n \in 1..MaxAttempts : Open(j, n)
  \/ \E j \in Jobs, r \in Runners : Bind(j, r)
  \/ \E r \in Runners : Close(r)

LedgerSpec == LedgerInit /\ [][LedgerNext]_ledger

=============================================================================
