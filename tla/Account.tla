------------------------------ MODULE Account ------------------------------
(***************************************************************************)
(* Several deployments in one account, and what they share: the namespace  *)
(* their receipts are stored in (cli/src/receipts/cloudflare.ts, the last   *)
(* lines of receipts/store.ts) and the repositories their Apps are          *)
(* installed on, where each leaves a marker (cli/src/                       *)
(* github-installations.ts).  Nothing but the markers and the receipts      *)
(* tells two commands that run at the same time of one another.             *)
(*                                                                         *)
(* Each deployment is deployed or adopted once and destroyed once; the      *)
(* rest of what a command does is in the module Lifecycle.  Any request of  *)
(* a command may fail.                                                     *)
(***************************************************************************)
EXTENDS Naturals

CONSTANTS
    Deployment,     \* the ids of the deployments
    Repository,     \* the repositories their Apps can be installed on
    Lag,            \* ticks until a listing of keys shows a change
    Delay           \* ticks between the two listings before a namespace is removed

\* The code takes a listing to be up to date by the time it lists again.
ASSUME AccountConstants == Lag \in Nat /\ Delay \in Nat /\ Lag <= Delay

NoNamespace == 0

\* The steps of a command, in their order.  At "active" and "stuck" no command
\* runs: the deployment is settled, or its command failed and left the receipt.
Step == {"new", "create receipt", "install app", "inspect", "claim", "verify", "finish",
         "probe", "write", "active", "release", "stuck", "unmark",
         "delete receipt", "list", "list again", "remove namespace", "gone"}

VARIABLES
    namespace,      \* the namespace titled jitney-receipts; its id, or NoNamespace
    keys,           \* whether a receipt is stored there, and since how long
    markers,        \* the deployments whose marker a repository carries
    step,           \* how far the command of a deployment is
    scope,          \* the namespace the command found or made
    recorded,       \* the repositories of the App's installations
    todo,           \* those of them the command still has to visit
    missing,        \* those that carried no marker when the claim inspected them
    verified,       \* those the claim has verified and not let go of
    wait,           \* ticks until the second listing
    before          \* receipts that were stored at the first listing (for the properties)

account == <<namespace, keys, markers>>
claims == <<recorded, todo, missing, verified>>
removal == <<wait, before>>
vars == <<namespace, keys, markers, step, scope, recorded, todo, missing, verified, wait, before>>

Init ==
    /\ namespace = NoNamespace
    /\ keys = [d \in Deployment |-> [there |-> FALSE, age |-> Lag]]
    /\ markers = [r \in Repository |-> {}]
    /\ step = [d \in Deployment |-> "new"]
    /\ scope = [d \in Deployment |-> NoNamespace]
    /\ recorded = [d \in Deployment |-> {}]
    /\ todo = [d \in Deployment |-> {}]
    /\ missing = [d \in Deployment |-> {}]
    /\ verified = [d \in Deployment |-> {}]
    /\ wait = [d \in Deployment |-> 0]
    /\ before = [d \in Deployment |-> {}]

Goto(d, next) == step' = [step EXCEPT ![d] = next]

\* The command of d reaches its receipt: nobody has removed the namespace.
Stored(d) == namespace = scope[d] /\ keys[d].there

\* The command turns to the repositories at, all of them.
Visit(d, at, next) == Goto(d, next) /\ todo' = [todo EXCEPT ![d] = at]
Visited(d, r) == todo' = [todo EXCEPT ![d] = @ \ {r}]

-----------------------------------------------------------------------------
(* The receipt *)

\* ensureCloudflareReceiptNamespace: whoever loses the race to create it takes
\* the namespace the other has created.
EnsureNamespace(d) ==
    /\ step[d] = "new"
    /\ \E fresh \in {namespace} \cup {1 + scope[e] : e \in Deployment} :
          /\ IF namespace = NoNamespace THEN \A e \in Deployment : scope[e] < fresh
             ELSE fresh = namespace
          /\ namespace' = fresh
          /\ scope' = [scope EXCEPT ![d] = fresh]
    /\ Goto(d, "create receipt")
    /\ UNCHANGED <<keys, markers, claims, removal>>

\* A put into a namespace that is gone fails, and the command with it.
CreateReceipt(d) ==
    /\ step[d] = "create receipt"
    /\ \/ /\ namespace = scope[d]
          /\ keys' = [keys EXCEPT ![d] = [there |-> TRUE, age |-> 0]]
          /\ Goto(d, "install app")
       \/ namespace # scope[d] /\ UNCHANGED keys /\ Goto(d, "gone")
    /\ UNCHANGED <<namespace, markers, scope, claims, removal>>

\* The user chooses the repositories; a deploy claims them all, an adoption only
\* what has no marker.
InstallApp(d) ==
    /\ step[d] = "install app"
    /\ \E rs \in SUBSET Repository :
          /\ recorded' = [recorded EXCEPT ![d] = rs]
          /\ Visit(d, rs, "inspect") \/ Visit(d, rs, "probe")
    /\ UNCHANGED <<account, scope, missing, verified, removal>>

-----------------------------------------------------------------------------
(* claimRepositoryOwnership *)

\* RepositoryOwnership.read fails on a repository with several markers.
Foreign(d, r) == \E e \in markers[r] : e # d

\* A claim that fails releases what it has claimed; so does one that is stopped.
Inspect(d) ==
    /\ step[d] = "inspect"
    /\ \/ \E r \in todo[d] :
             /\ ~Foreign(d, r)
             /\ missing' = [missing EXCEPT ![d] = IF markers[r] = {} THEN @ \cup {r} ELSE @]
             /\ Visited(d, r)
             /\ UNCHANGED step
       \/ todo[d] = {} /\ Visit(d, missing[d], "claim") /\ UNCHANGED missing
       \/ Visit(d, recorded[d], "release") /\ UNCHANGED missing
    /\ UNCHANGED <<account, scope, recorded, verified, removal>>

\* A request that fails may have made the marker.
Claim(d) ==
    /\ step[d] = "claim"
    /\ \/ \E r \in todo[d] :
             /\ markers' = [markers EXCEPT ![r] = @ \cup {d}]
             /\ \/ Visited(d, r) /\ UNCHANGED step
                \/ Visit(d, recorded[d], "release")
       \/ todo[d] = {} /\ Visit(d, recorded[d], "verify") /\ UNCHANGED markers
       \/ Visit(d, recorded[d], "release") /\ UNCHANGED markers
    /\ UNCHANGED <<namespace, keys, scope, recorded, missing, verified, removal>>

\* Mutant: a marker of its own is enough, whoever else has one.
HasMarker(d, r) == d \in markers[r]
OwnsAlone(d, r) == markers[r] = {d}

Verify(d) ==
    /\ step[d] = "verify"
    /\ \/ \E r \in todo[d] :
             /\ OwnsAlone(d, r)
             /\ verified' = [verified EXCEPT ![d] = @ \cup {r}]
             /\ Visited(d, r)
             /\ UNCHANGED step
       \/ todo[d] = {} /\ Goto(d, "finish") /\ UNCHANGED <<todo, verified>>
       \/ /\ Visit(d, recorded[d], "release")
          /\ verified' = [verified EXCEPT ![d] = {}]
    /\ UNCHANGED <<account, scope, recorded, missing, removal>>

\* The health check, and the last write of the receipt.
Finish(d) ==
    /\ step[d] = "finish"
    /\ \/ Stored(d) /\ Goto(d, "active") /\ UNCHANGED <<todo, verified>>
       \/ /\ Visit(d, recorded[d], "release")
          /\ verified' = [verified EXCEPT ![d] = {}]
    /\ UNCHANGED <<account, scope, recorded, missing, removal>>

-----------------------------------------------------------------------------
(* adopt: the Worker is asked for the markers and to write the missing ones,  *)
(* and nobody looks at them afterwards.                                       *)

Probe(d) ==
    /\ step[d] = "probe"
    /\ \/ \E r \in todo[d] :
             /\ ~Foreign(d, r)
             /\ missing' = [missing EXCEPT ![d] = IF markers[r] = {} THEN @ \cup {r} ELSE @]
             /\ Visited(d, r)
             /\ UNCHANGED step
       \/ todo[d] = {} /\ Visit(d, missing[d], "write") /\ UNCHANGED missing
       \/ Goto(d, "stuck") /\ UNCHANGED <<todo, missing>>
    /\ UNCHANGED <<account, scope, recorded, verified, removal>>

Write(d) ==
    /\ step[d] = "write"
    /\ \/ \E r \in todo[d] :
             markers' = [markers EXCEPT ![r] = @ \cup {d}] /\ Visited(d, r) /\ UNCHANGED step
       \/ todo[d] = {} /\ Stored(d) /\ Goto(d, "active") /\ UNCHANGED <<markers, todo>>
       \/ Goto(d, "stuck") /\ UNCHANGED <<markers, todo>>
    /\ UNCHANGED <<namespace, keys, scope, recorded, missing, verified, removal>>

-----------------------------------------------------------------------------
(* Letting go *)

\* releaseRepositoryOwnership: a repository whose marker is another's, or that has
\* none, is passed over; one with several markers, or a request that fails, ends
\* it, and the receipt stays.  Mutant: several markers are passed over as well.
NotAlone(d, r) == markers[r] # {d}
PassedOver(d, r) == markers[r] = {} \/ \E e \in markers[r] : e # d /\ markers[r] = {e}

Release(d) ==
    /\ step[d] = "release"
    /\ \/ \E r \in todo[d] :
             /\ \/ PassedOver(d, r) /\ UNCHANGED markers
                \/ markers[r] = {d} /\ markers' = [markers EXCEPT ![r] = @ \ {d}]
             /\ Visited(d, r)
             /\ UNCHANGED step
       \/ todo[d] = {} /\ Goto(d, "delete receipt") /\ UNCHANGED <<markers, todo>>
       \/ Goto(d, "stuck") /\ UNCHANGED <<markers, todo>>
    /\ UNCHANGED <<namespace, keys, scope, recorded, missing, verified, removal>>

\* destroy, which reads the receipt first.
Destroy(d) ==
    /\ step[d] \in {"active", "stuck"}
    /\ Stored(d)
    /\ Visit(d, recorded[d], "unmark")
    /\ verified' = [verified EXCEPT ![d] = {}]
    /\ UNCHANGED <<account, scope, recorded, missing, removal>>

\* deleteOwnership of the Worker deletes the marker by its name, without a look at
\* the others.
Unmark(d) ==
    /\ step[d] = "unmark"
    /\ \/ \E r \in todo[d] :
             markers' = [markers EXCEPT ![r] = @ \ {d}] /\ Visited(d, r) /\ UNCHANGED step
       \/ todo[d] = {} /\ Goto(d, "delete receipt") /\ UNCHANGED <<markers, todo>>
       \/ Goto(d, "stuck") /\ UNCHANGED <<markers, todo>>
    /\ UNCHANGED <<namespace, keys, scope, recorded, missing, verified, removal>>

DeleteReceipt(d) ==
    /\ step[d] = "delete receipt"
    /\ \/ /\ Stored(d)
          /\ keys' = [keys EXCEPT ![d] = [there |-> FALSE, age |-> 0]]
          /\ before' = [e \in Deployment |-> before[e] \ {d}]
          /\ Goto(d, "list")
       \/ ~Stored(d) /\ UNCHANGED <<keys, before>> /\ Goto(d, "gone")
    /\ UNCHANGED <<namespace, markers, scope, claims, wait>>

\* A listing shows what is stored, but a change only after Lag ticks.
MayShow(shown) ==
    \A d \in Deployment : keys[d].age = Lag => (d \in shown <=> keys[d].there)

\* Mutants: the second listing follows the first at once; the delay is slept twice.
NoDelay == 0
DelayTwice == 2 * Delay
RemovalDelay == Delay

List(d) ==
    /\ step[d] = "list"
    /\ \/ /\ namespace = scope[d]
          /\ MayShow({})
          /\ wait' = [wait EXCEPT ![d] = RemovalDelay]
          /\ before' = [before EXCEPT ![d] = {e \in Deployment : keys[e].there}]
          /\ Goto(d, "list again")
       \/ Goto(d, "gone") /\ UNCHANGED removal
    /\ UNCHANGED <<account, scope, claims>>

ListAgain(d) ==
    /\ step[d] = "list again"
    /\ wait[d] = 0
    /\ \/ namespace = scope[d] /\ MayShow({}) /\ Goto(d, "remove namespace")
       \/ Goto(d, "gone")
    /\ UNCHANGED <<account, scope, claims, removal>>

\* The receipts go with the namespace.
RemoveNamespace(d) ==
    /\ step[d] = "remove namespace"
    /\ \/ /\ namespace = scope[d]
          /\ namespace' = NoNamespace
          /\ keys' = [e \in Deployment |-> [there |-> FALSE, age |-> Lag]]
       \/ UNCHANGED <<namespace, keys>>
    /\ Goto(d, "gone")
    /\ UNCHANGED <<markers, scope, claims, removal>>

Tick ==
    /\ keys' = [d \in Deployment |->
                  [there |-> keys[d].there,
                   age |-> IF keys[d].age < Lag THEN keys[d].age + 1 ELSE Lag]]
    /\ wait' = [d \in Deployment |-> IF wait[d] = 0 THEN 0 ELSE wait[d] - 1]
    /\ UNCHANGED <<namespace, markers, step, scope, claims, before>>

Command(d) ==
    \/ EnsureNamespace(d) \/ CreateReceipt(d) \/ InstallApp(d)
    \/ Inspect(d) \/ Claim(d) \/ Verify(d) \/ Finish(d) \/ Probe(d) \/ Write(d)
    \/ Release(d) \/ Destroy(d) \/ Unmark(d) \/ DeleteReceipt(d)
    \/ List(d) \/ ListAgain(d) \/ RemoveNamespace(d)

Next == Tick \/ \E d \in Deployment : Command(d)

Spec == Init /\ [][Next]_vars

-----------------------------------------------------------------------------
(* Properties *)

TypeOK ==
    /\ namespace \in Nat
    /\ keys \in [Deployment -> [there : BOOLEAN, age : 0 .. Lag]]
    /\ markers \in [Repository -> SUBSET Deployment]
    /\ step \in [Deployment -> Step]
    /\ scope \in [Deployment -> Nat]
    /\ recorded \in [Deployment -> SUBSET Repository]
    /\ todo \in [Deployment -> SUBSET Repository]
    /\ missing \in [Deployment -> SUBSET Repository]
    /\ verified \in [Deployment -> SUBSET Repository]
    /\ wait \in [Deployment -> 0 .. Delay]
    /\ before \in [Deployment -> SUBSET Deployment]

\* Of two deploys that claim a repository at the same time at most one keeps it:
\* each leaves its marker before it looks again, whatever other claims, adoptions
\* and destroys do in between ("One repository belongs to exactly one deployment").
OneOwner ==
    \A d, e \in Deployment : d # e => verified[d] \cap verified[e] = {}

\* A deployment that is over has left no marker: a command that cannot take its
\* markers back keeps the receipt instead (rollback, destroy).
NoOrphanMarker ==
    \A d \in Deployment : \A r \in Repository :
        d \in markers[r] => step[d] \notin {"new", "delete receipt", "list", "list again",
                                            "remove namespace", "gone"}

\* A receipt that was stored when the first listing came back empty, and still is,
\* stops the removal of the namespace: the second listing cannot miss it.
NamespaceSparesReceipts ==
    \A d \in Deployment :
        step[d] = "remove namespace" /\ namespace = scope[d] => before[d] = {}

\* A deployment whose receipt was created keeps it until it removes it itself: no other
\* command takes it along with the namespace (store.ts: "so a concurrently created receipt
\* cannot be lost with the namespace").  The code does not meet this: a receipt created
\* between the two listings may be missing from both.
ConcurrentReceiptKept ==
    \A d \in Deployment :
        step[d] \in {"install app", "inspect", "claim", "verify", "finish", "probe", "write",
                    "active", "release", "stuck", "unmark"} => Stored(d)
=============================================================================
