--------------------------- MODULE AccountProofs ---------------------------
(***************************************************************************)
(* Proofs about the module Account, for any number of deployments and      *)
(* repositories and any delays: the types, the ownership of repositories   *)
(* and the removal of the namespace.                                       *)
(***************************************************************************)
EXTENDS Account, TLAPS

(***************************************************************************)
(* The strengthening of the invariants.  Claims: what a claim has verified *)
(* carries its marker, and only a claim that may still keep it has         *)
(* verified anything.  Markers: a marker is on a recorded repository, and  *)
(* a command that lets go has every marked repository still to visit.      *)
(* Removal: a receipt that was there at the first listing is by the second *)
(* old enough to be shown.                                                 *)
(***************************************************************************)
Early == {"new", "create receipt", "install app"}
Late == {"delete receipt", "list", "list again", "remove namespace", "gone"}

VerifiedMarked(d) ==
    /\ verified[d] # {} => step[d] \in {"verify", "finish", "active"}
    /\ \A r \in verified[d] : d \in markers[r]

VerifiedAreMarked == \A d \in Deployment : VerifiedMarked(d)

VisitsRecorded(d) ==
    /\ todo[d] \subseteq recorded[d]
    /\ missing[d] \subseteq recorded[d]
    /\ step[d] \in Early => missing[d] = {}

VisitsAreRecorded == \A d \in Deployment : VisitsRecorded(d)

MarkersRecorded(d) ==
    \A r \in Repository :
        d \in markers[r] =>
            /\ r \in recorded[d]
            /\ step[d] \notin Early \cup Late
            /\ step[d] \in {"release", "unmark"} => r \in todo[d]

MarkersAreRecorded == \A d \in Deployment : MarkersRecorded(d)

ScopesAreOld ==
    \A d \in Deployment :
        /\ step[d] # "new" => scope[d] # NoNamespace
        /\ step[d] \in {"new", "create receipt"} => ~keys[d].there

SeenBy(d) ==
    step[d] = "list again" /\ namespace = scope[d] =>
        \A e \in before[d] :
            /\ keys[e].there
            /\ keys[e].age = Lag \/ keys[e].age + wait[d] >= Delay

SeenAtFirstListing == \A d \in Deployment : SeenBy(d)

SparedBy(d) == step[d] = "remove namespace" /\ namespace = scope[d] => before[d] = {}

-----------------------------------------------------------------------------
(* Types *)

LEMMA StepsAreSteps ==
  /\ "new" \in Step /\ "create receipt" \in Step /\ "install app" \in Step
  /\ "inspect" \in Step /\ "claim" \in Step /\ "verify" \in Step /\ "finish" \in Step
  /\ "probe" \in Step /\ "write" \in Step /\ "active" \in Step /\ "release" \in Step
  /\ "stuck" \in Step /\ "unmark" \in Step /\ "delete receipt" \in Step
  /\ "list" \in Step /\ "list again" \in Step /\ "remove namespace" \in Step
  /\ "gone" \in Step
BY DEF Step

LEMMA DelayInRange == Delay \in 0 .. Delay
BY AccountConstants

LEMMA KeysTyped ==
  ASSUME NEW d \in Deployment, NEW b \in BOOLEAN, TypeOK
  PROVE  [keys EXCEPT ![d] = [there |-> b, age |-> 0]]
           \in [Deployment -> [there : BOOLEAN, age : 0 .. Lag]]
<1>1. [there |-> b, age |-> 0] \in [there : BOOLEAN, age : 0 .. Lag]
  BY AccountConstants
<1> QED
  BY <1>1 DEF TypeOK

LEMMA FieldsTyped ==
  ASSUME TypeOK
  PROVE  /\ markers \in [Repository -> SUBSET Deployment]
         /\ todo \in [Deployment -> SUBSET Repository]
         /\ missing \in [Deployment -> SUBSET Repository]
         /\ recorded \in [Deployment -> SUBSET Repository]
         /\ before \in [Deployment -> SUBSET Deployment]
         /\ keys \in [Deployment -> [there : BOOLEAN, age : 0 .. Lag]]
         /\ step \in [Deployment -> Step]
BY DEF TypeOK

\* Updates of one value of a function keep its type.
LEMMA MarkersTyped ==
  ASSUME TypeOK,
         \/ markers' = markers
         \/ \E r \in Repository, ds \in SUBSET Deployment :
               markers' = [markers EXCEPT ![r] = ds]
  PROVE  markers' \in [Repository -> SUBSET Deployment]
<1>1. markers \in [Repository -> SUBSET Deployment]
  BY DEF TypeOK
<1> QED
  BY <1>1

LEMMA TodoTyped ==
  ASSUME NEW d \in Deployment, TypeOK,
         todo' = todo \/ \E rs \in SUBSET Repository : todo' = [todo EXCEPT ![d] = rs]
  PROVE  todo' \in [Deployment -> SUBSET Repository]
<1>1. todo \in [Deployment -> SUBSET Repository]
  BY DEF TypeOK
<1> QED
  BY <1>1

LEMMA MissingTyped ==
  ASSUME NEW d \in Deployment, TypeOK,
         missing' = missing \/ \E rs \in SUBSET Repository : missing' = [missing EXCEPT ![d] = rs]
  PROVE  missing' \in [Deployment -> SUBSET Repository]
<1>1. missing \in [Deployment -> SUBSET Repository]
  BY DEF TypeOK
<1> QED
  BY <1>1

LEMMA TickTyped == ASSUME TypeOK, Tick PROVE TypeOK'
<1>1. \A d \in Deployment : keys'[d] \in [there : BOOLEAN, age : 0 .. Lag]
  BY AccountConstants DEF TypeOK, Tick
<1>2. keys' \in [Deployment -> [there : BOOLEAN, age : 0 .. Lag]]
  BY <1>1 DEF Tick
<1>3. ASSUME NEW d \in Deployment PROVE wait'[d] \in 0 .. Delay
  <2>1. wait[d] \in 0 .. Delay /\ Delay \in Nat
    BY AccountConstants DEF TypeOK
  <2>2. wait'[d] = IF wait[d] = 0 THEN 0 ELSE wait[d] - 1
    BY DEF Tick
  <2> QED
    BY <2>1, <2>2
<1>4. wait' \in [Deployment -> 0 .. Delay]
  BY <1>3 DEF Tick
<1> QED
  BY <1>2, <1>4 DEF TypeOK, Tick, claims

LEMMA EnsureNamespaceTyped == ASSUME NEW d \in Deployment, TypeOK, EnsureNamespace(d) PROVE TypeOK'
<1>1. step' \in [Deployment -> Step]
  BY StepsAreSteps DEF TypeOK, EnsureNamespace, Goto
<1>2. PICK fresh \in {namespace} \cup {1 + scope[e] : e \in Deployment} :
          namespace' = fresh /\ scope' = [scope EXCEPT ![d] = fresh]
  BY DEF EnsureNamespace
<1>3. fresh \in Nat
  BY DEF TypeOK
<1>4. namespace' \in Nat /\ scope' \in [Deployment -> Nat]
  BY <1>2, <1>3 DEF TypeOK
<1> QED
  BY <1>1, <1>4 DEF TypeOK, EnsureNamespace, claims, removal

LEMMA CreateReceiptTyped == ASSUME NEW d \in Deployment, TypeOK, CreateReceipt(d) PROVE TypeOK'
<1>1. step' \in [Deployment -> Step]
  BY StepsAreSteps DEF TypeOK, CreateReceipt, Goto
<1>2. keys' \in [Deployment -> [there : BOOLEAN, age : 0 .. Lag]]
  <2>1. keys' = keys \/ \E b \in BOOLEAN : keys' = [keys EXCEPT ![d] = [there |-> b, age |-> 0]]
    BY DEF CreateReceipt
  <2> QED
    BY <2>1, KeysTyped, FieldsTyped
<1> QED
  BY <1>1, <1>2 DEF TypeOK, CreateReceipt, claims, removal

LEMMA InstallAppTyped == ASSUME NEW d \in Deployment, TypeOK, InstallApp(d) PROVE TypeOK'
<1>1. step' \in [Deployment -> Step]
  BY StepsAreSteps DEF TypeOK, InstallApp, Visit, Goto
<1>2. recorded' \in [Deployment -> SUBSET Repository]
  BY DEF TypeOK, InstallApp
<1>3. todo' \in [Deployment -> SUBSET Repository]
  BY DEF TypeOK, InstallApp, Visit
<1> QED
  BY <1>1, <1>2, <1>3 DEF TypeOK, InstallApp, account, removal

LEMMA InspectTyped == ASSUME NEW d \in Deployment, TypeOK, Inspect(d) PROVE TypeOK'
<1>1. step' \in [Deployment -> Step]
  BY StepsAreSteps DEF TypeOK, Inspect, Visit, Visited, Goto
<1>2. todo' \in [Deployment -> SUBSET Repository]
  <2>1. ASSUME NEW r
        PROVE  /\ todo[d] \ {r} \in SUBSET Repository
               /\ missing[d] \in SUBSET Repository
               /\ recorded[d] \in SUBSET Repository
    BY FieldsTyped
  <2>2. \/ todo' = todo
        \/ todo' = [todo EXCEPT ![d] = missing[d]]
        \/ todo' = [todo EXCEPT ![d] = recorded[d]]
        \/ \E r \in todo[d] : todo' = [todo EXCEPT ![d] = todo[d] \ {r}]
    BY DEF Inspect, Visit, Visited
  <2> QED
    BY <2>1, <2>2, TodoTyped
<1>3. missing' \in [Deployment -> SUBSET Repository]
  <2>1. ASSUME NEW r \in todo[d]
        PROVE  missing[d] \cup {r} \in SUBSET Repository /\ missing[d] \in SUBSET Repository
    BY FieldsTyped
  <2>2. \/ missing' = missing
        \/ \E r \in todo[d] : \E rs \in {missing[d] \cup {r}, missing[d]} :
              missing' = [missing EXCEPT ![d] = rs]
    BY DEF Inspect
  <2> QED
    BY <2>1, <2>2, MissingTyped
<1> QED
  BY <1>1, <1>2, <1>3 DEF TypeOK, Inspect, account, removal

LEMMA ClaimTyped == ASSUME NEW d \in Deployment, TypeOK, Claim(d) PROVE TypeOK'
<1>1. step' \in [Deployment -> Step]
  BY StepsAreSteps DEF TypeOK, Claim, Visit, Visited, Goto
<1>2. todo' \in [Deployment -> SUBSET Repository]
  <2>1. ASSUME NEW r
        PROVE  /\ todo[d] \ {r} \in SUBSET Repository
               /\ missing[d] \in SUBSET Repository
               /\ recorded[d] \in SUBSET Repository
    BY FieldsTyped
  <2>2. \/ todo' = todo
        \/ todo' = [todo EXCEPT ![d] = missing[d]]
        \/ todo' = [todo EXCEPT ![d] = recorded[d]]
        \/ \E r \in todo[d] : todo' = [todo EXCEPT ![d] = todo[d] \ {r}]
    BY DEF Claim, Visit, Visited
  <2> QED
    BY <2>1, <2>2, TodoTyped
<1>3. markers' \in [Repository -> SUBSET Deployment]
  <2>1. ASSUME NEW r \in todo[d], NEW ds,
               ds = markers[r] \cup {d} \/ ds = markers[r] \ {d}
        PROVE  r \in Repository /\ ds \in SUBSET Deployment
    BY <2>1, FieldsTyped
  <2>2. \/ markers' = markers
        \/ \E r \in todo[d] : \E ds \in {markers[r] \cup {d}, markers[r] \ {d}} :
              markers' = [markers EXCEPT ![r] = ds]
    BY DEF Claim
  <2> QED
    BY <2>1, <2>2, MarkersTyped
<1> QED
  BY <1>1, <1>2, <1>3 DEF TypeOK, Claim, removal

LEMMA VerifyTyped == ASSUME NEW d \in Deployment, TypeOK, Verify(d) PROVE TypeOK'
<1>1. step' \in [Deployment -> Step]
  BY StepsAreSteps DEF TypeOK, Verify, Visit, Visited, Goto
<1>2. todo' \in [Deployment -> SUBSET Repository]
  <2>1. ASSUME NEW r
        PROVE  /\ todo[d] \ {r} \in SUBSET Repository
               /\ missing[d] \in SUBSET Repository
               /\ recorded[d] \in SUBSET Repository
    BY FieldsTyped
  <2>2. \/ todo' = todo
        \/ todo' = [todo EXCEPT ![d] = missing[d]]
        \/ todo' = [todo EXCEPT ![d] = recorded[d]]
        \/ \E r \in todo[d] : todo' = [todo EXCEPT ![d] = todo[d] \ {r}]
    BY DEF Verify, Visit, Visited
  <2> QED
    BY <2>1, <2>2, TodoTyped
<1>3. verified' \in [Deployment -> SUBSET Repository]
  BY DEF TypeOK, Verify
<1> QED
  BY <1>1, <1>2, <1>3 DEF TypeOK, Verify, account, removal

LEMMA FinishTyped == ASSUME NEW d \in Deployment, TypeOK, Finish(d) PROVE TypeOK'
<1>1. step' \in [Deployment -> Step]
  BY StepsAreSteps DEF TypeOK, Finish, Visit, Goto
<1>2. todo' \in [Deployment -> SUBSET Repository]
  BY DEF TypeOK, Finish, Visit
<1>3. verified' \in [Deployment -> SUBSET Repository]
  BY DEF TypeOK, Finish
<1> QED
  BY <1>1, <1>2, <1>3 DEF TypeOK, Finish, account, removal

LEMMA ProbeTyped == ASSUME NEW d \in Deployment, TypeOK, Probe(d) PROVE TypeOK'
<1>1. step' \in [Deployment -> Step]
  BY StepsAreSteps DEF TypeOK, Probe, Visit, Visited, Goto
<1>2. todo' \in [Deployment -> SUBSET Repository]
  <2>1. ASSUME NEW r
        PROVE  /\ todo[d] \ {r} \in SUBSET Repository
               /\ missing[d] \in SUBSET Repository
               /\ recorded[d] \in SUBSET Repository
    BY FieldsTyped
  <2>2. \/ todo' = todo
        \/ todo' = [todo EXCEPT ![d] = missing[d]]
        \/ todo' = [todo EXCEPT ![d] = recorded[d]]
        \/ \E r \in todo[d] : todo' = [todo EXCEPT ![d] = todo[d] \ {r}]
    BY DEF Probe, Visit, Visited
  <2> QED
    BY <2>1, <2>2, TodoTyped
<1>3. missing' \in [Deployment -> SUBSET Repository]
  <2>1. ASSUME NEW r \in todo[d]
        PROVE  missing[d] \cup {r} \in SUBSET Repository /\ missing[d] \in SUBSET Repository
    BY FieldsTyped
  <2>2. \/ missing' = missing
        \/ \E r \in todo[d] : \E rs \in {missing[d] \cup {r}, missing[d]} :
              missing' = [missing EXCEPT ![d] = rs]
    BY DEF Probe
  <2> QED
    BY <2>1, <2>2, MissingTyped
<1> QED
  BY <1>1, <1>2, <1>3 DEF TypeOK, Probe, account, removal

LEMMA WriteTyped == ASSUME NEW d \in Deployment, TypeOK, Write(d) PROVE TypeOK'
<1>1. step' \in [Deployment -> Step]
  BY StepsAreSteps DEF TypeOK, Write, Visited, Goto
<1>2. todo' \in [Deployment -> SUBSET Repository]
  <2>1. ASSUME NEW r
        PROVE  /\ todo[d] \ {r} \in SUBSET Repository
               /\ missing[d] \in SUBSET Repository
               /\ recorded[d] \in SUBSET Repository
    BY FieldsTyped
  <2>2. \/ todo' = todo
        \/ todo' = [todo EXCEPT ![d] = missing[d]]
        \/ todo' = [todo EXCEPT ![d] = recorded[d]]
        \/ \E r \in todo[d] : todo' = [todo EXCEPT ![d] = todo[d] \ {r}]
    BY DEF Write, Visit, Visited
  <2> QED
    BY <2>1, <2>2, TodoTyped
<1>3. markers' \in [Repository -> SUBSET Deployment]
  <2>1. ASSUME NEW r \in todo[d], NEW ds,
               ds = markers[r] \cup {d} \/ ds = markers[r] \ {d}
        PROVE  r \in Repository /\ ds \in SUBSET Deployment
    BY <2>1, FieldsTyped
  <2>2. \/ markers' = markers
        \/ \E r \in todo[d] : \E ds \in {markers[r] \cup {d}, markers[r] \ {d}} :
              markers' = [markers EXCEPT ![r] = ds]
    BY DEF Write
  <2> QED
    BY <2>1, <2>2, MarkersTyped
<1> QED
  BY <1>1, <1>2, <1>3 DEF TypeOK, Write, removal

LEMMA ReleaseTyped == ASSUME NEW d \in Deployment, TypeOK, Release(d) PROVE TypeOK'
<1>1. step' \in [Deployment -> Step]
  BY StepsAreSteps DEF TypeOK, Release, Visited, Goto
<1>2. todo' \in [Deployment -> SUBSET Repository]
  <2>1. todo \in [Deployment -> SUBSET Repository]
    BY DEF TypeOK
  <2>2. todo' = todo \/ \E r \in todo[d] : todo' = [todo EXCEPT ![d] = @ \ {r}]
    BY DEF Release, Visited
  <2> QED
    BY <2>1, <2>2
<1>3. markers' \in [Repository -> SUBSET Deployment]
  <2>1. ASSUME NEW r \in todo[d], NEW ds,
               ds = markers[r] \cup {d} \/ ds = markers[r] \ {d}
        PROVE  r \in Repository /\ ds \in SUBSET Deployment
    BY <2>1, FieldsTyped
  <2>2. \/ markers' = markers
        \/ \E r \in todo[d] : \E ds \in {markers[r] \cup {d}, markers[r] \ {d}} :
              markers' = [markers EXCEPT ![r] = ds]
    BY DEF Release
  <2> QED
    BY <2>1, <2>2, MarkersTyped
<1> QED
  BY <1>1, <1>2, <1>3 DEF TypeOK, Release, removal

LEMMA DestroyTyped == ASSUME NEW d \in Deployment, TypeOK, Destroy(d) PROVE TypeOK'
<1>1. step' \in [Deployment -> Step]
  BY StepsAreSteps DEF TypeOK, Destroy, Visit, Goto
<1>2. todo' \in [Deployment -> SUBSET Repository]
  BY DEF TypeOK, Destroy, Visit
<1>3. verified' \in [Deployment -> SUBSET Repository]
  BY DEF TypeOK, Destroy
<1> QED
  BY <1>1, <1>2, <1>3 DEF TypeOK, Destroy, account, removal

LEMMA UnmarkTyped == ASSUME NEW d \in Deployment, TypeOK, Unmark(d) PROVE TypeOK'
<1>1. step' \in [Deployment -> Step]
  BY StepsAreSteps DEF TypeOK, Unmark, Visited, Goto
<1>2. todo' \in [Deployment -> SUBSET Repository]
  <2>1. todo \in [Deployment -> SUBSET Repository]
    BY DEF TypeOK
  <2>2. todo' = todo \/ \E r \in todo[d] : todo' = [todo EXCEPT ![d] = @ \ {r}]
    BY DEF Unmark, Visited
  <2> QED
    BY <2>1, <2>2
<1>3. markers' \in [Repository -> SUBSET Deployment]
  <2>1. ASSUME NEW r \in todo[d], NEW ds,
               ds = markers[r] \cup {d} \/ ds = markers[r] \ {d}
        PROVE  r \in Repository /\ ds \in SUBSET Deployment
    BY <2>1, FieldsTyped
  <2>2. \/ markers' = markers
        \/ \E r \in todo[d] : \E ds \in {markers[r] \cup {d}, markers[r] \ {d}} :
              markers' = [markers EXCEPT ![r] = ds]
    BY DEF Unmark
  <2> QED
    BY <2>1, <2>2, MarkersTyped
<1> QED
  BY <1>1, <1>2, <1>3 DEF TypeOK, Unmark, removal

LEMMA DeleteReceiptTyped == ASSUME NEW d \in Deployment, TypeOK, DeleteReceipt(d) PROVE TypeOK'
<1>1. step' \in [Deployment -> Step]
  BY StepsAreSteps DEF TypeOK, DeleteReceipt, Goto
<1>2. keys' \in [Deployment -> [there : BOOLEAN, age : 0 .. Lag]]
  <2>1. keys' = keys \/ \E b \in BOOLEAN : keys' = [keys EXCEPT ![d] = [there |-> b, age |-> 0]]
    BY DEF DeleteReceipt
  <2> QED
    BY <2>1, KeysTyped, FieldsTyped
<1>3. before' \in [Deployment -> SUBSET Deployment]
  <2>1. before \in [Deployment -> SUBSET Deployment]
    BY DEF TypeOK
  <2>2. before' = before \/ before' = [e \in Deployment |-> before[e] \ {d}]
    BY DEF DeleteReceipt, removal
  <2> QED
    BY <2>1, <2>2
<1> QED
  BY <1>1, <1>2, <1>3 DEF TypeOK, DeleteReceipt, claims

LEMMA ListTyped == ASSUME NEW d \in Deployment, TypeOK, List(d) PROVE TypeOK'
<1>1. step' \in [Deployment -> Step]
  BY StepsAreSteps DEF TypeOK, List, Goto
<1>2. wait' \in [Deployment -> 0 .. Delay]
  BY AccountConstants, DelayInRange DEF TypeOK, List, RemovalDelay, removal
<1>3. before' \in [Deployment -> SUBSET Deployment]
  <2>1. \/ before' = before
        \/ before' = [before EXCEPT ![d] = {e \in Deployment : keys[e].there}]
    BY DEF List, removal
  <2> QED
    BY <2>1, FieldsTyped
<1> QED
  BY <1>1, <1>2, <1>3 DEF TypeOK, List, account, claims, removal

LEMMA ListAgainTyped == ASSUME NEW d \in Deployment, TypeOK, ListAgain(d) PROVE TypeOK'
<1>1. step' \in [Deployment -> Step]
  BY StepsAreSteps DEF TypeOK, ListAgain, Goto
<1> QED
  BY <1>1 DEF TypeOK, ListAgain, account, claims, removal

LEMMA RemoveNamespaceTyped == ASSUME NEW d \in Deployment, TypeOK, RemoveNamespace(d) PROVE TypeOK'
<1>1. step' \in [Deployment -> Step]
  BY StepsAreSteps DEF TypeOK, RemoveNamespace, Goto
<1>2. namespace' \in Nat
  <2>1. namespace' = namespace \/ namespace' = 0
    BY DEF RemoveNamespace, NoNamespace
  <2> QED
    BY <2>1 DEF TypeOK
<1>3. keys' \in [Deployment -> [there : BOOLEAN, age : 0 .. Lag]]
  <2>1. [there |-> FALSE, age |-> Lag] \in [there : BOOLEAN, age : 0 .. Lag]
    BY AccountConstants
  <2> QED
    BY <2>1 DEF TypeOK, RemoveNamespace
<1> QED
  BY <1>1, <1>2, <1>3 DEF TypeOK, RemoveNamespace, claims, removal

\* Every variable has its type, whatever the commands do.
THEOREM AccountTyped == Spec => []TypeOK
<1>1. Init => TypeOK
  <2> SUFFICES ASSUME Init PROVE TypeOK
    OBVIOUS
  <2>1. [there |-> FALSE, age |-> Lag] \in [there : BOOLEAN, age : 0 .. Lag]
    BY AccountConstants
  <2>2. keys \in [Deployment -> [there : BOOLEAN, age : 0 .. Lag]]
    BY <2>1 DEF Init
  <2>3. step \in [Deployment -> Step]
    BY StepsAreSteps DEF Init
  <2>4. wait \in [Deployment -> 0 .. Delay] /\ namespace \in Nat /\ scope \in [Deployment -> Nat]
    BY AccountConstants DEF Init, NoNamespace
  <2> QED
    BY <2>2, <2>3, <2>4 DEF Init, TypeOK
<1>2. TypeOK /\ [Next]_vars => TypeOK'
  <2> SUFFICES ASSUME TypeOK, [Next]_vars PROVE TypeOK'
    OBVIOUS
  <2>1. ASSUME NEW d \in Deployment, Command(d) PROVE TypeOK'
    BY <2>1, EnsureNamespaceTyped, CreateReceiptTyped, InstallAppTyped, InspectTyped,
       ClaimTyped, VerifyTyped, FinishTyped, ProbeTyped, WriteTyped, ReleaseTyped,
       DestroyTyped, UnmarkTyped, DeleteReceiptTyped, ListTyped, ListAgainTyped, RemoveNamespaceTyped
       DEF Command
  <2>2. CASE UNCHANGED vars
    BY <2>2 DEF vars, TypeOK
  <2> QED
    BY <2>1, <2>2, TickTyped DEF Next
<1> QED
  BY <1>1, <1>2, PTL DEF Spec

-----------------------------------------------------------------------------
(* A command and the other deployments *)

(* Letting go, one repository at a time or all at once. *)

LEMMA LettingGo ==
  ASSUME NEW d \in Deployment, TypeOK, Release(d) \/ Unmark(d)
  PROVE  /\ \A q \in Repository : markers'[q] = markers[q] \/ markers'[q] = markers[q] \ {d}
         /\ \A e \in Deployment : e # d => step'[e] = step[e] /\ todo'[e] = todo[e]
         /\ \/ \E r \in todo[d] :
                  d \notin markers'[r] /\ todo'[d] = todo[d] \ {r} /\ step'[d] = step[d]
            \/ todo[d] = {} /\ todo'[d] = {} /\ step'[d] = "delete receipt"
            \/ todo'[d] = todo[d] /\ step'[d] = "stuck"
<1>1. todo \in [Deployment -> SUBSET Repository] /\ step \in [Deployment -> Step]
      /\ markers \in [Repository -> SUBSET Deployment]
  BY DEF TypeOK
<1>2. ASSUME NEW r \in todo[d],
             \/ markers' = markers /\ d \notin markers[r]
             \/ markers' = [markers EXCEPT ![r] = markers[r] \ {d}],
             todo' = [todo EXCEPT ![d] = todo[d] \ {r}], step' = step
      PROVE  /\ \A q \in Repository : markers'[q] = markers[q] \/ markers'[q] = markers[q] \ {d}
             /\ \A e \in Deployment : e # d => step'[e] = step[e] /\ todo'[e] = todo[e]
             /\ d \notin markers'[r] /\ todo'[d] = todo[d] \ {r} /\ step'[d] = step[d]
  <2>1. r \in Repository
    BY <1>1
  <2>2. d \notin markers'[r]
    BY <1>1, <1>2, <2>1
  <2>3. \A q \in Repository : markers'[q] = markers[q] \/ markers'[q] = markers[q] \ {d}
    BY <1>1, <1>2, <2>1
  <2> QED
    BY <1>1, <1>2, <2>2, <2>3
<1>3. ASSUME markers' = markers, todo' = todo,
             \/ todo[d] = {} /\ step' = [step EXCEPT ![d] = "delete receipt"]
             \/ step' = [step EXCEPT ![d] = "stuck"]
      PROVE  /\ \A q \in Repository : markers'[q] = markers[q]
             /\ \A e \in Deployment : e # d => step'[e] = step[e] /\ todo'[e] = todo[e]
             /\ \/ todo[d] = {} /\ todo'[d] = {} /\ step'[d] = "delete receipt"
                \/ todo'[d] = todo[d] /\ step'[d] = "stuck"
  BY <1>1, <1>3
<1>4. \/ \E r \in todo[d] :
            /\ \/ markers' = markers /\ d \notin markers[r]
               \/ markers' = [markers EXCEPT ![r] = markers[r] \ {d}]
            /\ todo' = [todo EXCEPT ![d] = todo[d] \ {r}] /\ step' = step
      \/ /\ markers' = markers /\ todo' = todo
         /\ \/ todo[d] = {} /\ step' = [step EXCEPT ![d] = "delete receipt"]
            \/ step' = [step EXCEPT ![d] = "stuck"]
  <2>1. CASE Release(d)
    BY <2>1 DEF Release, PassedOver, Visited, Goto
  <2>2. CASE Unmark(d)
    BY <2>2 DEF Unmark, Visited, Goto
  <2> QED
    BY <2>1, <2>2
<1> QED
  BY <1>2, <1>3, <1>4

LEMMA OthersStay ==
  ASSUME NEW d \in Deployment, NEW e \in Deployment, e # d, TypeOK, Command(d)
  PROVE  /\ step'[e] = step[e] /\ scope'[e] = scope[e]
         /\ recorded'[e] = recorded[e] /\ todo'[e] = todo[e]
         /\ missing'[e] = missing[e] /\ verified'[e] = verified[e]
         /\ wait'[e] = wait[e]
         /\ \A r \in Repository : e \in markers'[r] <=> e \in markers[r]
<1>1. CASE EnsureNamespace(d)
  BY <1>1 DEF EnsureNamespace, TypeOK, Goto, Visit, Visited, account, claims, removal
<1>2. CASE CreateReceipt(d)
  BY <1>2 DEF CreateReceipt, TypeOK, Goto, Visit, Visited, account, claims, removal
<1>3. CASE InstallApp(d)
  BY <1>3 DEF InstallApp, TypeOK, Goto, Visit, Visited, account, claims, removal
<1>4. CASE Inspect(d)
  BY <1>4 DEF Inspect, TypeOK, Goto, Visit, Visited, account, claims, removal
<1>5. CASE Claim(d)
  <2>1. /\ UNCHANGED <<scope, recorded, missing, verified, removal>>
        /\ \/ markers' = markers
           \/ \E r \in todo[d] : markers' = [markers EXCEPT ![r] = @ \cup {d}]
        /\ step' = step \/ \E s \in {"verify", "release"} : step' = [step EXCEPT ![d] = s]
        /\ \/ \E r \in todo[d] : todo' = [todo EXCEPT ![d] = @ \ {r}]
           \/ todo' = [todo EXCEPT ![d] = recorded[d]]
    BY <1>5 DEF Claim, Visit, Visited, Goto
  <2>2. /\ step'[e] = step[e] /\ todo'[e] = todo[e]
        /\ \A r \in Repository : e \in markers'[r] <=> e \in markers[r]
    BY <2>1, FieldsTyped
  <2> QED
    BY <2>1, <2>2 DEF removal
<1>6. CASE Verify(d)
  BY <1>6 DEF Verify, TypeOK, Goto, Visit, Visited, account, claims, removal
<1>7. CASE Finish(d)
  BY <1>7 DEF Finish, TypeOK, Goto, Visit, Visited, account, claims, removal
<1>8. CASE Probe(d)
  BY <1>8 DEF Probe, TypeOK, Goto, Visit, Visited, account, claims, removal
<1>9. CASE Write(d)
  BY <1>9 DEF Write, TypeOK, Goto, Visit, Visited, account, claims, removal
<1>10. CASE Release(d)
  <2>1. step'[e] = step[e] /\ todo'[e] = todo[e]
    BY <1>10, LettingGo
  <2>2. ASSUME NEW r \in Repository PROVE e \in markers'[r] <=> e \in markers[r]
    <3>1. markers'[r] = markers[r] \/ markers'[r] = markers[r] \ {d}
      BY <1>10, LettingGo
    <3> QED
      BY <3>1
  <2> QED
    BY <1>10, <2>1, <2>2 DEF Release, removal
<1>11. CASE Destroy(d)
  BY <1>11 DEF Destroy, TypeOK, Goto, Visit, Visited, account, claims, removal
<1>12. CASE Unmark(d)
  <2>1. step'[e] = step[e] /\ todo'[e] = todo[e]
    BY <1>12, LettingGo
  <2>2. ASSUME NEW r \in Repository PROVE e \in markers'[r] <=> e \in markers[r]
    <3>1. markers'[r] = markers[r] \/ markers'[r] = markers[r] \ {d}
      BY <1>12, LettingGo
    <3> QED
      BY <3>1
  <2> QED
    BY <1>12, <2>1, <2>2 DEF Unmark, removal
<1>13. CASE DeleteReceipt(d)
  BY <1>13 DEF DeleteReceipt, TypeOK, Goto, Visit, Visited, account, claims, removal
<1>14. CASE List(d)
  BY <1>14 DEF List, TypeOK, Goto, Visit, Visited, account, claims, removal
<1>15. CASE ListAgain(d)
  BY <1>15 DEF ListAgain, TypeOK, Goto, Visit, Visited, account, claims, removal
<1>16. CASE RemoveNamespace(d)
  BY <1>16 DEF RemoveNamespace, TypeOK, Goto, Visit, Visited, account, claims, removal
<1> QED
  BY <1>1, <1>2, <1>3, <1>4, <1>5, <1>6, <1>7, <1>8, <1>9, <1>10, <1>11, <1>12, <1>13,
     <1>14, <1>15, <1>16 DEF Command

LEMMA TickKeeps ==
  ASSUME Tick \/ UNCHANGED vars
  PROVE  /\ step' = step /\ scope' = scope /\ recorded' = recorded /\ todo' = todo
         /\ missing' = missing /\ verified' = verified /\ markers' = markers
         /\ namespace' = namespace /\ before' = before
BY DEF Tick, vars, claims

LEMMA VerifiedStayMarked ==
  ASSUME TypeOK, VerifiedAreMarked, [Next]_vars
  PROVE  VerifiedAreMarked'
<1>1. ASSUME NEW d \in Deployment, Command(d) PROVE VerifiedMarked(d)'
  <2>0. VerifiedMarked(d)
    BY DEF VerifiedAreMarked
  <2>1. CASE EnsureNamespace(d)
    BY <2>0, <2>1 DEF EnsureNamespace, VerifiedMarked, TypeOK, Goto, Visit, Visited,
       account, claims, removal
  <2>2. CASE CreateReceipt(d)
    BY <2>0, <2>2 DEF CreateReceipt, VerifiedMarked, TypeOK, Goto, Visit, Visited,
       account, claims, removal
  <2>3. CASE InstallApp(d)
    BY <2>0, <2>3 DEF InstallApp, VerifiedMarked, TypeOK, Goto, Visit, Visited, account,
       claims, removal
  <2>4. CASE Inspect(d)
    BY <2>0, <2>4 DEF Inspect, VerifiedMarked, TypeOK, Goto, Visit, Visited, account,
       claims, removal
  <2>5. CASE Claim(d)
    BY <2>0, <2>5 DEF Claim, VerifiedMarked, TypeOK, Goto, Visit, Visited, account,
       claims, removal
  <2>6. CASE Verify(d)
    BY <2>0, <2>6 DEF Verify, VerifiedMarked, TypeOK, Goto, Visit, Visited, account,
       claims, removal, OwnsAlone
  <2>7. CASE Finish(d)
    BY <2>0, <2>7 DEF Finish, VerifiedMarked, TypeOK, Goto, Visit, Visited, account,
       claims, removal
  <2>8. CASE Probe(d)
    BY <2>0, <2>8 DEF Probe, VerifiedMarked, TypeOK, Goto, Visit, Visited, account,
       claims, removal
  <2>9. CASE Write(d)
    BY <2>0, <2>9 DEF Write, VerifiedMarked, TypeOK, Goto, Visit, Visited, account,
       claims, removal
  <2>10. CASE Release(d)
    BY <2>0, <2>10 DEF Release, VerifiedMarked, TypeOK, Goto, Visit, Visited, account,
       claims, removal, PassedOver
  <2>11. CASE Destroy(d)
    BY <2>0, <2>11 DEF Destroy, VerifiedMarked, TypeOK, Goto, Visit, Visited, account,
       claims, removal
  <2>12. CASE Unmark(d)
    BY <2>0, <2>12 DEF Unmark, VerifiedMarked, TypeOK, Goto, Visit, Visited, account,
       claims, removal
  <2>13. CASE DeleteReceipt(d)
    BY <2>0, <2>13 DEF DeleteReceipt, VerifiedMarked, TypeOK, Goto, Visit, Visited,
       account, claims, removal
  <2>14. CASE List(d)
    BY <2>0, <2>14 DEF List, VerifiedMarked, TypeOK, Goto, Visit, Visited, account,
       claims, removal
  <2>15. CASE ListAgain(d)
    BY <2>0, <2>15 DEF ListAgain, VerifiedMarked, TypeOK, Goto, Visit, Visited, account,
       claims, removal
  <2>16. CASE RemoveNamespace(d)
    BY <2>0, <2>16 DEF RemoveNamespace, VerifiedMarked, TypeOK, Goto, Visit, Visited,
       account, claims, removal
  <2> QED
    BY <1>1, <2>1, <2>2, <2>3, <2>4, <2>5, <2>6, <2>7, <2>8, <2>9, <2>10, <2>11, <2>12,
       <2>13, <2>14, <2>15, <2>16 DEF Command
<1>2. ASSUME NEW d \in Deployment, Command(d), NEW e \in Deployment, e # d
      PROVE  VerifiedMarked(e)'
  BY <1>2, OthersStay DEF VerifiedAreMarked, VerifiedMarked, TypeOK
<1>3. CASE Tick \/ UNCHANGED vars
  BY <1>3, TickKeeps DEF VerifiedAreMarked, VerifiedMarked
<1> QED
  BY <1>1, <1>2, <1>3 DEF Next, VerifiedAreMarked

LEMMA VisitsStayRecorded ==
  ASSUME TypeOK, VisitsAreRecorded, [Next]_vars
  PROVE  VisitsAreRecorded'
<1>1. ASSUME NEW d \in Deployment, Command(d) PROVE VisitsRecorded(d)'
  <2>0. VisitsRecorded(d)
    BY DEF VisitsAreRecorded
  <2>1. CASE EnsureNamespace(d)
    BY <2>0, <2>1 DEF EnsureNamespace, VisitsRecorded, TypeOK, Early, Goto, Visit,
       Visited, account, claims, removal
  <2>2. CASE CreateReceipt(d)
    BY <2>0, <2>2 DEF CreateReceipt, VisitsRecorded, TypeOK, Early, Goto, Visit,
       Visited, account, claims, removal
  <2>3. CASE InstallApp(d)
    BY <2>0, <2>3 DEF InstallApp, VisitsRecorded, TypeOK, Early, Goto, Visit, Visited,
       account, claims, removal
  <2>4. CASE Inspect(d)
    <3>1. step'[d] \notin Early
      BY <2>4 DEF Inspect, TypeOK, Early, Visit, Visited, Goto
    <3>2. recorded'[d] = recorded[d]
      BY <2>4 DEF Inspect
    <3>3. missing'[d] \subseteq recorded[d]
      BY <2>0, <2>4 DEF Inspect, VisitsRecorded, TypeOK
    <3>4. todo'[d] \subseteq recorded[d]
      BY <2>0, <2>4 DEF Inspect, VisitsRecorded, TypeOK, Visit, Visited
    <3> QED
      BY <3>1, <3>2, <3>3, <3>4 DEF VisitsRecorded
  <2>5. CASE Claim(d)
    <3>1. step'[d] \notin Early
      BY <2>5 DEF Claim, TypeOK, Early, Visit, Visited, Goto
    <3>2. recorded'[d] = recorded[d]
      BY <2>5 DEF Claim
    <3>3. missing'[d] \subseteq recorded[d]
      BY <2>0, <2>5 DEF Claim, VisitsRecorded, TypeOK
    <3>4. todo'[d] \subseteq recorded[d]
      BY <2>0, <2>5 DEF Claim, VisitsRecorded, TypeOK, Visit, Visited
    <3> QED
      BY <3>1, <3>2, <3>3, <3>4 DEF VisitsRecorded
  <2>6. CASE Verify(d)
    <3>1. step'[d] \notin Early
      BY <2>6 DEF Verify, TypeOK, Early, Visit, Visited, Goto
    <3>2. recorded'[d] = recorded[d]
      BY <2>6 DEF Verify
    <3>3. missing'[d] \subseteq recorded[d]
      BY <2>0, <2>6 DEF Verify, VisitsRecorded, TypeOK
    <3>4. todo'[d] \subseteq recorded[d]
      BY <2>0, <2>6 DEF Verify, VisitsRecorded, TypeOK, Visit, Visited
    <3> QED
      BY <3>1, <3>2, <3>3, <3>4 DEF VisitsRecorded
  <2>7. CASE Finish(d)
    BY <2>0, <2>7 DEF Finish, VisitsRecorded, TypeOK, Early, Goto, Visit, Visited,
       account, claims, removal
  <2>8. CASE Probe(d)
    <3>1. step'[d] \notin Early
      BY <2>8 DEF Probe, TypeOK, Early, Visit, Visited, Goto
    <3>2. recorded'[d] = recorded[d]
      BY <2>8 DEF Probe
    <3>3. missing'[d] \subseteq recorded[d]
      BY <2>0, <2>8 DEF Probe, VisitsRecorded, TypeOK
    <3>4. todo'[d] \subseteq recorded[d]
      BY <2>0, <2>8 DEF Probe, VisitsRecorded, TypeOK, Visit, Visited
    <3> QED
      BY <3>1, <3>2, <3>3, <3>4 DEF VisitsRecorded
  <2>9. CASE Write(d)
    <3>1. step'[d] \notin Early
      BY <2>9, FieldsTyped DEF Write, Early, Goto
    <3>2. recorded'[d] = recorded[d] /\ missing'[d] = missing[d]
      BY <2>9 DEF Write
    <3>3. todo' = todo \/ \E r \in todo[d] : todo' = [todo EXCEPT ![d] = @ \ {r}]
      BY <2>9 DEF Write, Visited
    <3>4. todo'[d] \subseteq recorded[d]
      BY <2>0, <3>3, FieldsTyped DEF VisitsRecorded
    <3> QED
      BY <2>0, <3>1, <3>2, <3>4 DEF VisitsRecorded
  <2>10. CASE Release(d)
    <3>1. step'[d] \notin Early
      BY <2>10 DEF Release, TypeOK, Early, Visit, Visited, Goto
    <3>2. recorded'[d] = recorded[d]
      BY <2>10 DEF Release
    <3>3. missing'[d] \subseteq recorded[d]
      BY <2>0, <2>10 DEF Release, VisitsRecorded, TypeOK
    <3>4. todo'[d] \subseteq recorded[d]
      BY <2>0, <2>10, LettingGo DEF VisitsRecorded
    <3> QED
      BY <3>1, <3>2, <3>3, <3>4 DEF VisitsRecorded
  <2>11. CASE Destroy(d)
    BY <2>0, <2>11 DEF Destroy, VisitsRecorded, TypeOK, Early, Goto, Visit, Visited,
       account, claims, removal
  <2>12. CASE Unmark(d)
    <3>1. step'[d] \notin Early
      BY <2>12 DEF Unmark, TypeOK, Early, Visit, Visited, Goto
    <3>2. recorded'[d] = recorded[d] /\ missing'[d] = missing[d]
      BY <2>12 DEF Unmark
    <3>3. todo'[d] \subseteq recorded[d]
      BY <2>0, <2>12, LettingGo DEF VisitsRecorded
    <3> QED
      BY <2>0, <3>1, <3>2, <3>3 DEF VisitsRecorded
  <2>13. CASE DeleteReceipt(d)
    BY <2>0, <2>13 DEF DeleteReceipt, VisitsRecorded, TypeOK, Early, Goto, Visit,
       Visited, account, claims, removal
  <2>14. CASE List(d)
    BY <2>0, <2>14 DEF List, VisitsRecorded, TypeOK, Early, Goto, Visit, Visited,
       account, claims, removal
  <2>15. CASE ListAgain(d)
    BY <2>0, <2>15 DEF ListAgain, VisitsRecorded, TypeOK, Early, Goto, Visit, Visited,
       account, claims, removal
  <2>16. CASE RemoveNamespace(d)
    BY <2>0, <2>16 DEF RemoveNamespace, VisitsRecorded, TypeOK, Early, Goto, Visit,
       Visited, account, claims, removal
  <2> QED
    BY <1>1, <2>1, <2>2, <2>3, <2>4, <2>5, <2>6, <2>7, <2>8, <2>9, <2>10, <2>11, <2>12,
       <2>13, <2>14, <2>15, <2>16 DEF Command
<1>2. ASSUME NEW d \in Deployment, Command(d), NEW e \in Deployment, e # d
      PROVE  VisitsRecorded(e)'
  BY <1>2, OthersStay DEF VisitsAreRecorded, VisitsRecorded, TypeOK
<1>3. CASE Tick \/ UNCHANGED vars
  BY <1>3, TickKeeps DEF VisitsAreRecorded, VisitsRecorded
<1> QED
  BY <1>1, <1>2, <1>3 DEF Next, VisitsAreRecorded

LEMMA LettingGoKeeps ==
  ASSUME NEW d \in Deployment, TypeOK, MarkersRecorded(d), Release(d) \/ Unmark(d)
  PROVE  MarkersRecorded(d)'
<1> SUFFICES ASSUME NEW q \in Repository, d \in markers'[q]
             PROVE  /\ q \in recorded'[d]
                    /\ step'[d] \notin Early \cup Late
                    /\ step'[d] \in {"release", "unmark"} => q \in todo'[d]
  BY DEF MarkersRecorded
<1>1. step[d] \in {"release", "unmark"} /\ recorded' = recorded
  BY DEF Release, Unmark
<1>2. d \in markers[q]
  BY LettingGo
<1>3. q \in recorded[d] /\ q \in todo[d]
  BY <1>1, <1>2 DEF MarkersRecorded
<1>4. CASE \E r \in todo[d] :
            d \notin markers'[r] /\ todo'[d] = todo[d] \ {r} /\ step'[d] = step[d]
  BY <1>1, <1>3, <1>4 DEF Early, Late
<1>5. CASE todo[d] = {}
  BY <1>3, <1>5
<1>6. CASE todo'[d] = todo[d] /\ step'[d] = "stuck"
  BY <1>1, <1>3, <1>6 DEF Early, Late
<1> QED
  BY <1>4, <1>5, <1>6, LettingGo

LEMMA MarkersKept ==
  ASSUME NEW d \in Deployment, MarkersRecorded(d),
         recorded'[d] = recorded[d],
         \A r \in Repository : d \in markers'[r] => d \in markers[r] \/ r \in recorded[d],
         step'[d] \notin Early \cup Late \cup {"unmark"},
         step'[d] = "release" => todo'[d] = recorded[d]
  PROVE  MarkersRecorded(d)'
BY DEF MarkersRecorded

LEMMA MarkersStayRecorded ==
  ASSUME TypeOK, VisitsAreRecorded, MarkersAreRecorded, [Next]_vars
  PROVE  MarkersAreRecorded'
<1>1. ASSUME NEW d \in Deployment, Command(d) PROVE MarkersRecorded(d)'
  <2>0. VisitsRecorded(d) /\ MarkersRecorded(d)
    BY DEF VisitsAreRecorded, MarkersAreRecorded
  <2>1. CASE EnsureNamespace(d)
    BY <2>0, <2>1 DEF EnsureNamespace, MarkersRecorded, VisitsRecorded, TypeOK, Early,
       Late, Goto, Visit, Visited, account, claims, removal
  <2>2. CASE CreateReceipt(d)
    BY <2>0, <2>2 DEF CreateReceipt, MarkersRecorded, VisitsRecorded, TypeOK, Early,
       Late, Goto, Visit, Visited, account, claims, removal
  <2>3. CASE InstallApp(d)
    BY <2>0, <2>3 DEF InstallApp, MarkersRecorded, VisitsRecorded, TypeOK, Early, Late,
       Goto, Visit, Visited, account, claims, removal
  <2>4. CASE Inspect(d)
    <3>1. markers' = markers /\ recorded' = recorded
      BY <2>4 DEF Inspect, account
    <3>2. /\ step'[d] \notin Early \cup Late \cup {"unmark"}
          /\ step'[d] = "release" => todo'[d] = recorded[d]
      BY <2>4, FieldsTyped DEF Inspect, Goto, Visit, Visited, Early, Late
    <3> QED
      BY <2>0, <3>1, <3>2, MarkersKept
  <2>5. CASE Claim(d)
    <3>1. recorded' = recorded /\ todo[d] \subseteq recorded[d]
      BY <2>0, <2>5 DEF Claim, VisitsRecorded
    <3>2. /\ step'[d] \notin Early \cup Late \cup {"unmark"}
          /\ step'[d] = "release" => todo'[d] = recorded[d]
      BY <2>5, FieldsTyped DEF Claim, Goto, Visit, Visited, Early, Late
    <3>3. \/ markers' = markers
          \/ \E r \in todo[d] : markers' = [markers EXCEPT ![r] = @ \cup {d}]
      BY <2>5 DEF Claim
    <3>4. \A r \in Repository : d \in markers'[r] => d \in markers[r] \/ r \in recorded[d]
      BY <3>1, <3>3, FieldsTyped
    <3> QED
      BY <2>0, <3>1, <3>2, <3>4, MarkersKept
  <2>6. CASE Verify(d)
    <3>1. markers' = markers /\ recorded' = recorded
      BY <2>6 DEF Verify, account
    <3>2. /\ step'[d] \notin Early \cup Late \cup {"unmark"}
          /\ step'[d] = "release" => todo'[d] = recorded[d]
      BY <2>6, FieldsTyped DEF Verify, Goto, Visit, Visited, Early, Late
    <3> QED
      BY <2>0, <3>1, <3>2, MarkersKept
  <2>7. CASE Finish(d)
    <3>1. markers' = markers /\ recorded' = recorded
      BY <2>7 DEF Finish, account
    <3>2. /\ step'[d] \notin Early \cup Late \cup {"unmark"}
          /\ step'[d] = "release" => todo'[d] = recorded[d]
      BY <2>7, FieldsTyped DEF Finish, Goto, Visit, Visited, Early, Late
    <3> QED
      BY <2>0, <3>1, <3>2, MarkersKept
  <2>8. CASE Probe(d)
    <3>1. markers' = markers /\ recorded' = recorded
      BY <2>8 DEF Probe, account
    <3>2. /\ step'[d] \notin Early \cup Late \cup {"unmark"}
          /\ step'[d] = "release" => todo'[d] = recorded[d]
      BY <2>8, FieldsTyped DEF Probe, Goto, Visit, Visited, Early, Late
    <3> QED
      BY <2>0, <3>1, <3>2, MarkersKept
  <2>9. CASE Write(d)
    <3>1. recorded' = recorded /\ todo[d] \subseteq recorded[d]
      BY <2>0, <2>9 DEF Write, VisitsRecorded
    <3>2. /\ step'[d] \notin Early \cup Late \cup {"unmark"}
          /\ step'[d] = "release" => todo'[d] = recorded[d]
      BY <2>9, FieldsTyped DEF Write, Goto, Visit, Visited, Early, Late
    <3>3. \/ markers' = markers
          \/ \E r \in todo[d] : markers' = [markers EXCEPT ![r] = @ \cup {d}]
      BY <2>9 DEF Write
    <3>4. \A r \in Repository : d \in markers'[r] => d \in markers[r] \/ r \in recorded[d]
      BY <3>1, <3>3, FieldsTyped
    <3> QED
      BY <2>0, <3>1, <3>2, <3>4, MarkersKept
  <2>10. CASE Release(d)
    BY <2>0, <2>10, LettingGoKeeps
  <2>11. CASE Destroy(d)
    BY <2>0, <2>11 DEF Destroy, MarkersRecorded, VisitsRecorded, TypeOK, Early, Late,
       Goto, Visit, Visited, account, claims, removal
  <2>12. CASE Unmark(d)
    BY <2>0, <2>12, LettingGoKeeps
  <2>13. CASE DeleteReceipt(d)
    BY <2>0, <2>13 DEF DeleteReceipt, MarkersRecorded, VisitsRecorded, TypeOK, Early,
       Late, Goto, Visit, Visited, account, claims, removal
  <2>14. CASE List(d)
    BY <2>0, <2>14 DEF List, MarkersRecorded, VisitsRecorded, TypeOK, Early, Late, Goto,
       Visit, Visited, account, claims, removal
  <2>15. CASE ListAgain(d)
    BY <2>0, <2>15 DEF ListAgain, MarkersRecorded, VisitsRecorded, TypeOK, Early, Late,
       Goto, Visit, Visited, account, claims, removal
  <2>16. CASE RemoveNamespace(d)
    BY <2>0, <2>16 DEF RemoveNamespace, MarkersRecorded, VisitsRecorded, TypeOK, Early,
       Late, Goto, Visit, Visited, account, claims, removal
  <2> QED
    BY <1>1, <2>1, <2>2, <2>3, <2>4, <2>5, <2>6, <2>7, <2>8, <2>9, <2>10, <2>11, <2>12,
       <2>13, <2>14, <2>15, <2>16 DEF Command
<1>2. ASSUME NEW d \in Deployment, Command(d), NEW e \in Deployment, e # d
      PROVE  MarkersRecorded(e)'
  BY <1>2, OthersStay DEF MarkersAreRecorded, MarkersRecorded, TypeOK
<1>3. CASE Tick \/ UNCHANGED vars
  BY <1>3, TickKeeps DEF MarkersAreRecorded, MarkersRecorded
<1> QED
  BY <1>1, <1>2, <1>3 DEF Next, MarkersAreRecorded

-----------------------------------------------------------------------------
(* The account *)

\* What a command of d does to the namespace, the receipts and what was seen of them.
LEMMA NamespaceSteps ==
  ASSUME NEW d \in Deployment, TypeOK, Command(d)
  PROVE  \/ namespace' = namespace
         \/ namespace' = NoNamespace
         \/ /\ namespace = NoNamespace /\ step[d] = "new"
            /\ \A e \in Deployment : scope[e] < namespace'
<1>1. CASE EnsureNamespace(d)
  BY <1>1 DEF EnsureNamespace, account
<1>2. CASE CreateReceipt(d)
  BY <1>2 DEF CreateReceipt, account
<1>3. CASE InstallApp(d)
  BY <1>3 DEF InstallApp, account
<1>4. CASE Inspect(d)
  BY <1>4 DEF Inspect, account
<1>5. CASE Claim(d)
  BY <1>5 DEF Claim, account
<1>6. CASE Verify(d)
  BY <1>6 DEF Verify, account
<1>7. CASE Finish(d)
  BY <1>7 DEF Finish, account
<1>8. CASE Probe(d)
  BY <1>8 DEF Probe, account
<1>9. CASE Write(d)
  BY <1>9 DEF Write, account
<1>10. CASE Release(d)
  BY <1>10 DEF Release, account
<1>11. CASE Destroy(d)
  BY <1>11 DEF Destroy, account
<1>12. CASE Unmark(d)
  BY <1>12 DEF Unmark, account
<1>13. CASE DeleteReceipt(d)
  BY <1>13 DEF DeleteReceipt, account
<1>14. CASE List(d)
  BY <1>14 DEF List, account
<1>15. CASE ListAgain(d)
  BY <1>15 DEF ListAgain, account
<1>16. CASE RemoveNamespace(d)
  BY <1>16 DEF RemoveNamespace, account
<1> QED
  BY <1>1, <1>2, <1>3, <1>4, <1>5, <1>6, <1>7, <1>8, <1>9, <1>10, <1>11, <1>12, <1>13,
     <1>14, <1>15, <1>16 DEF Command

LEMMA KeySteps ==
  ASSUME NEW d \in Deployment, NEW e \in Deployment, TypeOK, Command(d)
  PROVE  \/ keys'[e] = keys[e]
         \/ e = d /\ step[d] = "create receipt"
         \/ e = d /\ step[d] = "delete receipt" /\ ~keys'[e].there
            /\ \A c \in Deployment : d \notin before'[c]
         \/ namespace' = NoNamespace /\ ~keys'[e].there
<1>1. CASE EnsureNamespace(d)
  BY <1>1 DEF EnsureNamespace, TypeOK, account
<1>2. CASE CreateReceipt(d)
  BY <1>2 DEF CreateReceipt, TypeOK, account
<1>3. CASE InstallApp(d)
  BY <1>3 DEF InstallApp, TypeOK, account
<1>4. CASE Inspect(d)
  BY <1>4 DEF Inspect, TypeOK, account
<1>5. CASE Claim(d)
  BY <1>5 DEF Claim, TypeOK, account
<1>6. CASE Verify(d)
  BY <1>6 DEF Verify, TypeOK, account
<1>7. CASE Finish(d)
  BY <1>7 DEF Finish, TypeOK, account
<1>8. CASE Probe(d)
  BY <1>8 DEF Probe, TypeOK, account
<1>9. CASE Write(d)
  BY <1>9 DEF Write, TypeOK, account
<1>10. CASE Release(d)
  BY <1>10 DEF Release, TypeOK, account
<1>11. CASE Destroy(d)
  BY <1>11 DEF Destroy, TypeOK, account
<1>12. CASE Unmark(d)
  BY <1>12 DEF Unmark, TypeOK, account
<1>13. CASE DeleteReceipt(d)
  <2>1. CASE UNCHANGED keys
    BY <2>1
  <2>2. CASE /\ keys' = [keys EXCEPT ![d] = [there |-> FALSE, age |-> 0]]
             /\ before' = [c \in Deployment |-> before[c] \ {d}]
    BY <1>13, <2>2 DEF DeleteReceipt, TypeOK
  <2> QED
    BY <1>13, <2>1, <2>2 DEF DeleteReceipt
<1>14. CASE List(d)
  BY <1>14 DEF List, TypeOK, account
<1>15. CASE ListAgain(d)
  BY <1>15 DEF ListAgain, TypeOK, account
<1>16. CASE RemoveNamespace(d)
  <2>1. CASE UNCHANGED keys
    BY <2>1
  <2>2. CASE keys' = [c \in Deployment |-> [there |-> FALSE, age |-> Lag]]
             /\ namespace' = NoNamespace
    BY <2>2
  <2> QED
    BY <1>16, <2>1, <2>2 DEF RemoveNamespace
<1> QED
  BY <1>1, <1>2, <1>3, <1>4, <1>5, <1>6, <1>7, <1>8, <1>9, <1>10, <1>11, <1>12, <1>13,
     <1>14, <1>15, <1>16 DEF Command

LEMMA BeforeSteps ==
  ASSUME NEW d \in Deployment, NEW e \in Deployment, e # d, TypeOK, Command(d)
  PROVE  before'[e] \subseteq before[e]
<1>1. CASE EnsureNamespace(d)
  BY <1>1 DEF EnsureNamespace, TypeOK, removal
<1>2. CASE CreateReceipt(d)
  BY <1>2 DEF CreateReceipt, TypeOK, removal
<1>3. CASE InstallApp(d)
  BY <1>3 DEF InstallApp, TypeOK, removal
<1>4. CASE Inspect(d)
  BY <1>4 DEF Inspect, TypeOK, removal
<1>5. CASE Claim(d)
  BY <1>5 DEF Claim, TypeOK, removal
<1>6. CASE Verify(d)
  BY <1>6 DEF Verify, TypeOK, removal
<1>7. CASE Finish(d)
  BY <1>7 DEF Finish, TypeOK, removal
<1>8. CASE Probe(d)
  BY <1>8 DEF Probe, TypeOK, removal
<1>9. CASE Write(d)
  BY <1>9 DEF Write, TypeOK, removal
<1>10. CASE Release(d)
  BY <1>10 DEF Release, TypeOK, removal
<1>11. CASE Destroy(d)
  BY <1>11 DEF Destroy, TypeOK, removal
<1>12. CASE Unmark(d)
  BY <1>12 DEF Unmark, TypeOK, removal
<1>13. CASE DeleteReceipt(d)
  BY <1>13 DEF DeleteReceipt, TypeOK, removal
<1>14. CASE List(d)
  BY <1>14 DEF List, TypeOK, removal
<1>15. CASE ListAgain(d)
  BY <1>15 DEF ListAgain, TypeOK, removal
<1>16. CASE RemoveNamespace(d)
  BY <1>16 DEF RemoveNamespace, TypeOK, removal
<1> QED
  BY <1>1, <1>2, <1>3, <1>4, <1>5, <1>6, <1>7, <1>8, <1>9, <1>10, <1>11, <1>12, <1>13,
     <1>14, <1>15, <1>16 DEF Command

LEMMA ScopesStayOld ==
  ASSUME TypeOK, ScopesAreOld, [Next]_vars
  PROVE  ScopesAreOld'
<1>1. ASSUME NEW d \in Deployment, Command(d), NEW e \in Deployment, e # d
      PROVE  /\ step'[e] # "new" => scope'[e] # NoNamespace
             /\ step'[e] \in {"new", "create receipt"} => ~keys'[e].there
  BY <1>1, OthersStay, KeySteps DEF ScopesAreOld
<1>2. ASSUME NEW d \in Deployment, Command(d)
      PROVE  step'[d] # "new" => scope'[d] # NoNamespace
  <2>1. CASE EnsureNamespace(d)
    <3>1. namespace \in Nat /\ \A e \in Deployment : scope[e] \in Nat
      BY DEF TypeOK
    <3>2. PICK fresh : /\ IF namespace = NoNamespace THEN \A e \in Deployment : scope[e] < fresh
                          ELSE fresh = namespace
                       /\ scope'[d] = fresh
      BY <2>1 DEF EnsureNamespace, TypeOK
    <3> QED
      BY <3>1, <3>2 DEF NoNamespace
  <2>2. CASE ~EnsureNamespace(d)
    <3>1. scope'[d] = scope[d] /\ step[d] # "new"
      BY <1>2, <2>2 DEF Command, CreateReceipt, InstallApp, Inspect, Claim, Verify,
         Finish,
         Probe, Write, Release, Destroy, Unmark, DeleteReceipt, List, ListAgain, RemoveNamespace
    <3> QED
      BY <3>1 DEF ScopesAreOld
  <2> QED
    BY <2>1, <2>2
<1>3. ASSUME NEW d \in Deployment, Command(d)
      PROVE  step'[d] \in {"new", "create receipt"} => ~keys'[d].there
  <2>1. CASE EnsureNamespace(d)
    BY <2>1 DEF EnsureNamespace, ScopesAreOld, TypeOK, account, Goto, Visit, Visited
  <2>2. CASE CreateReceipt(d)
    BY <2>2 DEF CreateReceipt, ScopesAreOld, TypeOK, account, Goto, Visit, Visited
  <2>3. CASE InstallApp(d)
    BY <2>3 DEF InstallApp, ScopesAreOld, TypeOK, account, Goto, Visit, Visited
  <2>4. CASE Inspect(d)
    BY <2>4 DEF Inspect, ScopesAreOld, TypeOK, account, Goto, Visit, Visited
  <2>5. CASE Claim(d)
    BY <2>5 DEF Claim, ScopesAreOld, TypeOK, account, Goto, Visit, Visited
  <2>6. CASE Verify(d)
    BY <2>6 DEF Verify, ScopesAreOld, TypeOK, account, Goto, Visit, Visited
  <2>7. CASE Finish(d)
    BY <2>7 DEF Finish, ScopesAreOld, TypeOK, account, Goto, Visit, Visited
  <2>8. CASE Probe(d)
    BY <2>8 DEF Probe, ScopesAreOld, TypeOK, account, Goto, Visit, Visited
  <2>9. CASE Write(d)
    BY <2>9 DEF Write, ScopesAreOld, TypeOK, account, Goto, Visit, Visited
  <2>10. CASE Release(d)
    BY <2>10 DEF Release, ScopesAreOld, TypeOK, account, Goto, Visit, Visited
  <2>11. CASE Destroy(d)
    BY <2>11 DEF Destroy, ScopesAreOld, TypeOK, account, Goto, Visit, Visited
  <2>12. CASE Unmark(d)
    BY <2>12 DEF Unmark, ScopesAreOld, TypeOK, account, Goto, Visit, Visited
  <2>13. CASE DeleteReceipt(d)
    BY <2>13 DEF DeleteReceipt, ScopesAreOld, TypeOK, account, Goto, Visit, Visited
  <2>14. CASE List(d)
    BY <2>14 DEF List, ScopesAreOld, TypeOK, account, Goto, Visit, Visited
  <2>15. CASE ListAgain(d)
    BY <2>15 DEF ListAgain, ScopesAreOld, TypeOK, account, Goto, Visit, Visited
  <2>16. CASE RemoveNamespace(d)
    BY <2>16 DEF RemoveNamespace, ScopesAreOld, TypeOK, account, Goto, Visit, Visited
  <2> QED
    BY <1>3, <2>1, <2>2, <2>3, <2>4, <2>5, <2>6, <2>7, <2>8, <2>9, <2>10, <2>11, <2>12,
       <2>13, <2>14, <2>15, <2>16 DEF Command
<1>4. CASE Tick
  <2>1. \A d \in Deployment : keys'[d].there = keys[d].there
    BY <1>4 DEF Tick
  <2> QED
    BY <1>4, <2>1, TickKeeps DEF ScopesAreOld
<1>5. CASE UNCHANGED vars
  BY <1>5 DEF ScopesAreOld, vars
<1> QED
  BY <1>1, <1>2, <1>3, <1>4, <1>5 DEF Next, ScopesAreOld

\* Nobody but d itself makes the namespace of d the one there is.
LEMMA NamespaceOfOther ==
  ASSUME NEW c \in Deployment, NEW d \in Deployment, d # c, TypeOK, ScopesAreOld,
         Command(c), step[d] # "new", namespace' = scope[d]
  PROVE  namespace' = namespace /\ namespace # NoNamespace
<1>1. scope[d] \in Nat /\ scope[d] # NoNamespace
  BY DEF TypeOK, ScopesAreOld
<1> QED
  BY <1>1, NamespaceSteps DEF NoNamespace, TypeOK

\* The age of a receipt and the time until the second listing.
LEMMA Ages ==
  /\ \A a \in 0 .. Lag : a + Delay >= Delay /\ (a + 0 >= Delay => a = Lag)
  /\ \A a \in 0 .. Lag : \A w \in 0 .. Delay :
        a = Lag \/ a + w >= Delay =>
          LET older == IF a < Lag THEN a + 1 ELSE Lag
              left  == IF w = 0 THEN 0 ELSE w - 1
          IN  older = Lag \/ older + left >= Delay
BY AccountConstants

LEMMA AgeTyped ==
  ASSUME TypeOK, NEW e \in Deployment
  PROVE  keys[e].age \in 0 .. Lag /\ keys[e].there \in BOOLEAN
<1>1. keys[e] \in [there : BOOLEAN, age : 0 .. Lag]
  BY DEF TypeOK
<1> QED
  BY <1>1

LEMMA SeenStaysSeen ==
  ASSUME TypeOK, ScopesAreOld, SeenAtFirstListing, [Next]_vars
  PROVE  SeenAtFirstListing'
<1>1. ASSUME NEW c \in Deployment, NEW d \in Deployment, d # c, Command(c) PROVE SeenBy(d)'
  <2> SUFFICES ASSUME step'[d] = "list again", namespace' = scope'[d], NEW e \in before'[d]
               PROVE  /\ keys'[e].there
                      /\ keys'[e].age = Lag \/ keys'[e].age + wait'[d] >= Delay
    BY DEF SeenBy
  <2>1. step[d] = "list again" /\ scope'[d] = scope[d] /\ wait'[d] = wait[d]
    BY <1>1, OthersStay
  <2>2. namespace' = namespace /\ namespace # NoNamespace
    BY <1>1, <2>1, NamespaceOfOther
  <2>3. e \in before[d] /\ e \in Deployment
    BY <1>1, BeforeSteps DEF TypeOK
  <2>4. keys[e].there /\ (keys[e].age = Lag \/ keys[e].age + wait[d] >= Delay)
    BY <2>1, <2>2, <2>3 DEF SeenAtFirstListing, SeenBy
  <2>5. keys'[e] = keys[e]
    BY <1>1, <2>2, <2>3, <2>4, KeySteps DEF ScopesAreOld
  <2> QED
    BY <2>1, <2>4, <2>5
<1>2. ASSUME NEW d \in Deployment, Command(d) PROVE SeenBy(d)'
  <2>1. CASE List(d)
    <3> SUFFICES ASSUME step'[d] = "list again", NEW e \in before'[d]
                 PROVE  keys'[e].there /\ keys'[e].age + wait'[d] >= Delay
      BY DEF SeenBy
    <3>1. /\ wait' = [wait EXCEPT ![d] = Delay]
          /\ before' = [before EXCEPT ![d] = {c \in Deployment : keys[c].there}]
      BY <2>1 DEF List, RemovalDelay, Goto, TypeOK
    <3>2. keys' = keys /\ wait'[d] = Delay /\ e \in Deployment /\ keys[e].there
      BY <2>1, <3>1 DEF List, TypeOK, account
    <3>3. keys[e].age + Delay >= Delay
      BY <3>2, AgeTyped, Ages
    <3> QED
      BY <3>2, <3>3
  <2>2. CASE ~List(d)
    <3>1. step'[d] # "list again"
      BY <1>2, <2>2 DEF TypeOK, Command, EnsureNamespace, CreateReceipt, InstallApp,
         Inspect,
         Claim, Verify, Finish, Probe, Write, Release, Destroy, Unmark, DeleteReceipt,
         ListAgain, RemoveNamespace, Goto, Visit, Visited
    <3> QED
      BY <3>1 DEF SeenBy
  <2> QED
    BY <2>1, <2>2
<1>3. ASSUME Tick, NEW d \in Deployment PROVE SeenBy(d)'
  <2> SUFFICES ASSUME step'[d] = "list again", namespace' = scope'[d], NEW e \in before'[d]
               PROVE  /\ keys'[e].there
                      /\ keys'[e].age = Lag \/ keys'[e].age + wait'[d] >= Delay
    BY DEF SeenBy
  <2>1. e \in Deployment /\ keys[e].there
        /\ (keys[e].age = Lag \/ keys[e].age + wait[d] >= Delay)
    BY <1>3, TickKeeps DEF SeenAtFirstListing, SeenBy, TypeOK
  <2>2. keys[e].age \in 0 .. Lag /\ wait[d] \in 0 .. Delay
    BY <2>1, AgeTyped DEF TypeOK
  <2>3. /\ keys'[e].there = keys[e].there
        /\ keys'[e].age = IF keys[e].age < Lag THEN keys[e].age + 1 ELSE Lag
        /\ wait'[d] = IF wait[d] = 0 THEN 0 ELSE wait[d] - 1
    BY <1>3, <2>1 DEF Tick
  <2> QED
    BY <2>1, <2>2, <2>3, Ages
<1>4. CASE UNCHANGED vars
  BY <1>4 DEF SeenAtFirstListing, SeenBy, vars
<1> QED
  BY <1>1, <1>2, <1>3, <1>4 DEF Next, SeenAtFirstListing

LEMMA NamespaceStaysSpared ==
  ASSUME TypeOK, ScopesAreOld, SeenAtFirstListing, NamespaceSparesReceipts, [Next]_vars
  PROVE  NamespaceSparesReceipts'
<1>1. ASSUME NEW c \in Deployment, NEW d \in Deployment, d # c, Command(c) PROVE SparedBy(d)'
  <2> SUFFICES ASSUME step'[d] = "remove namespace", namespace' = scope'[d]
               PROVE  before'[d] = {}
    BY DEF SparedBy
  <2>1. step[d] = "remove namespace" /\ scope'[d] = scope[d]
    BY <1>1, OthersStay
  <2>2. namespace' = namespace
    BY <1>1, <2>1, NamespaceOfOther
  <2> QED
    BY <1>1, <2>1, <2>2, BeforeSteps DEF NamespaceSparesReceipts
<1>2. ASSUME NEW d \in Deployment, Command(d) PROVE SparedBy(d)'
  <2>1. CASE ListAgain(d)
    <3> SUFFICES ASSUME step'[d] = "remove namespace", namespace' = scope'[d],
                        NEW e \in before'[d]
                 PROVE  FALSE
      BY DEF SparedBy
    <3>1. /\ step[d] = "list again" /\ namespace = scope[d] /\ wait[d] = 0
          /\ MayShow({}) /\ before' = before
      BY <2>1 DEF ListAgain, account, removal, Goto, TypeOK
    <3>2. e \in Deployment /\ keys[e].age \in 0 .. Lag
      BY <3>1, AgeTyped DEF TypeOK
    <3>3. keys[e].there /\ (keys[e].age = Lag \/ keys[e].age + wait[d] >= Delay)
      BY <3>1 DEF SeenAtFirstListing, SeenBy
    <3>4. keys[e].age = Lag
      <4>1. keys[e].age + 0 >= Delay => keys[e].age = Lag
        BY <3>2, Ages
      <4> QED
        BY <3>1, <3>3, <4>1
    <3> QED
      BY <3>1, <3>2, <3>3, <3>4 DEF MayShow
  <2>2. CASE ~ListAgain(d)
    <3>1. step'[d] # "remove namespace"
      BY <1>2, <2>2 DEF TypeOK, Command, EnsureNamespace, CreateReceipt, InstallApp,
         Inspect,
         Claim, Verify, Finish, Probe, Write, Release, Destroy, Unmark, DeleteReceipt,
         List, RemoveNamespace, Goto, Visit, Visited
    <3> QED
      BY <3>1 DEF SparedBy
  <2> QED
    BY <2>1, <2>2
<1>3. CASE Tick \/ UNCHANGED vars
  BY <1>3, TickKeeps DEF NamespaceSparesReceipts
<1> QED
  BY <1>1, <1>2, <1>3 DEF Next, NamespaceSparesReceipts, SparedBy

-----------------------------------------------------------------------------
(* The theorems *)

\* Of several deployments that claim, adopt and let go of repositories at the same
\* time, at most one has verified a repository: what one has verified carries its
\* marker, and a claim verifies nothing that carries another's.
THEOREM OneOwnerAlways == Spec => []OneOwner
<1>1. Init => VerifiedAreMarked /\ OneOwner
  BY DEF Init, VerifiedAreMarked, VerifiedMarked, OneOwner
<1>2. ASSUME TypeOK, VerifiedAreMarked, OneOwner, [Next]_vars PROVE OneOwner'
  <2> SUFFICES ASSUME NEW d \in Deployment, NEW e \in Deployment, d # e,
                      NEW r \in verified'[d], r \in verified'[e]
               PROVE  FALSE
    BY DEF OneOwner
  <2>1. ASSUME NEW c \in Deployment, NEW q, Command(c), q \in verified'[c], q \notin verified[c]
        PROVE  markers[q] = {c}
    <3>1. Verify(c)
      BY <1>2, <2>1 DEF Command, TypeOK, EnsureNamespace, CreateReceipt, InstallApp,
         Inspect,
         Claim, Finish, Probe, Write, Release, Destroy, Unmark, DeleteReceipt, List,
         ListAgain, RemoveNamespace, claims
    <3> QED
      BY <1>2, <2>1, <3>1 DEF Verify, OwnsAlone, TypeOK
  <2>2. \A c \in Deployment : \A q \in verified[c] : c \in markers[q]
    BY <1>2 DEF VerifiedAreMarked, VerifiedMarked
  <2>3. ASSUME NEW c \in Deployment, Command(c) PROVE FALSE
    <3>1. \A o \in Deployment : o # c => verified'[o] = verified[o]
      BY <1>2, <2>3, OthersStay
    <3> QED
      BY <1>2, <2>1, <2>2, <2>3, <3>1 DEF OneOwner
  <2>4. CASE Tick \/ UNCHANGED vars
    BY <1>2, <2>4, TickKeeps DEF OneOwner
  <2> QED
    BY <1>2, <2>3, <2>4 DEF Next
<1> QED
  BY <1>1, <1>2, VerifiedStayMarked, AccountTyped, PTL DEF Spec

\* A deployment that is over has left no marker on a repository, whatever request
\* of its commands failed: a command that lets go visits every repository on
\* record, and forgets none before its marker is gone.
THEOREM NoOrphanMarkerEver == Spec => []NoOrphanMarker
<1>1. Init => VisitsAreRecorded /\ MarkersAreRecorded
  BY DEF Init, VisitsAreRecorded, VisitsRecorded, MarkersAreRecorded, MarkersRecorded
<1>2. MarkersAreRecorded => NoOrphanMarker
  BY DEF MarkersAreRecorded, MarkersRecorded, NoOrphanMarker, Early, Late
<1> QED
  BY <1>1, <1>2, VisitsStayRecorded, MarkersStayRecorded, AccountTyped, PTL DEF Spec

\* A receipt that was stored when the first listing came back empty, and has not
\* been deleted since, keeps the namespace: as long as a listing shows within the
\* delay what was stored before it, and whatever other commands make and remove.
THEOREM NamespaceAlwaysSpares == Spec => []NamespaceSparesReceipts
<1>1. Init => ScopesAreOld /\ SeenAtFirstListing /\ NamespaceSparesReceipts
  BY DEF Init, ScopesAreOld, SeenAtFirstListing, SeenBy, NamespaceSparesReceipts
<1> QED
  BY <1>1, ScopesStayOld, SeenStaysSeen, NamespaceStaysSpared, AccountTyped, PTL DEF Spec
=============================================================================
