--------------------------- MODULE LifecycleProofs ---------------------------
(***************************************************************************)
(* Proofs about module Lifecycle, for every set of versions and any number *)
(* of requests that fail and of commands that die, where the runs allow    *)
(* one or two.                                                             *)
(***************************************************************************)
EXTENDS Lifecycle, FiniteSetTheorems, TLAPS

-----------------------------------------------------------------------------
(* Types. *)

Step ==
  {"idle"}
    \cup {"prepare", "record", "suspend", "drain", "activate", "prune", "resume", "finish",
          "reopen", "reactivate", "resume original", "restore"}
    \cup {"bootstrap", "record stack", "create app", "record app", "configure", "install app",
          "record installations", "claim", "health",
          "release", "remove stack", "remove image", "delete app", "delete receipt"}
    \cup {"deploy over", "record adopted", "inventory", "ownership", "leave installing"}
    \cup {"delete ownership", "delete installations", "destroy stack", "verify", "settle",
          "give up", "record application", "rewrite ownership"}

CommandType ==
  [op : Operation \cup {"none"}, step : Step, target : Version \cup {None},
   tag : Tag \cup {None}, versions : Versions \cup {None}, tags : Tags \cup {None},
   copied : Version \cup {None}, drained : BOOLEAN, credentials : BOOLEAN,
   residue : SUBSET Residue]

\* The steps of a change that know where it goes.
Moving == {"record", "suspend", "drain", "activate", "prune", "resume", "finish"}

CommandOK ==
  /\ command \in CommandType
  /\ command.op = "none" => command = Idle
  /\ command.op \in {"upgrade", "install", "adopt"} => command.target \in Version
  /\ command.op \in Change => command.versions \in Versions /\ command.tags \in Tags
  /\ command.op \in Change /\ command.step \in Moving =>
       command.target \in Version /\ command.tag \in Tag

\* A command that runs has its copy of a receipt that is there, but for a destroy that has
\* removed it and not heard so.
RecordsOK ==
  /\ receipt \in Receipt \cup {NoReceipt}
  /\ held \in Receipt \cup {NoReceipt}
  /\ command.op # "none" =>
       /\ held \in Receipt
       /\ receipt = NoReceipt => command.op = "destroy" /\ command.step = "give up"

StackType == [worker : Version \cup {None}, application : Version \cup {None}, secrets : BOOLEAN]
GitHubType == [app : BOOLEAN, installed : BOOLEAN, suspended : BOOLEAN,
               markers : SUBSET {"own", "foreign"}]

ResourcesOK ==
  /\ stack \in StackType
  /\ registry \in SUBSET Version
  /\ intake \in {"open", "suspended"}
  /\ github \in GitHubType

RestOK ==
  /\ plan \in Plan \cup {NoPlan}
  /\ command.op = "repair" => plan # NoPlan
  /\ cleanup \in SUBSET Version
  /\ abandoned \in SUBSET Version
  /\ excuse \in SUBSET Excuse

CountsOK == faults \in 0 .. MaxFaults /\ crashes \in 0 .. MaxCrashes

Typed == CommandOK /\ RecordsOK /\ ResourcesOK /\ RestOK /\ CountsOK

LEMMA NamesDiffer ==
  /\ None \notin Version /\ Unpushed \notin Version /\ None # Unpushed
  /\ NoReceipt \notin Receipt
BY DeploymentConstants, ReceiptAssumption

LEMMA IdleTyped == Idle \in CommandType /\ Idle.op = "none" /\ Idle.residue = {}
BY DEF Idle, CommandType, Step

LEMMA CountsStep ==
  ASSUME CountsOK, UNCHANGED faults \/ Works \/ Fails,
         UNCHANGED crashes \/ (crashes < MaxCrashes /\ crashes' = crashes + 1)
  PROVE  CountsOK'
BY DeploymentConstants DEF CountsOK, Works, Fails

LEMMA OverTyped ==
  ASSUME NEW r \in Receipt \cup {NoReceipt}, Over(r)
  PROVE  /\ receipt' \in Receipt \cup {NoReceipt} /\ held' = NoReceipt /\ command' = Idle
         /\ CommandOK' /\ RecordsOK'
<1>1. receipt' \in Receipt \cup {NoReceipt}
  BY DEF Over, Receipt
<1> QED
  BY <1>1, IdleTyped DEF Over, CommandOK, RecordsOK, Change, Operation, Idle

\* A command that goes on, with some of what it remembers.
LEMMA MoveTyped ==
  ASSUME CommandOK, NEW s \in Step, command' = [command EXCEPT !.step = s],
         command.op # "none",
         command.op \in Change /\ s \in Moving => command.step \in Moving
  PROVE  /\ CommandOK' /\ command'.op = command.op /\ command'.step = s
<1>1. /\ command'.op = command.op /\ command'.step = s /\ command' \in CommandType
      /\ command'.target = command.target /\ command'.tag = command.tag
      /\ command'.versions = command.versions /\ command'.tags = command.tags
  BY DEF CommandOK, CommandType
<1> QED
  BY <1>1 DEF CommandOK


\* The first step of a command.
LEMMA BeginTyped ==
  ASSUME NEW op \in Operation, NEW s \in Step, NEW v \in Version \cup {None},
         NEW versions \in Versions \cup {None}, NEW tags \in Tags \cup {None},
         command' = [Idle EXCEPT !.op = op, !.step = s, !.target = v,
                                 !.versions = versions, !.tags = tags],
         op \in {"upgrade", "install", "adopt"} => v \in Version,
         op \in Change => versions \in Versions /\ tags \in Tags /\ s \notin Moving
  PROVE  CommandOK' /\ command'.op = op /\ command'.step = s
<1>1. command' \in CommandType /\ command'.op = op /\ command'.step = s
      /\ command'.target = v /\ command'.versions = versions /\ command'.tags = tags
  BY IdleTyped DEF CommandType, Idle
<1> QED
  BY <1>1 DEF CommandOK, Operation

LEMMA RecordTyped ==
  ASSUME Typed, NEW new \in Receipt, NEW next \in Step, NEW failed \in Step,
         Record(new, next, failed), receipt # NoReceipt, command.op # "none", UNCHANGED crashes,
         command.op \in Change => command.step \in Moving
  PROVE  CommandOK' /\ RecordsOK' /\ CountsOK' /\ command'.op = command.op
<1>1. CountsOK'
  BY CountsStep DEF Typed, Record
<1>2. CommandOK' /\ command'.op = command.op
  BY MoveTyped DEF Typed, Record, Goto
<1>3. /\ receipt' \in Receipt /\ held' \in Receipt
  BY DEF Typed, RecordsOK, Record
<1> QED
  BY <1>1, <1>2, <1>3, NamesDiffer DEF RecordsOK

LEMMA SettledTyped ==
  ASSUME NEW phase \in Phase, receipt \in Receipt
  PROVE  /\ Settled(phase) \in Receipt /\ Settled(phase).phase = phase
         /\ Settled(phase).versions = receipt.versions /\ Settled(phase).tags = receipt.tags
         /\ Settled(phase).installed = receipt.installed
BY DEF Settled, Receipt

LEMMA EndTyped ==
  ASSUME Typed, NEW phase \in Phase, SettleAndEnd(phase), UNCHANGED crashes
  PROVE  CommandOK' /\ RecordsOK' /\ CountsOK' /\ command' = Idle
<1>1. LeaseHeld => Settled(phase) \in Receipt
  BY SettledTyped DEF LeaseHeld, Typed, RecordsOK
<1>2. CountsOK'
  BY CountsStep DEF SettleAndEnd, Typed
<1> QED
  BY <1>1, <1>2, OverTyped DEF SettleAndEnd, Typed, RecordsOK

LEMMA DeployedTyped ==
  ASSUME ResourcesOK, NEW v \in Version, NEW secrets \in BOOLEAN, UNCHANGED github,
         DeployedTo(v, secrets) \/ PartlyDeployedTo(v, secrets)
  PROVE  ResourcesOK'
<1>1. registry' \in SUBSET Version /\ intake' \in {"open", "suspended"}
  BY DEF ResourcesOK, DeployedTo, PartlyDeployedTo
<1>2. stack \in StackType
  BY DEF ResourcesOK
<1>3. [worker |-> v, application |-> v, secrets |-> secrets] \in StackType
  BY DEF StackType
<1>4. [stack EXCEPT !.worker = v, !.secrets = secrets] \in StackType
  BY <1>2 DEF StackType
<1>5. [stack EXCEPT !.application = v] \in StackType
  BY <1>2 DEF StackType
<1>6. stack' \in {stack, [worker |-> v, application |-> v, secrets |-> secrets],
                 [stack EXCEPT !.worker = v, !.secrets = secrets],
                 [stack EXCEPT !.application = v]}
  BY DEF DeployedTo, PartlyDeployedTo
<1>7. stack' \in StackType
  BY <1>2, <1>3, <1>4, <1>5, <1>6
<1> QED
  BY <1>1, <1>7 DEF ResourcesOK

LEMMA RemovedTyped ==
  ASSUME ResourcesOK, UNCHANGED <<registry, github>>, Removed \/ PartlyRemoved
  PROVE  ResourcesOK'
<1>1. stack \in StackType
  BY DEF ResourcesOK
<1>2. [stack EXCEPT !.application = None] \in StackType
  BY <1>1 DEF StackType
<1>3. [stack EXCEPT !.worker = None, !.secrets = FALSE] \in StackType
  BY <1>1 DEF StackType
<1>4. NoStack \in StackType
  BY DEF StackType, NoStack
<1>5. /\ intake' \in {"open", "suspended"}
      /\ stack' \in {stack, [stack EXCEPT !.application = None],
                    [stack EXCEPT !.worker = None, !.secrets = FALSE], NoStack}
  BY DEF ResourcesOK, Removed, PartlyRemoved
<1>6. stack' \in StackType
  BY <1>1, <1>2, <1>3, <1>4, <1>5
<1> QED
  BY <1>5, <1>6 DEF ResourcesOK

\* The changes the commands make on GitHub's side.
GitHubChanges ==
  {github, NewApp, [NewApp EXCEPT !.app = FALSE], [github EXCEPT !.installed = TRUE],
   Locks, Unmarked, Locked(Unmarked), Unlocked(github), Unlocked(Unmarked),
   Gone(github), [Gone(github) EXCEPT !.app = FALSE],
   [github EXCEPT !.markers = @ \cup {"own"}], [github EXCEPT !.markers = @ \ {"own"}]}

LEMMA GitHubFields ==
  ASSUME NEW g \in GitHubType
  PROVE  /\ Locked(g) \in GitHubType /\ Unlocked(g) \in GitHubType /\ Gone(g) \in GitHubType
         /\ Locked(g).app = g.app /\ Locked(g).installed = g.installed /\ Locked(g).markers = g.markers
         /\ Unlocked(g).app = g.app /\ Unlocked(g).installed = g.installed
         /\ Unlocked(g).markers = g.markers
         /\ Gone(g).app = g.app /\ Gone(g).markers = g.markers /\ ~Gone(g).installed
<1>1. /\ Unlocked(g) \in GitHubType /\ Unlocked(g).app = g.app
      /\ Unlocked(g).installed = g.installed /\ Unlocked(g).markers = g.markers
  BY DEF Unlocked, GitHubType
<1>2. /\ Locked(g) \in GitHubType /\ Locked(g).app = g.app
      /\ Locked(g).installed = g.installed /\ Locked(g).markers = g.markers
  BY DEF Locked, GitHubType
<1>3. /\ Gone(g) \in GitHubType /\ Gone(g).app = g.app
      /\ Gone(g).markers = g.markers /\ ~Gone(g).installed
  <2> DEFINE u == Unlocked(g)
  <2>1. u \in GitHubType /\ u.app = g.app /\ u.markers = g.markers /\ Gone(g) = [u EXCEPT !.installed = FALSE]
    BY <1>1 DEF Gone
  <2> HIDE DEF u
  <2> QED
    BY <2>1 DEF GitHubType
<1> QED
  BY <1>1, <1>2, <1>3

LEMMA GitHubTyped ==
  ASSUME ResourcesOK, UNCHANGED <<stack, registry>>, intake' \in {intake, "open", "suspended"},
         github' \in GitHubChanges
  PROVE  ResourcesOK'
<1>1. github \in GitHubType
  BY DEF ResourcesOK
<1>2. NewApp \in GitHubType /\ [NewApp EXCEPT !.app = FALSE] \in GitHubType
  BY <1>1 DEF NewApp, GitHubType
<1>3. [github EXCEPT !.installed = TRUE] \in GitHubType
  BY <1>1 DEF GitHubType
<1>4. Gone(github) \in GitHubType /\ Locked(github) \in GitHubType /\ Unlocked(github) \in GitHubType
  BY <1>1, GitHubFields
<1>5. [Gone(github) EXCEPT !.app = FALSE] \in GitHubType
  BY <1>4 DEF GitHubType
<1>6. [github EXCEPT !.markers = @ \cup {"own"}] \in GitHubType
  BY <1>1 DEF GitHubType
<1>7. [github EXCEPT !.markers = @ \ {"own"}] \in GitHubType
  BY <1>1 DEF GitHubType
<1>8. Unmarked \in GitHubType
  BY <1>1, <1>7 DEF Unmarked
<1>9. Locked(Unmarked) \in GitHubType /\ Unlocked(Unmarked) \in GitHubType
  BY <1>8, GitHubFields
<1>10. Locks \in GitHubType
  BY <1>1, <1>4 DEF Locks
<1>11. github' \in GitHubType
  BY <1>1, <1>2, <1>3, <1>4, <1>5, <1>6, <1>7, <1>8, <1>9, <1>10 DEF GitHubChanges
<1> QED
  BY <1>11 DEF ResourcesOK

LEMMA RestKept ==
  ASSUME RestOK, UNCHANGED <<plan, cleanup>>, abandoned' \in SUBSET Version,
         excuse' \in SUBSET Excuse, command'.op \in {command.op, "none"}
  PROVE  RestOK'
BY DEF RestOK

\* A command goes on with its copy of the receipt as it is.
LEMMA GoesOn ==
  ASSUME Typed, NEW s \in Step, command' = [command EXCEPT !.step = s], UNCHANGED records,
         command.op # "none", command.step # "give up",
         command.op \in Change /\ s \in Moving => command.step \in Moving
  PROVE  CommandOK' /\ RecordsOK' /\ command'.op = command.op
<1>1. CommandOK' /\ command'.op = command.op
  BY MoveTyped DEF Typed
<1> QED
  BY <1>1 DEF Typed, RecordsOK, records

\* Failures and crashes are counted one at a time.
LEMMA CountsMove ==
  [Next]_vars =>
    /\ UNCHANGED faults \/ Works \/ Fails
    /\ UNCHANGED crashes \/ (crashes < MaxCrashes /\ crashes' = crashes + 1)
<1> SUFFICES ASSUME [Next]_vars
             PROVE  /\ UNCHANGED faults \/ Works \/ Fails
                    /\ UNCHANGED crashes \/ (crashes < MaxCrashes /\ crashes' = crashes + 1)
  OBVIOUS
<1>1. CASE ChangeStep
  BY <1>1
  DEF ChangeStep, BeginUpgrade, BeginRollback, BeginChange, UpgradeToSame, PrepareUpgrade,
      PrepareRollback, RecordDesired, Record, Suspend, Drain, Reopen, Activate, Prune, Resume,
      FinishChange, Reactivate, ResumeOriginal, Restore, RemoveCopiedTag, rest
<1>2. CASE InstallStep
  BY <1>2
  DEF InstallStep, BeginInstall, Creates, Bootstrap, RecordStack, Record, CreateApp, RecordApp,
      Configure, InstallApp, RecordInstallations, Claim, CheckHealth, FinishInstall, Release,
      RemoveStack, RemoveImage, DeletePartialApp, DeletePartialReceipt, BeginAdopt, DeployOver,
      RecordAdopted, Inventory, ClaimMissing, FinishAdopt, LeaveInstalling, SettleAndEnd, rest
<1>3. CASE TeardownStep
  BY <1>3
  DEF TeardownStep, BeginDestroy, SuspendAll, DrainAll, DeleteOwnership, DeleteInstallations,
      DeleteApp, DestroyStack, PruneAll, Verify, Settle, GiveUp, SettleAndEnd, PlanRepair, DropPlan,
      ReleaseExpired, BeginRepair, RecordApplication, Record, RewriteOwnership, FinishRepair,
      GiveUpRepair, rest
<1>4. CASE Crash
  BY <1>4 DEF Crash
<1>5. CASE UNCHANGED vars
  BY <1>5 DEF vars
<1> QED
  BY <1>1, <1>2, <1>3, <1>4, <1>5 DEF Next

LEMMA CountsAlways == Typed /\ [Next]_vars => CountsOK'
BY CountsMove, CountsStep DEF Typed

LEMMA BeginChangeTyped ==
  ASSUME Typed, NEW op \in Change, NEW v \in Version \cup {None}, BeginChange(op, v),
         op = "upgrade" => v \in Version
  PROVE  Typed'
<1>1. receipt \in Receipt /\ command.op = "none"
  BY IdleTyped DEF Typed, RecordsOK, BeginChange, CanBegin
<1>2. CommandOK' /\ command'.op = op
  <2>1. /\ op \in Operation \ {"install", "adopt"} /\ "prepare" \in Step \ Moving
        /\ receipt.versions \in Versions /\ receipt.tags \in Tags
    BY <1>1 DEF Change, Operation, Receipt, Step, Moving
  <2> QED
    BY <2>1, BeginTyped DEF BeginChange
<1>3. RecordsOK'
  <2>1. receipt' \in Receipt /\ held' \in Receipt
    BY <1>1 DEF BeginChange, Acquire, Receipt, Phase
  <2> QED
    BY <2>1, NamesDiffer DEF RecordsOK
<1>4. RestOK'
  <2>1. op # "repair" /\ excuse' \in SUBSET Excuse
    BY DEF Change, BeginChange, Typed, RestOK, Excuse, TakenOver
  <2> QED
    BY <1>2, <2>1 DEF Typed, RestOK, BeginChange
<1>5. ResourcesOK' /\ CountsOK'
  BY DEF BeginChange, resources, Typed, ResourcesOK, CountsOK
<1> QED
  BY <1>2, <1>3, <1>4, <1>5 DEF Typed

LEMMA IntakeTyped ==
  ASSUME ResourcesOK, UNCHANGED <<stack, github>>, registry' \in SUBSET Version,
         intake' \in {intake, "open", "suspended"}
  PROVE  ResourcesOK'
BY DEF ResourcesOK

LEMMA ResourcesKept ==
  ASSUME ResourcesOK, UNCHANGED resources
  PROVE  ResourcesOK'
BY DEF ResourcesOK, resources

\* A step of a command but one that begins or touches a plan.
LEMMA TypedBy ==
  ASSUME Typed, CountsOK', CommandOK', RecordsOK', ResourcesOK', UNCHANGED <<plan, cleanup>>,
         abandoned' \in SUBSET Version, excuse' \in SUBSET Excuse,
         command'.op \in {command.op, "none"}
  PROVE  Typed'
BY RestKept DEF Typed

\* A command goes on, and nothing else of what is recorded changes.
LEMMA GoesOnTyped ==
  ASSUME Typed, CountsOK', NEW s \in Step, command' = [command EXCEPT !.step = s],
         UNCHANGED <<records, plan, cleanup, abandoned, excuse>>, ResourcesOK',
         command.op # "none", command.step # "give up",
         command.op \in Change /\ s \in Moving => command.step \in Moving
  PROVE  Typed'
<1>1. CommandOK' /\ RecordsOK' /\ command'.op = command.op
  BY GoesOn
<1> QED
  BY <1>1, TypedBy DEF Typed, RestOK

LEMMA PruneVersions ==
  ASSUME registry \in SUBSET Version, NEW tags
  PROVE  Pruned(tags) \in SUBSET Version
BY DEF Pruned

LEMMA ChangeTyped ==
  ASSUME Typed, ChangeStep
  PROVE  Typed'
<1>0. CountsOK'
  BY CountsAlways DEF Next
<1>1. CASE BeginUpgrade
  BY <1>1, BeginChangeTyped DEF BeginUpgrade, Change
<1>2. CASE BeginRollback
  BY <1>2, BeginChangeTyped DEF BeginRollback, Change
<1>3. CASE UpgradeToSame
  <2>1. ResourcesOK' /\ UNCHANGED <<plan, cleanup, abandoned, excuse>>
    BY <1>3, ResourcesKept DEF UpgradeToSame, rest, Typed
  <2>2. command.op = "upgrade" /\ receipt \in Receipt /\ held \in Receipt
    BY <1>3 DEF UpgradeToSame, At, Typed, RecordsOK
  <2>3. Settled("active") \in Receipt
    BY <2>2, SettledTyped DEF Phase
  <2>4. CASE LeaseHeld /\ Over(Settled("active"))
    <3>1. CommandOK' /\ RecordsOK' /\ command'.op = "none"
      BY <2>3, <2>4, OverTyped, IdleTyped
    <3> QED
      BY <1>0, <2>1, <3>1, TypedBy DEF Typed, RestOK
  <2>5. CASE receipt' \in {receipt, Settled("active")} /\ held' = held /\ Goto("restore")
    <3>1. CommandOK' /\ command'.op = command.op
      BY <2>2, <2>5, MoveTyped DEF Typed, Goto, Step, Moving
    <3>2. RecordsOK'
      BY <2>2, <2>3, <2>5, NamesDiffer DEF RecordsOK
    <3> QED
      BY <1>0, <2>1, <3>1, <3>2, TypedBy DEF Typed, RestOK
  <2> QED
    BY <1>3, <2>4, <2>5 DEF UpgradeToSame
<1>4. CASE PrepareUpgrade
  <2>1. command.op = "upgrade" /\ command.step = "prepare" /\ command \in CommandType
        /\ command.target \in Version /\ UNCHANGED <<plan, cleanup, abandoned, excuse, records>>
    BY <1>4 DEF PrepareUpgrade, At, Typed, CommandOK, rest
  <2>2. ResourcesOK'
    BY <1>4, <2>1, IntakeTyped DEF PrepareUpgrade, Typed, ResourcesOK
  <2>3. CASE Goto("restore")
    BY <1>0, <2>1, <2>2, <2>3, GoesOnTyped DEF Goto, Step, Moving
  <2>4. CASE command' = [command EXCEPT !.step = "record", !.tag = command.target,
                                        !.copied = command.target]
    <3>1. /\ command' \in CommandType /\ command'.op = command.op
          /\ command'.target = command.target /\ command'.tag = command.target
          /\ command'.versions = command.versions /\ command'.tags = command.tags
      <4>1. "record" \in Step /\ command.target \in Tag
        BY <2>1 DEF Step, Tag
      <4> QED
        BY <2>1, <2>4, <4>1 DEF CommandType
    <3>2. CommandOK' /\ RecordsOK'
      BY <2>1, <3>1 DEF Typed, CommandOK, RecordsOK, Tag, records
    <3> QED
      BY <1>0, <2>1, <2>2, <3>1, <3>2, TypedBy DEF Typed, RestOK
  <2> QED
    BY <1>4, <2>3, <2>4 DEF PrepareUpgrade
<1>5. CASE PrepareRollback
  <2>1. command.op = "rollback" /\ command.step = "prepare" /\ command \in CommandType
        /\ command.versions \in Versions /\ command.tags \in Tags
        /\ UNCHANGED <<plan, cleanup, abandoned, excuse, records>>
    BY <1>5 DEF PrepareRollback, At, Typed, CommandOK, rest, Change
  <2>2. ResourcesOK'
    BY <1>5, ResourcesKept DEF PrepareRollback, Typed
  <2>3. CASE Goto("restore")
    BY <1>0, <2>1, <2>2, <2>3, GoesOnTyped DEF Goto, Step, Moving
  <2>4. CASE /\ command.versions.previous # None /\ command.tags.previous # None
             /\ command' = [command EXCEPT !.step = "record",
                                           !.target = command.versions.previous,
                                           !.tag = command.tags.previous]
    <3>1. command.versions.previous \in Version /\ command.tags.previous \in Tag
      BY <2>1, <2>4 DEF Versions, Tags
    <3>2. /\ command' \in CommandType /\ command'.op = command.op
          /\ command'.target \in Version /\ command'.tag \in Tag
          /\ command'.versions = command.versions /\ command'.tags = command.tags
      <4>1. "record" \in Step
        BY DEF Step
      <4> QED
        BY <2>1, <2>4, <3>1, <4>1 DEF CommandType
    <3>3. CommandOK' /\ RecordsOK'
      BY <2>1, <3>2 DEF Typed, CommandOK, RecordsOK, records
    <3> QED
      BY <1>0, <2>1, <2>2, <3>2, <3>3, TypedBy DEF Typed, RestOK
  <2> QED
    BY <1>5, <2>3, <2>4 DEF PrepareRollback
<1>6. CASE RecordDesired
  <2>1. /\ command.op \in Change /\ command.step = "record" /\ receipt \in Receipt
        /\ command.target \in Version /\ command.tag \in Tag
        /\ command.versions \in Versions /\ command.tags \in Tags
    BY <1>6 DEF RecordDesired, At, Typed, CommandOK, RecordsOK, Change, Moving
  <2>2. [receipt EXCEPT !.versions = Desired.versions, !.tags = Desired.tags] \in Receipt
    BY <2>1 DEF Receipt, Desired, Versions, Tags
  <2>3. CommandOK' /\ RecordsOK' /\ command'.op = command.op
    BY <1>6, <2>1, <2>2, RecordTyped, NamesDiffer
    DEF RecordDesired, Step, Moving, Change, rest
  <2> QED
    BY <1>0, <1>6, <2>3, TypedBy, ResourcesKept DEF RecordDesired, rest, Typed, RestOK
<1>7. CASE Suspend
  <2>1. command.op \in Change /\ command.step = "suspend" /\ ResourcesOK'
        /\ UNCHANGED <<plan, cleanup, abandoned, excuse, records>>
    BY <1>7, IntakeTyped DEF Suspend, At, rest, Typed, ResourcesOK, IntakeSetTo
  <2>2. Goto("drain") \/ Goto("reopen")
    BY <1>7 DEF Suspend
  <2> QED
    BY <1>0, <2>1, <2>2, GoesOnTyped DEF Goto, Step, Moving, Change
<1>8. CASE Drain
  <2>1. command.op \in Change /\ command.step = "drain" /\ ResourcesOK'
        /\ command \in CommandType
        /\ UNCHANGED <<plan, cleanup, abandoned, excuse, records>>
    BY <1>8, ResourcesKept DEF Drain, At, rest, Typed, CommandOK
  <2>2. CASE Goto("reopen")
    BY <1>0, <2>1, <2>2, GoesOnTyped DEF Goto, Step, Moving, Change
  <2>3. CASE command' = [command EXCEPT !.step = "activate", !.drained = TRUE]
    <3>1. /\ command' \in CommandType /\ command'.op = command.op
          /\ command'.target = command.target /\ command'.tag = command.tag
          /\ command'.versions = command.versions /\ command'.tags = command.tags
      <4>1. "activate" \in Step
        BY DEF Step
      <4> QED
        BY <2>1, <2>3, <4>1 DEF CommandType
    <3>2. CommandOK' /\ RecordsOK'
      BY <2>1, <3>1 DEF Typed, CommandOK, RecordsOK, Moving, Change, records
    <3> QED
      BY <1>0, <2>1, <3>1, <3>2, TypedBy DEF Typed, RestOK
  <2> QED
    BY <1>8, <2>2, <2>3 DEF Drain
<1>9. CASE Reopen
  <2>1. command.op \in Change /\ command.step = "reopen" /\ ResourcesOK'
        /\ UNCHANGED <<plan, cleanup, abandoned, records>> /\ excuse' \in SUBSET Excuse
    BY <1>9, IntakeTyped DEF Reopen, At, Typed, ResourcesOK, IntakeSetTo, RestOK, Excuse
  <2>2. CommandOK' /\ RecordsOK' /\ command'.op = command.op
    BY <1>9, <2>1, GoesOn DEF Reopen, Goto, Step, Moving, Change
  <2> QED
    BY <1>0, <2>1, <2>2, TypedBy DEF Typed, RestOK
<1>10. CASE Activate
  <2>1. /\ command.op \in Change /\ command.step = "activate" /\ command.target \in Version
        /\ stack.secrets \in BOOLEAN /\ UNCHANGED <<plan, cleanup, abandoned, excuse, records, github>>
    BY <1>10 DEF Activate, At, Typed, CommandOK, ResourcesOK, StackType, rest, Change, Moving
  <2>2. ResourcesOK'
    BY <1>10, <2>1, DeployedTyped DEF Activate, Typed
  <2>3. Goto("prune") \/ Goto("resume") \/ Goto("reactivate")
    BY <1>10 DEF Activate
  <2> QED
    BY <1>0, <2>1, <2>2, <2>3, GoesOnTyped DEF Goto, Step, Moving, Change
<1>11. CASE Prune
  <2>1. command.op = "upgrade" /\ command.step = "prune"
        /\ UNCHANGED <<plan, cleanup, abandoned, excuse, records, stack, intake, github>>
    BY <1>11 DEF Prune, At, rest
  <2>2. ResourcesOK'
    BY <1>11, <2>1, IntakeTyped, PruneVersions DEF Prune, Typed, ResourcesOK
  <2>3. Goto("resume") \/ Goto("reactivate")
    BY <1>11 DEF Prune
  <2> QED
    BY <1>0, <2>1, <2>2, <2>3, GoesOnTyped DEF Goto, Step, Moving, Change
<1>12. CASE Resume
  <2>1. command.op \in Change /\ command.step = "resume" /\ ResourcesOK'
        /\ UNCHANGED <<plan, cleanup, abandoned, excuse, records>>
    BY <1>12, IntakeTyped DEF Resume, At, rest, Typed, ResourcesOK, IntakeSetTo
  <2>2. Goto("finish") \/ Goto("reactivate")
    BY <1>12 DEF Resume
  <2> QED
    BY <1>0, <2>1, <2>2, GoesOnTyped DEF Goto, Step, Moving, Change
<1>13. CASE FinishChange
  <2> DEFINE new == [Settled("active") EXCEPT !.versions = Desired.versions, !.tags = Desired.tags]
  <2>1. /\ command.op \in Change /\ command.step = "finish" /\ receipt \in Receipt /\ held \in Receipt
        /\ command.target \in Version /\ command.tag \in Tag
        /\ command.versions \in Versions /\ command.tags \in Tags
    BY <1>13 DEF FinishChange, At, Typed, CommandOK, RecordsOK, Change, Moving
  <2>2. new \in Receipt
    <3>1. Settled("active") \in Receipt
      BY <2>1, SettledTyped DEF Phase
    <3> QED
      BY <2>1, <3>1 DEF Receipt, Desired, Versions, Tags
  <2>3. ResourcesOK' /\ UNCHANGED <<plan, cleanup, abandoned>> /\ excuse' \in SUBSET Excuse
    BY <1>13, ResourcesKept DEF FinishChange, Typed, RestOK, Excuse, Stays
  <2>4. CommandOK' /\ RecordsOK' /\ command'.op \in {command.op, "none"}
    <3>1. CASE Over(new)
      BY <2>2, <3>1, OverTyped, IdleTyped
    <3>2. CASE receipt' \in {receipt, new} /\ Goto("reactivate") /\ held' = held
      <4>1. CommandOK' /\ command'.op = command.op
        BY <2>1, <3>2, MoveTyped DEF Typed, Goto, Step, Moving, Change
      <4> QED
        BY <2>1, <2>2, <3>2, <4>1, NamesDiffer DEF RecordsOK
    <3> QED
      BY <1>13, <3>1, <3>2 DEF FinishChange
  <2> QED
    BY <1>0, <2>3, <2>4, TypedBy DEF Typed, RestOK
<1>14. CASE Reactivate
  <2>1. /\ command.op \in Change /\ command.step = "reactivate" /\ receipt \in Receipt \cup {NoReceipt}
        /\ command.versions.current \in Version
        /\ stack.secrets \in BOOLEAN /\ UNCHANGED <<plan, cleanup, excuse, github>>
    BY <1>14 DEF Reactivate, At, Typed, CommandOK, RecordsOK, ResourcesOK, StackType, Versions
  <2>2. ResourcesOK'
    BY <1>14, <2>1, DeployedTyped DEF Reactivate, Typed
  <2>3. CommandOK' /\ RecordsOK' /\ command'.op \in {command.op, "none"}
    <3>1. CASE Over(receipt)
      BY <2>1, <3>1, OverTyped, IdleTyped
    <3>2. CASE Goto("resume original") /\ UNCHANGED records
      BY <2>1, <3>2, GoesOn DEF Goto, Step, Moving, Change
    <3> QED
      BY <1>14, <3>1, <3>2 DEF Reactivate
  <2>4. abandoned' \in SUBSET Version
    BY <1>14, <2>2 DEF Reactivate, Typed, RestOK, ResourcesOK
  <2> QED
    BY <1>0, <2>1, <2>2, <2>3, <2>4, TypedBy DEF Typed, RestOK
<1>15. CASE ResumeOriginal
  <2>1. command.op \in Change /\ command.step = "resume original" /\ ResourcesOK'
        /\ receipt \in Receipt \cup {NoReceipt} /\ UNCHANGED <<plan, cleanup, abandoned, excuse>>
    BY <1>15, IntakeTyped
    DEF ResumeOriginal, At, rest, Typed, ResourcesOK, RecordsOK, IntakeSetTo
  <2>2. CommandOK' /\ RecordsOK' /\ command'.op \in {command.op, "none"}
    <3>1. CASE Over(receipt)
      BY <2>1, <3>1, OverTyped, IdleTyped
    <3>2. CASE Goto("restore") /\ UNCHANGED records
      BY <2>1, <3>2, GoesOn DEF Goto, Step, Moving, Change
    <3> QED
      BY <1>15, <3>1, <3>2 DEF ResumeOriginal
  <2> QED
    BY <1>0, <2>1, <2>2, TypedBy DEF Typed, RestOK
<1>16. CASE Restore
  <2>1. /\ command.op \in Change /\ receipt \in Receipt /\ ResourcesOK'
        /\ command \in CommandType
        /\ command.versions \in Versions /\ command.tags \in Tags
        /\ UNCHANGED <<plan, abandoned>> /\ excuse' \in SUBSET Excuse
    BY <1>16, ResourcesKept
    DEF Restore, At, Typed, CommandOK, RecordsOK, RestOK, Excuse, Stays, Change
  <2>2. OriginalReceipt \in Receipt
    <3>1. Settled("active") \in Receipt
      BY <2>1, SettledTyped DEF Phase
    <3> QED
      BY <2>1, <3>1 DEF OriginalReceipt, Receipt
  <2>3. CommandOK' /\ RecordsOK' /\ command'.op = "none"
    <3>1. Over(receipt) \/ Over(OriginalReceipt)
      BY <1>16 DEF Restore
    <3> QED
      BY <2>1, <2>2, <3>1, OverTyped, IdleTyped
  <2>4. cleanup' \in SUBSET Version
    BY <1>16, <2>1 DEF Restore, CopiedTag, CommandType, Typed, RestOK
  <2> QED
    BY <1>0, <2>1, <2>3, <2>4 DEF Typed, RestOK
<1>17. CASE RemoveCopiedTag
  <2>1. ResourcesOK'
    BY <1>17, IntakeTyped, PruneVersions DEF RemoveCopiedTag, Typed, ResourcesOK
  <2>2. CommandOK' /\ RecordsOK'
    BY <1>17 DEF RemoveCopiedTag, Typed, CommandOK, RecordsOK, records
  <2>3. RestOK'
    BY <1>17 DEF RemoveCopiedTag, Typed, RestOK
  <2> QED
    BY <1>0, <2>1, <2>2, <2>3 DEF Typed
<1> QED
  BY <1>1, <1>2, <1>3, <1>4, <1>5, <1>6, <1>7, <1>8, <1>9, <1>10, <1>11, <1>12, <1>13, <1>14,
     <1>15, <1>16, <1>17
  DEF ChangeStep

\* A step of an install, adopt, destroy or repair that ends the command or goes on, with
\* the receipt as it is.
LEMMA MovesTyped ==
  ASSUME Typed, CountsOK', command.op \in Operation \ Change, command.step # "give up",
         NEW s \in Step,
         UNCHANGED <<plan, cleanup, excuse>>, abandoned' \in SUBSET Version, ResourcesOK',
         (Goto(s) /\ UNCHANGED records) \/ Over(receipt)
  PROVE  Typed'
<1>1. CASE Goto(s) /\ UNCHANGED records
  <2>1. CommandOK' /\ RecordsOK' /\ command'.op = command.op
    BY <1>1, GoesOn DEF Goto, Operation
  <2> QED
    BY <2>1, TypedBy DEF Typed, RestOK
<1>2. CASE Over(receipt)
  <2>1. CommandOK' /\ RecordsOK' /\ command'.op = "none"
    BY <1>2, OverTyped, IdleTyped DEF Typed, RecordsOK
  <2> QED
    BY <2>1, TypedBy DEF Typed, RestOK
<1> QED
  BY <1>1, <1>2

LEMMA RecordsTyped ==
  ASSUME Typed, CountsOK', command.op \in Operation \ Change, receipt # NoReceipt,
         NEW new \in Receipt, NEW next \in Step, NEW failed \in Step,
         Record(new, next, failed), UNCHANGED <<resources, rest>>
  PROVE  Typed'
<1>1. CommandOK' /\ RecordsOK' /\ command'.op = command.op
  BY RecordTyped DEF rest, Operation
<1> QED
  BY <1>1, TypedBy, ResourcesKept DEF rest, Typed, RestOK

\* finish, of which the answer may be lost.
LEMMA FinishTyped ==
  ASSUME Typed, CountsOK', command.op \in Operation \ Change, receipt # NoReceipt,
         NEW new \in Receipt, NEW s \in Step,
         UNCHANGED <<resources, plan, cleanup, abandoned>>, excuse' \in SUBSET Excuse,
         Over(new) \/ (receipt' \in {receipt, new} /\ held' = held /\ Goto(s))
  PROVE  Typed'
<1>1. CASE Over(new)
  <2>1. CommandOK' /\ RecordsOK' /\ command'.op = "none"
    BY <1>1, OverTyped, IdleTyped
  <2> QED
    BY <2>1, TypedBy, ResourcesKept DEF Typed, RestOK
<1>2. CASE receipt' \in {receipt, new} /\ held' = held /\ Goto(s)
  <2>1. CommandOK' /\ command'.op = command.op
    BY <1>2, MoveTyped DEF Typed, Goto, Operation
  <2>2. RecordsOK'
    BY <1>2, <2>1, NamesDiffer DEF Typed, RecordsOK, Operation
  <2> QED
    BY <2>1, <2>2, TypedBy, ResourcesKept DEF Typed, RestOK
<1> QED
  BY <1>1, <1>2

LEMMA FreshTyped ==
  ASSUME NEW v \in Version
  PROVE  /\ FreshReceipt(v) \in Receipt /\ FreshReceipt(v).versions.current = v
         /\ [FreshReceipt(v) EXCEPT !.application = TRUE] \in Receipt
         /\ [FreshReceipt(v) EXCEPT !.application = TRUE].versions.current = v
<1>1. /\ [current |-> v, previous |-> None] \in Versions
      /\ [current |-> Unpushed, previous |-> None] \in Tags
  BY DEF Versions, Tags, Tag
<1> QED
  BY <1>1 DEF FreshReceipt, Receipt, Phase

LEMMA CreatesTyped ==
  ASSUME Typed, CountsOK', command.op = "none", NEW new \in Receipt, NEW op \in {"install", "adopt"},
         NEW s \in Step, Creates(new, op, s), excuse' \in SUBSET Excuse,
         UNCHANGED <<resources, plan, cleanup, abandoned>>
  PROVE  Typed'
<1>1. new.versions.current \in Version
  BY DEF Receipt, Versions
<1>2. CommandOK' /\ RecordsOK' /\ command'.op \in {op, "none"}
  <2>1. CASE Over(receipt) \/ Over(new)
    BY <2>1, OverTyped, IdleTyped DEF Typed, RecordsOK
  <2>2. CASE /\ receipt' = new /\ held' = new
             /\ command' = [Idle EXCEPT !.op = op, !.step = s, !.target = new.versions.current]
    <3>1. /\ command' \in CommandType /\ command'.op = op
          /\ command'.target = new.versions.current
      BY <1>1, <2>2, IdleTyped DEF Operation, Idle, CommandType
    <3>2. CommandOK'
      BY <1>1, <3>1 DEF CommandOK, Change
    <3> QED
      BY <2>2, <3>1, <3>2, NamesDiffer DEF RecordsOK
  <2> QED
    BY <2>1, <2>2 DEF Creates
<1>3. RestOK'
  BY <1>2 DEF Typed, RestOK
<1> QED
  BY <1>2, <1>3, ResourcesKept DEF Typed

LEMMA InstallTyped ==
  ASSUME Typed, InstallStep
  PROVE  Typed'
<1>0. CountsOK'
  BY CountsAlways DEF Next
<1>1. CASE BeginInstall
  <2>1. command.op = "none" /\ excuse' \in SUBSET Excuse
    BY <1>1, IdleTyped DEF BeginInstall
  <2> QED
    BY <1>0, <1>1, <2>1, FreshTyped, CreatesTyped DEF BeginInstall, Step
<1>2. CASE Bootstrap
  <2>1. /\ command.op = "install" /\ command.step # "give up" /\ command.target \in Version
        /\ stack.secrets \in BOOLEAN /\ UNCHANGED github
    BY <1>2 DEF Bootstrap, At, Typed, CommandOK, ResourcesOK, StackType
  <2>2. ResourcesOK'
    BY <1>2, <2>1, DeployedTyped DEF Bootstrap, Typed
  <2> QED
    BY <1>0, <1>2, <2>1, <2>2, MovesTyped DEF Bootstrap, rest, Typed, RestOK, Operation, Change, Step
<1>3. CASE RecordStack
  <2>1. command.op = "install" /\ command.step # "give up" /\ receipt \in Receipt
    BY <1>3 DEF RecordStack, At, Typed, RecordsOK
  <2>2. [receipt EXCEPT !.application = TRUE, !.tags.current = command.target] \in Receipt
    BY <1>3, <2>1 DEF RecordStack, At, Typed, CommandOK, ResourcesOK, Receipt, Tags, Tag
  <2> QED
    BY <1>0, <1>3, <2>1, <2>2, RecordsTyped, NamesDiffer DEF RecordStack, Operation, Change, Step
<1>4. CASE CreateApp
  <2>1. github' \in GitHubChanges
    BY <1>4 DEF CreateApp, GitHubChanges
  <2>2. command.op = "install" /\ command.step # "give up" /\ ResourcesOK' /\ command \in CommandType
    BY <1>4, <2>1, GitHubTyped DEF CreateApp, At, Typed, CommandOK
  <2>3. CASE Goto("release")
    BY <1>0, <1>4, <2>2, <2>3, MovesTyped
    DEF CreateApp, rest, Typed, RestOK, Operation, Change, Step
  <2>4. CASE command' = [command EXCEPT !.step = "record app", !.credentials = TRUE]
    <3>1. /\ command' \in CommandType /\ command'.op = command.op
          /\ command'.target = command.target
      <4>1. "record app" \in Step
        BY DEF Step
      <4> QED
        BY <2>2, <2>4, <4>1 DEF CommandType
    <3>2. CommandOK' /\ RecordsOK'
      BY <1>4, <2>2, <3>1 DEF CreateApp, Typed, CommandOK, RecordsOK, Change, records
    <3> QED
      BY <1>0, <1>4, <2>2, <3>1, <3>2, TypedBy DEF CreateApp, rest, Typed, RestOK
  <2> QED
    BY <1>4, <2>3, <2>4 DEF CreateApp
<1>5. CASE RecordApp
  <2>1. command.op = "install" /\ command.step # "give up" /\ receipt \in Receipt
    BY <1>5 DEF RecordApp, At, Typed, RecordsOK
  <2>2. [receipt EXCEPT !.app = TRUE] \in Receipt
    BY <1>5, <2>1 DEF RecordApp, At, Typed, CommandOK, ResourcesOK, Receipt, Tags, Tag
  <2> QED
    BY <1>0, <1>5, <2>1, <2>2, RecordsTyped, NamesDiffer DEF RecordApp, Operation, Change, Step
<1>6. CASE Configure
  <2>1. /\ command.op = "install" /\ command.step # "give up" /\ command.target \in Version
        /\ stack.secrets \in BOOLEAN /\ UNCHANGED github
    BY <1>6 DEF Configure, At, Typed, CommandOK, ResourcesOK, StackType
  <2>2. ResourcesOK'
    BY <1>6, <2>1, DeployedTyped DEF Configure, Typed
  <2> QED
    BY <1>0, <1>6, <2>1, <2>2, MovesTyped DEF Configure, rest, Typed, RestOK, Operation, Change, Step
<1>7. CASE InstallApp
  <2>1. github' \in GitHubChanges
    BY <1>7 DEF InstallApp, GitHubChanges
  <2>2. command.op = "install" /\ command.step # "give up" /\ ResourcesOK'
    BY <1>7, <2>1, GitHubTyped DEF InstallApp, At, Typed
  <2> QED
    BY <1>0, <1>7, <2>2, MovesTyped DEF InstallApp, rest, Typed, RestOK, Operation, Change, Step
<1>8. CASE RecordInstallations
  <2>1. command.op = "install" /\ command.step # "give up" /\ receipt \in Receipt
    BY <1>8 DEF RecordInstallations, At, Typed, RecordsOK
  <2>2. [receipt EXCEPT !.installed = TRUE] \in Receipt
    BY <1>8, <2>1 DEF RecordInstallations, At, Typed, CommandOK, ResourcesOK, Receipt, Tags, Tag
  <2> QED
    BY <1>0, <1>8, <2>1, <2>2, RecordsTyped, NamesDiffer DEF RecordInstallations, Operation, Change, Step
<1>9. CASE Claim
  <2>1. github' \in GitHubChanges
    BY <1>9 DEF Claim, GitHubChanges, Marked
  <2>2. command.op = "install" /\ command.step # "give up" /\ ResourcesOK'
    BY <1>9, <2>1, GitHubTyped DEF Claim, At, Typed
  <2> QED
    BY <1>0, <1>9, <2>2, MovesTyped DEF Claim, rest, Typed, RestOK, Operation, Change, Step
<1>10. CASE CheckHealth
  <2>1. command.op = "install" /\ command.step # "give up" /\ ResourcesOK'
    BY <1>10, ResourcesKept DEF CheckHealth, At, Typed
  <2> QED
    BY <1>0, <1>10, <2>1, MovesTyped DEF CheckHealth, rest, Typed, RestOK, Operation, Change, Step
<1>11. CASE FinishInstall
  <2>1. command.op = "install" /\ receipt \in Receipt /\ excuse' \in SUBSET Excuse
    BY <1>11 DEF FinishInstall, At, Typed, RecordsOK, RestOK, Excuse
  <2>2. Settled("active") \in Receipt
    BY <2>1, SettledTyped DEF Phase
  <2> QED
    BY <1>0, <1>11, <2>1, <2>2, FinishTyped, NamesDiffer
    DEF FinishInstall, Operation, Change, Step
<1>12. CASE Release
  <2>1. github' \in GitHubChanges
    BY <1>12 DEF Release, GitHubChanges, Released
  <2>2. command.op = "install" /\ command.step # "give up" /\ ResourcesOK'
    BY <1>12, <2>1, GitHubTyped DEF Release, At, Typed
  <2> QED
    BY <1>0, <1>12, <2>2, MovesTyped DEF Release, rest, Typed, RestOK, Operation, Change, Step
<1>13. CASE RemoveStack
  <2>1. command.op = "install" /\ command.step # "give up" /\ ResourcesOK'
    BY <1>13, RemovedTyped DEF RemoveStack, At, Typed
  <2> QED
    BY <1>0, <1>13, <2>1, MovesTyped DEF RemoveStack, rest, Typed, RestOK, Operation, Change, Step
<1>14. CASE RemoveImage
  <2>1. command.op = "install" /\ command.step # "give up" /\ ResourcesOK'
    BY <1>14, IntakeTyped, PruneVersions DEF RemoveImage, At, Typed, ResourcesOK
  <2> QED
    BY <1>0, <1>14, <2>1, MovesTyped DEF RemoveImage, rest, Typed, RestOK, Operation, Change, Step
<1>15. CASE DeletePartialApp
  <2>1. github' \in GitHubChanges
    BY <1>15 DEF DeletePartialApp, GitHubChanges
  <2>2. command.op = "install" /\ command.step # "give up" /\ ResourcesOK'
    BY <1>15, <2>1, GitHubTyped DEF DeletePartialApp, At, Typed
  <2> QED
    BY <1>0, <1>15, <2>2, MovesTyped DEF DeletePartialApp, rest, Typed, RestOK, Operation, Change, Step
<1>16. CASE DeletePartialReceipt
  <2>1. CommandOK' /\ RecordsOK' /\ command'.op = "none"
    BY <1>16, OverTyped, IdleTyped DEF DeletePartialReceipt, Typed, RecordsOK
  <2> QED
    BY <1>0, <1>16, <2>1, TypedBy, ResourcesKept DEF DeletePartialReceipt, rest, Typed, RestOK
<1>17. CASE BeginAdopt
  <2>1. PICK v \in Version :
          \/ /\ Creates([FreshReceipt(v) EXCEPT !.application = TRUE], "adopt", "deploy over")
             /\ excuse' = {}
          \/ /\ CanBegin /\ receipt.phase = "installing" /\ Acquire("installing")
             /\ command' = [Idle EXCEPT !.op = "adopt", !.step = "deploy over", !.target = v]
             /\ excuse' = IF v = receipt.versions.current THEN excuse
                          ELSE excuse \cup {"resumed with another version"}
    BY <1>17 DEF BeginAdopt
  <2>2. command.op = "none" /\ UNCHANGED <<resources, plan, cleanup, abandoned>>
    BY <1>17, IdleTyped DEF BeginAdopt
  <2>3. CASE /\ Creates([FreshReceipt(v) EXCEPT !.application = TRUE], "adopt", "deploy over")
             /\ excuse' = {}
    BY <1>0, <2>2, <2>3, FreshTyped, CreatesTyped DEF Step
  <2>4. CASE /\ CanBegin /\ receipt.phase = "installing" /\ Acquire("installing")
             /\ command' = [Idle EXCEPT !.op = "adopt", !.step = "deploy over", !.target = v]
             /\ excuse' = IF v = receipt.versions.current THEN excuse
                          ELSE excuse \cup {"resumed with another version"}
    <3>1. receipt \in Receipt
      BY <2>4 DEF CanBegin, Typed, RecordsOK
    <3>2. receipt' \in Receipt /\ held' \in Receipt
      BY <2>4, <3>1 DEF Acquire, Receipt, Phase
    <3>3. /\ command' \in CommandType /\ command'.op = "adopt" /\ command'.target = v
      BY <2>4, IdleTyped DEF Operation, Idle, CommandType, Step
    <3>4. CommandOK' /\ RecordsOK'
      BY <3>2, <3>3, NamesDiffer DEF CommandOK, RecordsOK, Change
    <3>5. RestOK'
      BY <2>2, <2>4, <3>3 DEF Typed, RestOK, Excuse
    <3> QED
      BY <1>0, <2>2, <3>4, <3>5, ResourcesKept DEF Typed
  <2> QED
    BY <2>1, <2>3, <2>4
<1>18. CASE DeployOver
  <2>1. /\ command.op = "adopt" /\ command.step # "give up" /\ command.target \in Version
        /\ stack.secrets \in BOOLEAN /\ UNCHANGED github
    BY <1>18 DEF DeployOver, At, Typed, CommandOK, ResourcesOK, StackType
  <2>2. ResourcesOK'
    BY <1>18, <2>1, DeployedTyped DEF DeployOver, Typed
  <2> QED
    BY <1>0, <1>18, <2>1, <2>2, MovesTyped DEF DeployOver, rest, Typed, RestOK, Operation, Change, Step
<1>19. CASE RecordAdopted
  <2>1. command.op = "adopt" /\ command.step # "give up" /\ receipt \in Receipt
    BY <1>19 DEF RecordAdopted, At, Typed, RecordsOK
  <2>2. [receipt EXCEPT !.application = TRUE,
                           !.tags = [current |-> command.target, previous |-> None]] \in Receipt
    BY <1>19, <2>1 DEF RecordAdopted, At, Typed, CommandOK, ResourcesOK, Receipt, Tags, Tag
  <2> QED
    BY <1>0, <1>19, <2>1, <2>2, RecordsTyped, NamesDiffer DEF RecordAdopted, Operation, Change, Step
<1>20. CASE Inventory
  <2>1. command.op = "adopt" /\ command.step # "give up" /\ receipt \in Receipt
    BY <1>20 DEF Inventory, At, Typed, RecordsOK
  <2>2. [receipt EXCEPT !.app = TRUE, !.installed = github.installed] \in Receipt
    <3>1. github.installed \in BOOLEAN
      BY DEF Typed, ResourcesOK, GitHubType
    <3> QED
      BY <2>1, <3>1 DEF Receipt
  <2> QED
    BY <1>0, <1>20, <2>1, <2>2, RecordsTyped, NamesDiffer DEF Inventory, Operation, Change, Step
<1>21. CASE ClaimMissing
  <2>1. github' \in GitHubChanges
    BY <1>21 DEF ClaimMissing, GitHubChanges, Marked
  <2>2. command.op = "adopt" /\ command.step # "give up" /\ ResourcesOK'
    BY <1>21, <2>1, GitHubTyped DEF ClaimMissing, At, Typed
  <2> QED
    BY <1>0, <1>21, <2>2, MovesTyped DEF ClaimMissing, rest, Typed, RestOK, Operation, Change, Step
<1>22. CASE FinishAdopt
  <2>1. command.op = "adopt" /\ receipt \in Receipt /\ excuse' \in SUBSET Excuse
    BY <1>22 DEF FinishAdopt, At, Typed, RecordsOK, RestOK, rest
  <2>2. Settled("active") \in Receipt
    BY <2>1, SettledTyped DEF Phase
  <2> QED
    BY <1>0, <1>22, <2>1, <2>2, FinishTyped, NamesDiffer
    DEF FinishAdopt, rest, Operation, Change, Step
<1>23. CASE LeaveInstalling
  <2>1. CommandOK' /\ RecordsOK' /\ command'.op = "none"
    BY <1>23, EndTyped, IdleTyped DEF LeaveInstalling, Phase
  <2> QED
    BY <1>0, <1>23, <2>1, TypedBy, ResourcesKept
    DEF LeaveInstalling, Typed, RestOK, ResourcesOK, resources
<1> QED
  BY <1>1, <1>2, <1>3, <1>4, <1>5, <1>6, <1>7, <1>8, <1>9, <1>10, <1>11, <1>12,
     <1>13, <1>14, <1>15, <1>16, <1>17, <1>18, <1>19, <1>20, <1>21, <1>22, <1>23
  DEF InstallStep

LEMMA TeardownTyped ==
  ASSUME Typed, TeardownStep
  PROVE  Typed'
<1>0. CountsOK'
  BY CountsAlways DEF Next
<1>1. CASE BeginDestroy
  <2>1. receipt \in Receipt /\ command.op = "none"
    BY <1>1, IdleTyped DEF BeginDestroy, CanBegin, Typed, RecordsOK
  <2>2. receipt' \in Receipt /\ held' \in Receipt
    BY <1>1, <2>1 DEF BeginDestroy, Acquire, Receipt, Phase
  <2>3. /\ command' \in CommandType /\ command'.op = "destroy"
    <3>1. PICK s \in {"suspend", "delete app"} :
             command' = [Idle EXCEPT !.op = "destroy", !.step = s]
      BY <1>1 DEF BeginDestroy
    <3>2. s \in Step /\ "destroy" \in Operation
      BY DEF Step, Operation
    <3> QED
      BY <3>1, <3>2, IdleTyped DEF CommandType
  <2>4. CommandOK' /\ RecordsOK'
    BY <2>2, <2>3, NamesDiffer DEF CommandOK, RecordsOK, Change
  <2> QED
    BY <1>0, <1>1, <2>3, <2>4, ResourcesKept DEF BeginDestroy, Typed, RestOK
<1>2. CASE SuspendAll
  <2>1. github' \in GitHubChanges
    BY <1>2 DEF SuspendAll, GitHubChanges
  <2>2. command.op = "destroy" /\ command.step # "give up"
        /\ UNCHANGED <<stack, registry>> /\ intake' \in {intake, "open", "suspended"}
    BY <1>2 DEF SuspendAll, At, IntakeSetTo
  <2>3. ResourcesOK'
    BY <2>1, <2>2, GitHubTyped DEF Typed
  <2> QED
    BY <1>0, <1>2, <2>2, <2>3, MovesTyped DEF SuspendAll, rest, Typed, RestOK, Operation, Change, Step
<1>3. CASE DrainAll
  <2>1. command.op = "destroy" /\ command.step # "give up" /\ ResourcesOK'
    BY <1>3, ResourcesKept DEF DrainAll, At, Typed
  <2> QED
    BY <1>0, <1>3, <2>1, MovesTyped DEF DrainAll, rest, Typed, RestOK, Operation, Change, Step
<1>4. CASE DeleteOwnership
  <2>1. github' \in GitHubChanges
    BY <1>4 DEF DeleteOwnership, GitHubChanges
  <2>2. /\ command.op = "destroy" /\ command.step # "give up" /\ ResourcesOK'
        /\ command \in CommandType
    BY <1>4, <2>1, GitHubTyped DEF DeleteOwnership, At, Typed, CommandOK
  <2>3. CASE \E s \in Step : Goto(s)
    BY <1>0, <1>4, <2>2, <2>3, MovesTyped
    DEF DeleteOwnership, rest, Typed, RestOK, Operation, Change
  <2>4. CASE command' = [command EXCEPT !.step = "delete installations", !.residue = {"marker"}]
    <3>1. command' \in CommandType /\ command'.op = command.op
      <4>1. "delete installations" \in Step /\ {"marker"} \in SUBSET Residue
        BY DEF Step, Residue
      <4> QED
        BY <2>2, <2>4, <4>1 DEF CommandType
    <3>2. CommandOK' /\ RecordsOK'
      BY <1>4, <2>2, <3>1 DEF DeleteOwnership, Typed, CommandOK, RecordsOK, Change, records
    <3> QED
      BY <1>0, <1>4, <2>2, <3>1, <3>2, TypedBy DEF DeleteOwnership, rest, Typed, RestOK
  <2> QED
    BY <1>4, <2>3, <2>4 DEF DeleteOwnership, Step
<1>5. CASE DeleteInstallations
  <2>1. github' \in GitHubChanges
    BY <1>5 DEF DeleteInstallations, GitHubChanges, Uninstalled
  <2>2. command.op = "destroy" /\ command.step # "give up" /\ ResourcesOK'
    BY <1>5, <2>1, GitHubTyped DEF DeleteInstallations, At, Typed
  <2> QED
    BY <1>0, <1>5, <2>2, MovesTyped DEF DeleteInstallations, rest, Typed, RestOK, Operation, Change, Step
<1>6. CASE DeleteApp
  <2>1. github' \in GitHubChanges
    BY <1>6 DEF DeleteApp, GitHubChanges
  <2>2. command.op = "destroy" /\ command.step # "give up" /\ ResourcesOK'
    BY <1>6, <2>1, GitHubTyped DEF DeleteApp, At, Typed
  <2> QED
    BY <1>0, <1>6, <2>2, MovesTyped DEF DeleteApp, rest, Typed, RestOK, Operation, Change, Step
<1>7. CASE DestroyStack
  <2>1. command.op = "destroy" /\ command.step # "give up" /\ ResourcesOK'
    BY <1>7, RemovedTyped DEF DestroyStack, At, Typed
  <2> QED
    BY <1>0, <1>7, <2>1, MovesTyped DEF DestroyStack, rest, Typed, RestOK, Operation, Change, Step
<1>8. CASE PruneAll
  <2>1. registry' \in SUBSET Version
    BY <1>8, PruneVersions DEF PruneAll, Typed, ResourcesOK
  <2>2. ResourcesOK'
    BY <1>8, <2>1, IntakeTyped DEF PruneAll, Typed
  <2>3. command.op = "destroy" /\ command.step # "give up"
    BY <1>8 DEF PruneAll, At
  <2> QED
    BY <1>0, <1>8, <2>2, <2>3, MovesTyped DEF PruneAll, rest, Typed, RestOK, Operation, Change, Step
<1>9. CASE Verify
  <2>1. /\ command.op = "destroy" /\ command.step # "give up" /\ ResourcesOK'
        /\ command \in CommandType
    BY <1>9, ResourcesKept DEF Verify, At, Typed, CommandOK
  <2>2. CASE Goto("give up")
    BY <1>0, <1>9, <2>1, <2>2, MovesTyped DEF Verify, rest, Typed, RestOK, Operation, Change, Step
  <2>3. CASE \E shown \in SUBSET Residue :
               command' = [command EXCEPT !.step = "settle", !.residue = ResidueSeen(shown)]
    <3>1. PICK shown \in SUBSET Residue :
             command' = [command EXCEPT !.step = "settle", !.residue = ResidueSeen(shown)]
      BY <2>3
    <3>2. ResidueSeen(shown) \in SUBSET Residue
      BY <2>1 DEF ResidueSeen, CommandType, Residue
    <3>3. command' \in CommandType /\ command'.op = command.op
      <4>1. "settle" \in Step
        BY DEF Step
      <4> QED
        BY <2>1, <3>1, <3>2, <4>1 DEF CommandType
    <3>4. CommandOK' /\ RecordsOK'
      BY <1>9, <2>1, <3>3 DEF Verify, Typed, CommandOK, RecordsOK, Change, records
    <3> QED
      BY <1>0, <1>9, <2>1, <3>3, <3>4, TypedBy DEF Verify, rest, Typed, RestOK
  <2> QED
    BY <1>9, <2>2, <2>3 DEF Verify, Residue
<1>10. CASE Settle
  <2> DEFINE done == IF command.residue = {} THEN NoReceipt
                     ELSE [Settled("destroying") EXCEPT !.residue = command.residue]
  <2>1. /\ command.op = "destroy" /\ command.step = "settle" /\ receipt \in Receipt
        /\ command \in CommandType /\ held \in Receipt
    BY <1>10 DEF Settle, At, Typed, CommandOK, RecordsOK
  <2>2. done \in Receipt \cup {NoReceipt}
    <3>1. Settled("destroying") \in Receipt
      BY <2>1, SettledTyped DEF Phase
    <3> QED
      BY <2>1, <3>1 DEF Receipt, CommandType
  <2>3. CommandOK' /\ RecordsOK' /\ command'.op \in {command.op, "none"}
    <3>1. CASE Over(done)
      BY <2>2, <3>1, OverTyped, IdleTyped
    <3>2. CASE receipt' \in {receipt, done} /\ held' = held /\ Goto("give up")
      <4>1. CommandOK' /\ command'.op = command.op /\ command'.step = "give up"
        BY <2>1, <3>2, MoveTyped DEF Typed, Goto, Change, Step
      <4> QED
        BY <2>1, <2>2, <3>2, <4>1, NamesDiffer DEF RecordsOK
    <3> QED
      BY <1>10, <3>1, <3>2 DEF Settle
  <2> QED
    BY <1>0, <1>10, <2>3, TypedBy, ResourcesKept DEF Settle, rest, Typed, RestOK
<1>11. CASE GiveUp
  <2>1. CommandOK' /\ RecordsOK' /\ command'.op = "none"
    BY <1>11, EndTyped, IdleTyped DEF GiveUp, Phase, rest
  <2> QED
    BY <1>0, <1>11, <2>1, TypedBy, ResourcesKept DEF GiveUp, rest, Typed, RestOK
<1>12. CASE PlanRepair
  <2>1. plan' \in Plan /\ command.op # "repair"
    BY <1>12 DEF PlanRepair, Typed, RestOK
  <2>2. CommandOK' /\ RecordsOK'
    BY <1>12 DEF PlanRepair, Typed, CommandOK, RecordsOK, records
  <2>3. RestOK'
    BY <1>12, <2>1 DEF PlanRepair, Typed, RestOK
  <2> QED
    BY <1>0, <1>12, <2>2, <2>3, ResourcesKept DEF PlanRepair, Typed
<1>13. CASE DropPlan
  <2>1. CommandOK' /\ RecordsOK'
    BY <1>13 DEF DropPlan, Typed, CommandOK, RecordsOK, records
  <2>2. RestOK'
    BY <1>13 DEF DropPlan, Typed, RestOK
  <2> QED
    BY <1>0, <1>13, <2>1, <2>2, ResourcesKept DEF DropPlan, Typed
<1>14. CASE ReleaseExpired
  <2>1. receipt \in Receipt /\ command.op = "none" /\ plan \in Plan
    BY <1>14, IdleTyped DEF ReleaseExpired, Typed, RecordsOK, RestOK
  <2>2. receipt' \in Receipt
    BY <1>14, <2>1 DEF ReleaseExpired, Receipt
  <2>3. CommandOK' /\ RecordsOK'
    BY <1>14, <2>1, <2>2 DEF ReleaseExpired, Typed, CommandOK, RecordsOK
  <2>4. [plan EXCEPT !.release = FALSE] \in Plan
    BY <2>1 DEF Plan
  <2>5. RestOK'
    BY <1>14, <2>1, <2>4 DEF ReleaseExpired, Typed, RestOK
  <2> QED
    BY <1>0, <1>14, <2>3, <2>5, ResourcesKept DEF ReleaseExpired, Typed
<1>15. CASE BeginRepair
  <2>1. receipt \in Receipt /\ command.op = "none"
    BY <1>15, IdleTyped DEF BeginRepair, CanBegin, Typed, RecordsOK
  <2>2. receipt' \in Receipt /\ held' \in Receipt
    BY <1>15, <2>1 DEF BeginRepair, Acquire, Receipt, Phase
  <2>3. /\ command' \in CommandType /\ command'.op = "repair"
    <3>1. PICK s \in {"record application", "rewrite ownership"} :
             command' = [Idle EXCEPT !.op = "repair", !.step = s]
      BY <1>15 DEF BeginRepair
    <3>2. s \in Step /\ "repair" \in Operation
      BY DEF Step, Operation
    <3> QED
      BY <3>1, <3>2, IdleTyped DEF CommandType
  <2>4. CommandOK' /\ RecordsOK'
    BY <2>2, <2>3, NamesDiffer DEF CommandOK, RecordsOK, Change
  <2>5. RestOK'
    BY <1>15 DEF BeginRepair, Typed, RestOK, Excuse, TakenOver
  <2> QED
    BY <1>0, <1>15, <2>4, <2>5, ResourcesKept DEF BeginRepair, Typed
<1>16. CASE RecordApplication
  <2>1. command.op = "repair" /\ command.step # "give up" /\ receipt \in Receipt
    BY <1>16 DEF RecordApplication, At, Typed, RecordsOK
  <2>2. [receipt EXCEPT !.application = TRUE] \in Receipt
    BY <1>16, <2>1 DEF RecordApplication, At, Typed, CommandOK, ResourcesOK, Receipt, Tags, Tag
  <2> QED
    BY <1>0, <1>16, <2>1, <2>2, RecordsTyped, NamesDiffer DEF RecordApplication, Operation, Change, Step
<1>17. CASE RewriteOwnership
  <2>1. github' \in GitHubChanges
    BY <1>17 DEF RewriteOwnership, GitHubChanges, Rewritten
  <2>2. command.op = "repair" /\ command.step # "give up" /\ ResourcesOK'
    BY <1>17, <2>1, GitHubTyped DEF RewriteOwnership, At, Typed
  <2> QED
    BY <1>0, <1>17, <2>2, MovesTyped DEF RewriteOwnership, rest, Typed, RestOK, Operation, Change, Step
<1>18. CASE FinishRepair
  <2>1. command.op = "repair" /\ receipt \in Receipt /\ held \in Receipt
    BY <1>18 DEF FinishRepair, At, Typed, RecordsOK
  <2>2. Settled("active") \in Receipt
    BY <2>1, SettledTyped DEF Phase
  <2>3. CASE Over(Settled("active")) /\ plan' = NoPlan
    <3>1. CommandOK' /\ RecordsOK' /\ command'.op = "none"
      BY <2>2, <2>3, OverTyped, IdleTyped
    <3> QED
      BY <1>0, <1>18, <2>3, <3>1, ResourcesKept DEF FinishRepair, Typed, RestOK
  <2>4. CASE receipt' \in {receipt, Settled("active")} /\ held' = held /\ Goto("give up")
             /\ UNCHANGED plan
    BY <1>0, <1>18, <2>1, <2>2, <2>4, FinishTyped, NamesDiffer
    DEF FinishRepair, Operation, Change, Step, Typed, RestOK
  <2> QED
    BY <1>18, <2>3, <2>4 DEF FinishRepair
<1>19. CASE GiveUpRepair
  <2>1. CommandOK' /\ RecordsOK' /\ command'.op = "none"
    BY <1>19, EndTyped, IdleTyped DEF GiveUpRepair, Phase
  <2> QED
    BY <1>0, <1>19, <2>1, ResourcesKept DEF GiveUpRepair, Typed, RestOK
<1> QED
  BY <1>1, <1>2, <1>3, <1>4, <1>5, <1>6, <1>7, <1>8, <1>9, <1>10, <1>11, <1>12, <1>13, <1>14,
     <1>15, <1>16, <1>17, <1>18, <1>19
  DEF TeardownStep

LEMMA TypedInit == Init => Typed
<1> SUFFICES ASSUME Init PROVE Typed
  OBVIOUS
<1>1. CommandOK /\ RecordsOK /\ RestOK /\ CountsOK
  BY IdleTyped, DeploymentConstants
  DEF Init, CommandOK, RecordsOK, RestOK, CountsOK, Change, Operation, Idle
<1>2. NoStack \in StackType
      /\ NoGitHub \in GitHubType
  BY DEF NoStack, StackType, NoGitHub, GitHubType
<1>3. \A v \in Version, there \in BOOLEAN, m \in SUBSET {"own", "foreign"} :
        /\ [worker |-> v, application |-> v, secrets |-> TRUE] \in StackType
        /\ [app |-> TRUE, installed |-> there, suspended |-> FALSE, markers |-> m] \in GitHubType
  BY DEF StackType, GitHubType
<1>4. /\ stack \in StackType /\ registry \in SUBSET Version
      /\ github \in GitHubType
  <2>1. CASE stack = NoStack /\ registry = {} /\ github = NoGitHub
    BY <1>2, <2>1
  <2>2. CASE \E v \in Version, there \in BOOLEAN, m \in {{}, {"own"}, {"foreign"}} :
               /\ stack = [worker |-> v, application |-> v, secrets |-> TRUE]
               /\ registry = {v}
               /\ github = [app |-> TRUE, installed |-> there, suspended |-> FALSE, markers |-> m]
    <3>1. PICK v \in Version, there \in BOOLEAN, m \in {{}, {"own"}, {"foreign"}} :
               /\ stack = [worker |-> v, application |-> v, secrets |-> TRUE]
               /\ registry = {v}
               /\ github = [app |-> TRUE, installed |-> there, suspended |-> FALSE, markers |-> m]
      BY <2>2
    <3>2. m \in SUBSET {"own", "foreign"} /\ registry \in SUBSET Version
      BY <3>1
    <3> QED
      BY <1>3, <3>1, <3>2
  <2> QED
    BY <2>1, <2>2 DEF Init
<1>5. ResourcesOK
  BY <1>4 DEF Init, ResourcesOK
<1> QED
  BY <1>1, <1>5 DEF Typed

LEMMA TypedStep == Typed /\ [Next]_vars => Typed'
<1> SUFFICES ASSUME Typed, [Next]_vars PROVE Typed'
  OBVIOUS
<1>1. CASE ChangeStep
  BY <1>1, ChangeTyped
<1>2. CASE InstallStep
  BY <1>2, InstallTyped
<1>3. CASE TeardownStep
  BY <1>3, TeardownTyped
<1>4. CASE Crash
  <2>1. CommandOK' /\ RecordsOK' /\ command'.op = "none"
    BY <1>4, OverTyped, IdleTyped DEF Crash, Typed, RecordsOK
  <2>2. RestOK'
    BY <1>4, <2>1 DEF Crash, Typed, RestOK
  <2> QED
    BY <1>4, <2>1, <2>2, CountsAlways, ResourcesKept DEF Crash, Typed
<1>5. CASE UNCHANGED vars
  <2>1. CommandOK' /\ RecordsOK'
    BY <1>5 DEF vars, Typed, CommandOK, RecordsOK
  <2>2. ResourcesOK'
    BY <1>5, ResourcesKept DEF vars, resources, Typed
  <2>3. RestOK'
    BY <1>5 DEF vars, Typed, RestOK
  <2> QED
    BY <1>5, <2>1, <2>2, <2>3, CountsAlways DEF Typed
<1> QED
  BY <1>1, <1>2, <1>3, <1>4, <1>5 DEF Next

LEMMA TypedAlways == Spec => []Typed
BY TypedInit, TypedStep, PTL DEF Spec

LEMMA TypedGivesTypeOK == Typed => TypeOK
<1> SUFFICES ASSUME Typed PROVE TypeOK
  OBVIOUS
<1>1. command = Idle \/ command.op \in Operation
  BY DEF Typed, CommandOK, CommandType
<1>2. command.residue \in SUBSET Residue
  BY DEF Typed, CommandOK, CommandType
<1> QED
  BY <1>1, <1>2
  DEF Typed, TypeOK, RecordsOK, ResourcesOK, RestOK, CountsOK, StackType, GitHubType

\* Every variable has its type: what a command remembers of its own steps is there when a
\* later step needs it, whatever request failed and wherever an earlier command died.
THEOREM LifecycleTypes == Spec => []TypeOK
BY TypedAlways, TypedGivesTypeOK, PTL

-----------------------------------------------------------------------------
(* What jitney list says. *)

LEMMA OneMarker ==
  ASSUME github.markers \in SUBSET {"own", "foreign"}, OwnershipFindings = {}
  PROVE  github.markers = {"own"}
<1>1. github.markers \notin {{}, {"foreign"}} /\ ~(Cardinality(github.markers) > 1)
  BY DEF OwnershipFindings
<1>2. Cardinality({"own", "foreign"}) = 2
  <2>1. IsFiniteSet({"own"}) /\ Cardinality({"own"}) = 1
    BY FS_Singleton
  <2>2. Cardinality({"own"} \cup {"foreign"}) = Cardinality({"own"}) + 1
    BY <2>1, FS_AddElement
  <2>3. {"own"} \cup {"foreign"} = {"own", "foreign"}
    OBVIOUS
  <2> QED
    BY <2>1, <2>2, <2>3
<1>3. github.markers # {"own", "foreign"}
  BY <1>1, <1>2
<1> QED
  BY <1>1, <1>3

\* A list that says "ok" has not found anything.
LEMMA OkFindsNothing ==
  ASSUME NEW down, Health(down) = "ok"
  PROVE  /\ WorkerFindings(down) = {} /\ ApplicationFindings(down) = {}
         /\ RegistryFindings(down) = {} /\ GitHubFindings(down) = {}
         /\ ReleaseFindings(down) = {}
<1> DEFINE Said == {"missing", "drifted", "unknown"}
<1>1. Findings(down) \cap Said = {}
  BY DEF Health, HealthOf
<1>2. OwnershipFindings \subseteq Said
  BY DEF OwnershipFindings
<1>3. Findings(down) \subseteq Said
  BY <1>2 DEF Findings, WorkerFindings, ApplicationFindings, RegistryFindings, GitHubFindings,
     ReleaseFindings
<1> QED
  BY <1>1, <1>3 DEF Findings

LEMMA OkIsTrue ==
  ASSUME TypeOK
  PROVE  OkIsHealthy
<1> SUFFICES ASSUME receipt # NoReceipt,
                    NEW down \in {{}, {"cloudflare"}, {"github"}, {"release"}},
                    Health(down) = "ok"
             PROVE  /\ down = {}
                    /\ stack.worker = receipt.versions.current
                    /\ stack.application = receipt.tags.current
                    /\ RecordedTags(receipt.tags) \subseteq registry
                    /\ PassesHealthGate
                    /\ receipt.installed => github.installed /\ github.markers = {"own"}
  BY DEF OkIsHealthy
<1>1. /\ WorkerFindings(down) = {} /\ ApplicationFindings(down) = {}
      /\ RegistryFindings(down) = {} /\ GitHubFindings(down) = {}
      /\ ReleaseFindings(down) = {}
  BY OkFindsNothing
<1>2. receipt.app /\ "github" \notin down /\ "cloudflare" \notin down /\ "release" \notin down
  BY <1>1 DEF GitHubFindings, WorkerFindings, ReleaseFindings
<1>3. down = {}
  BY <1>2
<1>4. stack.worker = receipt.versions.current /\ stack.application = receipt.tags.current
  BY <1>1, <1>2 DEF WorkerFindings, ApplicationFindings
<1>5. RecordedTags(receipt.tags) \subseteq registry
  BY <1>1, <1>2 DEF RegistryFindings
<1>6. PassesHealthGate
  BY <1>1, <1>2 DEF GitHubFindings, PassesHealthGate
<1>7. ASSUME receipt.installed
      PROVE  github.installed /\ github.markers = {"own"}
  <2>1. github.installed /\ OwnershipFindings = {}
    BY <1>1, <1>2, <1>6, <1>7 DEF GitHubFindings, PassesHealthGate
  <2> QED
    BY <2>1, OneMarker DEF TypeOK
<1> QED
  BY <1>3, <1>4, <1>5, <1>6, <1>7

\* Whatever the commands have left behind, jitney list says "ok" of nothing but a deployment
\* that is all there, and never of one a plane does not answer for.
THEOREM OkAlwaysHealthy == Spec => []OkIsHealthy
BY LifecycleTypes, OkIsTrue, PTL

-----------------------------------------------------------------------------
(* A receipt that is settled as active tells the truth.  What each command     *)
(* knows of the Worker at each of its steps is the invariant.                  *)

Runs(v) == stack.worker = v /\ stack.application = v /\ stack.secrets
Serves ==
  /\ Runs(receipt.versions.current)
  /\ receipt.tags.current = receipt.versions.current
  /\ intake = "open"

\* The tags of a receipt name its versions, but where nothing was pushed.
Fits(versions, tags) ==
  /\ tags.current \in {versions.current, Unpushed}
  /\ tags.previous \in {versions.previous, Unpushed, None}

\* No adoption was resumed with another version than its receipt has.
NeverResumed == "resumed with another version" \notin excuse

ReceiptServes ==
  excuse \subseteq {"half done"} /\ receipt # NoReceipt =>
    (receipt.phase \in {"active", "repairing"} => Serves)

TagsFit ==
  NeverResumed =>
    /\ receipt # NoReceipt => Fits(receipt.versions, receipt.tags)
    /\ command.op \in Change =>
         /\ Fits(command.versions, command.tags)
         /\ command.step \in Moving => command.tag = command.target

\* Only a change and a destroy stop the intake.
IntakeOpen ==
  /\ stack.worker = None \/ receipt = NoReceipt => intake = "open"
  /\ receipt # NoReceipt => (receipt.phase = "installing" => intake = "open")
  /\ command.op \in {"install", "adopt"} => intake = "open"

\* What a change knows of the Worker.  What it found is what it goes back to.
ChangeServes ==
  command.op \in Change =>
    /\ command.step # "restore" =>
         receipt.phase = "upgrading" \/ (receipt.phase = "active" /\ "answer lost" \in excuse)
    /\ command.step = "prepare" =>
         receipt.versions = command.versions /\ receipt.tags = command.tags
    /\ command.step \in {"prepare", "record", "suspend", "drain", "reopen"} => ~command.drained
    /\ excuse \subseteq {"half done"} =>
         /\ command.tags.current = command.versions.current
         /\ command.step \in {"prepare", "record", "suspend", "drain", "reopen"} =>
              Runs(command.versions.current)
         /\ command.step \in {"prepare", "record"} => intake = "open"
    /\ command.step \in {"prune", "resume", "finish"} => Runs(command.target)
    /\ command.step = "finish" => intake = "open"
    /\ command.step = "resume original" => Runs(command.versions.current)
    /\ command.step = "restore" /\ (command.drained \/ excuse \subseteq {"half done"}) =>
         Runs(command.versions.current) /\ intake = "open"

Deployed == stack.worker = command.target /\ stack.application = command.target
InstallServes ==
  command.op = "install" =>
    /\ receipt.phase = "installing" \/ "answer lost" \in excuse
    /\ receipt.versions.current = command.target
    /\ command.step \in {"record stack", "create app", "record app", "configure", "install app",
                         "record installations", "claim", "health", "finish"} => Deployed
    /\ command.step \in {"create app", "record app", "configure", "install app",
                         "record installations", "claim", "health", "finish"} =>
         receipt.tags.current = command.target
    /\ command.step \in {"install app", "record installations", "claim", "health", "finish"} =>
         stack.secrets

AdoptServes ==
  command.op = "adopt" =>
    /\ command.step # "leave installing" => receipt.phase = "installing"
    /\ NeverResumed => receipt.versions.current = command.target
    /\ command.step \in {"record adopted", "inventory", "ownership", "finish"} =>
         Runs(command.target)
    /\ command.step \in {"inventory", "ownership", "finish"} =>
         receipt.tags.current = command.target

TeardownServes ==
  /\ command.op = "destroy" => receipt = NoReceipt \/ receipt.phase = "destroying"
  /\ command.op = "destroy" /\ command.step \in {"prune", "verify", "settle"} =>
       stack.worker = None
  /\ command.op = "repair" => receipt.phase \in {"active", "repairing"}

Serving ==
  /\ ReceiptServes /\ TagsFit /\ IntakeOpen
  /\ ChangeServes /\ InstallServes /\ AdoptServes /\ TeardownServes

\* The command that goes on keeps what it remembers.
LEMMA MovesOn ==
  ASSUME Typed, NEW s \in Step, Goto(s)
  PROVE  /\ command'.op = command.op /\ command'.step = s
         /\ command'.target = command.target /\ command'.tag = command.tag
         /\ command'.versions = command.versions /\ command'.tags = command.tags
         /\ command'.drained = command.drained /\ command'.credentials = command.credentials
         /\ command'.residue = command.residue
BY DEF Goto, Typed, CommandOK, CommandType

LEMMA Leaves ==
  ASSUME NEW r \in Receipt \cup {NoReceipt}, Over(r)
  PROVE  /\ command'.op = "none"
         /\ r = NoReceipt => receipt' = NoReceipt
         /\ r # NoReceipt =>
              /\ receipt' # NoReceipt /\ receipt'.phase = r.phase
              /\ receipt'.versions = r.versions /\ receipt'.tags = r.tags
<1>1. command'.op = "none"
  BY IdleTyped DEF Over
<1>2. CASE r = NoReceipt
  BY <1>1, <1>2 DEF Over
<1>3. CASE r # NoReceipt
  <2>1. r \in Receipt
    BY <1>3
  <2>2. [r EXCEPT !.lease = "dead"] \in Receipt
    BY <2>1 DEF Receipt
  <2>3. /\ receipt' \in {r, [r EXCEPT !.lease = "dead"]} /\ receipt' # NoReceipt
    BY <1>3, <2>1, <2>2, NamesDiffer DEF Over
  <2> QED
    BY <1>1, <1>3, <2>1, <2>3 DEF Receipt
<1> QED
  BY <1>2, <1>3

\* A command that ends, and leaves a receipt that is true.
LEMMA EndServes ==
  ASSUME NEW r \in Receipt \cup {NoReceipt}, Over(r),
         excuse' \subseteq {"half done"} /\ r # NoReceipt =>
           (r.phase \in {"active", "repairing"} =>
              /\ stack'.worker = r.versions.current /\ stack'.application = r.versions.current
              /\ stack'.secrets /\ intake' = "open" /\ r.tags.current = r.versions.current),
         "resumed with another version" \notin excuse' /\ r # NoReceipt => Fits(r.versions, r.tags),
         stack'.worker = None \/ r = NoReceipt => intake' = "open",
         r # NoReceipt => (r.phase = "installing" => intake' = "open")
  PROVE  Serving'
<1>1. /\ command'.op = "none"
      /\ r = NoReceipt => receipt' = NoReceipt
      /\ r # NoReceipt =>
           /\ receipt' # NoReceipt /\ receipt'.phase = r.phase
           /\ receipt'.versions = r.versions /\ receipt'.tags = r.tags
  BY Leaves
<1>2. ReceiptServes'
  BY <1>1 DEF ReceiptServes, Serves, Runs
<1>3. TagsFit'
  BY <1>1 DEF TagsFit, NeverResumed, Fits, Change
<1>4. IntakeOpen'
  BY <1>1 DEF IntakeOpen
<1> QED
  BY <1>1, <1>2, <1>3, <1>4
  DEF Serving, ChangeServes, InstallServes, AdoptServes, TeardownServes, Change

\* A command that goes on and changes nothing the receipt is measured by.
LEMMA StillServes ==
  ASSUME Serving, UNCHANGED <<stack, intake, receipt, excuse>>, command'.op = command.op,
         command'.versions = command.versions, command'.tags = command.tags,
         command.op \in Change /\ command'.step \in Moving /\ NeverResumed =>
           command'.tag = command'.target
  PROVE  ReceiptServes' /\ TagsFit' /\ IntakeOpen'
<1>1. ReceiptServes'
  BY DEF Serving, ReceiptServes, Serves, Runs
<1>2. TagsFit'
  BY DEF Serving, TagsFit, NeverResumed, Fits
<1>3. IntakeOpen'
  BY DEF Serving, IntakeOpen
<1> QED
  BY <1>1, <1>2, <1>3

\* A command that changes the Worker does it under a receipt that is not settled.
LEMMA MayServe ==
  ASSUME Serving, UNCHANGED receipt, command'.op = command.op, receipt # NoReceipt,
         command'.versions = command.versions, command'.tags = command.tags,
         NeverResumed' => NeverResumed,
         command.op \in Change /\ command'.step \in Moving /\ NeverResumed =>
           command'.tag = command'.target,
         receipt.phase \notin {"active", "repairing"} \/ ~(excuse' \subseteq {"half done"}),
         stack'.worker = None => intake' = "open",
         receipt.phase = "installing" => intake' = "open",
         command.op \in {"install", "adopt"} => intake' = "open"
  PROVE  ReceiptServes' /\ TagsFit' /\ IntakeOpen'
<1>1. ReceiptServes'
  BY DEF ReceiptServes
<1>2. TagsFit'
  BY DEF Serving, TagsFit, NeverResumed, Fits
<1>3. IntakeOpen'
  BY DEF IntakeOpen
<1> QED
  BY <1>1, <1>2, <1>3

LEMMA ChangeGoesOn ==
  ASSUME command'.op \in Change, ReceiptServes', TagsFit', IntakeOpen', ChangeServes'
  PROVE  Serving'
BY DEF Serving, InstallServes, AdoptServes, TeardownServes, Change

LEMMA VersionsNamed ==
  ASSUME Typed
  PROVE  /\ command.op \in Change => command.versions.current \in Version
         /\ receipt # NoReceipt => receipt.versions.current \in Version
         /\ command.op \in {"upgrade", "install", "adopt"} => command.target \in Version
         /\ command.op \in Change /\ command.step \in Moving => command.target \in Version
BY DEF Typed, CommandOK, RecordsOK, Receipt, Versions

LEMMA ServingKept ==
  ASSUME Serving, UNCHANGED <<stack, intake, receipt, excuse, command>>
  PROVE  Serving'
<1>1. ReceiptServes' /\ TagsFit' /\ IntakeOpen'
  BY DEF Serving, ReceiptServes, Serves, Runs, TagsFit, NeverResumed, Fits, IntakeOpen
<1>2. ChangeServes'
  BY DEF Serving, ChangeServes, Runs
<1>3. InstallServes'
  BY DEF Serving, InstallServes, Deployed
<1>4. AdoptServes'
  BY DEF Serving, AdoptServes, Runs, NeverResumed
<1>5. TeardownServes'
  BY DEF Serving, TeardownServes
<1> QED
  BY <1>1, <1>2, <1>3, <1>4, <1>5 DEF Serving

LEMMA PartlyKeepsIntake ==
  ASSUME Typed, Serving, NEW v, NEW secrets, v # None,
         DeployedTo(v, secrets) \/ PartlyDeployedTo(v, secrets)
  PROVE  stack'.worker = None => intake' = "open"
<1>1. stack \in StackType
  BY DEF Typed, ResourcesOK
<1>2. [stack EXCEPT !.worker = v, !.secrets = secrets].worker = v
      /\ [stack EXCEPT !.application = v].worker = stack.worker
  BY <1>1 DEF StackType
<1>3. stack'.worker \in {stack.worker, v}
  <2>1. stack' \in {stack, [stack EXCEPT !.worker = v, !.secrets = secrets],
                   [stack EXCEPT !.application = v],
                   [worker |-> v, application |-> v, secrets |-> secrets]}
    BY DEF DeployedTo, PartlyDeployedTo
  <2>2. [worker |-> v, application |-> v, secrets |-> secrets].worker = v
    OBVIOUS
  <2>3. \A r \in {stack, [stack EXCEPT !.worker = v, !.secrets = secrets],
                [stack EXCEPT !.application = v],
                [worker |-> v, application |-> v, secrets |-> secrets]} :
          r.worker \in {stack.worker, v}
    BY <1>2, <2>2, Zenon
  <2> QED
    BY <2>1, <2>3, Zenon
<1>4. intake' = IF stack.worker = None THEN "open" ELSE intake
  BY DEF DeployedTo, PartlyDeployedTo
<1> QED
  BY <1>3, <1>4

LEMMA BeginChangeServes ==
  ASSUME Typed, Serving, NEW op \in Change, NEW v \in Version \cup {None}, BeginChange(op, v)
  PROVE  Serving'
<1>1. receipt \in Receipt /\ command.op = "none" /\ UNCHANGED <<stack, intake>>
  BY IdleTyped DEF Typed, RecordsOK, BeginChange, CanBegin, resources
<1>2. /\ command'.op = op /\ command'.step = "prepare" /\ ~command'.drained
      /\ command'.versions = receipt.versions /\ command'.tags = receipt.tags
  <2>1. op \in Operation /\ "prepare" \in Step /\ receipt.versions \in Versions /\ receipt.tags \in Tags
    BY <1>1 DEF Change, Operation, Receipt, Step
  <2> QED
    BY <2>1 DEF BeginChange, Idle
<1>3. /\ receipt' # NoReceipt /\ receipt'.phase = "upgrading"
      /\ receipt'.versions = receipt.versions /\ receipt'.tags = receipt.tags
  <2>1. receipt' \in Receipt
    BY <1>1 DEF BeginChange, Acquire, Receipt, Phase
  <2> QED
    BY <1>1, <2>1, NamesDiffer DEF BeginChange, Acquire, Receipt
<1>4. excuse' \subseteq {"half done"} =>
        excuse \subseteq {"half done"} /\ receipt.phase \in {"active", "repairing"}
  BY DEF BeginChange, TakenOver
<1>5. NeverResumed' => NeverResumed
  BY DEF BeginChange, NeverResumed
<1>6. ReceiptServes'
  BY <1>3 DEF ReceiptServes
<1>7. TagsFit'
  BY <1>1, <1>2, <1>3, <1>5, NamesDiffer DEF TagsFit, Fits, Serving, Moving
<1>8. IntakeOpen'
  BY <1>1, <1>2, <1>3 DEF IntakeOpen, Serving, Change
<1>9. ChangeServes'
  <2>1. excuse \subseteq {"half done"} /\ receipt.phase \in {"active", "repairing"} => Serves
    BY <1>1, NamesDiffer DEF Serving, ReceiptServes
  <2> QED
    BY <1>1, <1>2, <1>3, <1>4, <2>1 DEF ChangeServes, Serves, Runs
<1> QED
  BY <1>2, <1>6, <1>7, <1>8, <1>9, ChangeGoesOn

LEMMA ChangeStepServes ==
  ASSUME Typed, Serving, ChangeStep
  PROVE  Serving'
<1>1. CASE BeginUpgrade
  BY <1>1, BeginChangeServes DEF BeginUpgrade, Change
<1>2. CASE BeginRollback
  BY <1>2, BeginChangeServes DEF BeginRollback, Change
<1>3. CASE UpgradeToSame
  <2>1. /\ command.op = "upgrade" /\ command.step = "prepare" /\ receipt \in Receipt
        /\ UNCHANGED <<stack, intake, excuse>>
    BY <1>3 DEF UpgradeToSame, At, Typed, RecordsOK, resources, rest
  <2>2. /\ ChangeServes /\ command.op \in Change /\ receipt # NoReceipt
        /\ Settled("active") \in Receipt
        /\ Settled("active").phase = "active"
        /\ Settled("active").versions = receipt.versions
        /\ Settled("active").tags = receipt.tags
    BY <2>1, NamesDiffer, SettledTyped DEF Phase, Serving, Change
  <2>3. /\ receipt.versions = command.versions /\ receipt.tags = command.tags /\ ~command.drained
        /\ excuse \subseteq {"half done"} => Runs(command.versions.current) /\ intake = "open"
                          /\ command.tags.current = command.versions.current
    BY <2>1, <2>2 DEF ChangeServes
  <2>4. CASE Over(Settled("active"))
    <3>1. NeverResumed => Fits(receipt.versions, receipt.tags)
      BY <2>2 DEF Serving, TagsFit
    <3>2. stack.worker = None => intake = "open"
      BY DEF Serving, IntakeOpen
    <3> QED
      BY <2>1, <2>2, <2>3, <2>4, <3>1, <3>2, EndServes, NamesDiffer DEF NeverResumed, Runs
  <2>5. CASE receipt' \in {receipt, Settled("active")} /\ Goto("restore")
    <3>1. /\ command'.op = command.op /\ command'.step = "restore" /\ ~command'.drained
          /\ command'.versions = command.versions /\ command'.tags = command.tags
      BY <2>3, <2>5, MovesOn DEF Step
    <3>2. /\ receipt' # NoReceipt /\ receipt'.phase \in {receipt.phase, "active"}
          /\ receipt'.versions = receipt.versions /\ receipt'.tags = receipt.tags
      BY <2>2, <2>5, NamesDiffer
    <3>3. ReceiptServes'
      BY <2>1, <2>3, <3>2 DEF ReceiptServes, Serves, Runs
    <3>4. TagsFit'
      BY <2>1, <2>2, <3>1, <3>2 DEF Serving, TagsFit, NeverResumed, Fits, Moving
    <3>5. IntakeOpen'
      BY <2>1, <2>2, <3>1, <3>2 DEF Serving, IntakeOpen
    <3>6. ChangeServes'
      BY <2>1, <2>3, <3>1 DEF ChangeServes, Runs
    <3> QED
      BY <2>2, <3>1, <3>3, <3>4, <3>5, <3>6, ChangeGoesOn
  <2> QED
    BY <1>3, <2>4, <2>5 DEF UpgradeToSame
<1>4. CASE PrepareUpgrade
  <2>1. /\ command.op = "upgrade" /\ command.step = "prepare" /\ command \in CommandType
        /\ UNCHANGED <<stack, intake, receipt, excuse>> /\ ChangeServes /\ command.op \in Change
    BY <1>4 DEF PrepareUpgrade, At, Typed, CommandOK, rest, records, Serving, Change
  <2>2. /\ command'.op = command.op /\ command'.step \in {"record", "restore"}
        /\ command'.drained = command.drained
        /\ command'.step = "record" => command'.tag = command'.target
        /\ command'.versions = command.versions /\ command'.tags = command.tags
    <3>1. CASE Goto("restore")
      <4>1. /\ command'.op = command.op /\ command'.step = "restore"
            /\ command'.drained = command.drained
            /\ command'.versions = command.versions /\ command'.tags = command.tags
        BY <3>1, MovesOn DEF Step
      <4> QED
        BY <4>1
    <3>2. CASE command' = [command EXCEPT !.step = "record", !.tag = command.target,
                                          !.copied = command.target]
      BY <2>1, <3>2 DEF CommandType
    <3> QED
      BY <1>4, <3>1, <3>2 DEF PrepareUpgrade
  <2>3. ReceiptServes' /\ TagsFit' /\ IntakeOpen'
    BY <2>1, <2>2, StillServes DEF Moving
  <2>4. ChangeServes'
    BY <2>1, <2>2 DEF ChangeServes, Runs
  <2> QED
    BY <2>1, <2>2, <2>3, <2>4, ChangeGoesOn
<1>5. CASE PrepareRollback
  <2>1. /\ command.op = "rollback" /\ command.step = "prepare" /\ command \in CommandType
        /\ UNCHANGED <<stack, intake, receipt, excuse>> /\ ChangeServes /\ command.op \in Change
    BY <1>5 DEF PrepareRollback, At, Typed, CommandOK, rest, records, resources, Serving, Change
  <2>2. /\ command'.op = command.op /\ command'.step \in {"record", "restore"}
        /\ command'.drained = command.drained
        /\ command'.step = "record" =>
             /\ command'.target = command.versions.previous
             /\ command'.tag = command.tags.previous
             /\ command.tags.previous # None /\ command.tags.previous \in registry
        /\ command'.versions = command.versions /\ command'.tags = command.tags
    <3>1. CASE Goto("restore")
      <4>1. /\ command'.op = command.op /\ command'.step = "restore"
            /\ command'.drained = command.drained
            /\ command'.versions = command.versions /\ command'.tags = command.tags
        BY <3>1, MovesOn DEF Step
      <4> QED
        BY <4>1
    <3>2. CASE /\ command.tags.previous # None /\ command.tags.previous \in registry
               /\ command' = [command EXCEPT !.step = "record",
                                             !.target = command.versions.previous,
                                             !.tag = command.tags.previous]
      BY <2>1, <3>2 DEF CommandType
    <3> QED
      BY <1>5, <3>1, <3>2 DEF PrepareRollback
  <2>3. registry \subseteq Version
    BY DEF Typed, ResourcesOK
  <2>4. NeverResumed /\ command'.step = "record" => command'.tag = command'.target
    BY <2>1, <2>2, <2>3, NamesDiffer DEF Serving, TagsFit, Fits
  <2>5. ReceiptServes' /\ TagsFit' /\ IntakeOpen'
    BY <2>1, <2>2, <2>4, StillServes DEF Moving
  <2>6. ChangeServes'
    BY <2>1, <2>2 DEF ChangeServes, Runs
  <2> QED
    BY <2>1, <2>2, <2>5, <2>6, ChangeGoesOn
<1>6. CASE RecordDesired
  <2> DEFINE new == [receipt EXCEPT !.versions = Desired.versions, !.tags = Desired.tags]
  <2>1. /\ command.op \in Change /\ command.step = "record" /\ receipt \in Receipt
        /\ UNCHANGED <<stack, intake, excuse>> /\ ChangeServes
        /\ command.target \in Version /\ command.tag \in Tag
        /\ command.versions \in Versions /\ command.tags \in Tags
    BY <1>6 DEF RecordDesired, At, Typed, CommandOK, RecordsOK, Change, Moving, rest, resources,
       Serving
  <2>2. /\ new \in Receipt /\ new.phase = receipt.phase
        /\ new.versions.current = command.target
        /\ new.versions.previous = command.versions.current
        /\ new.tags.current = command.tag /\ new.tags.previous = command.tags.current
    BY <2>1 DEF Receipt, Desired, Versions, Tags
  <2>3. receipt' \in {receipt, new} /\ (Goto("suspend") \/ Goto("restore"))
    BY <1>6 DEF RecordDesired, Record
  <2>4. /\ command'.op = command.op /\ command'.step \in {"suspend", "restore"}
        /\ command'.drained = command.drained
        /\ command'.tag = command.tag /\ command'.target = command.target
        /\ command'.versions = command.versions /\ command'.tags = command.tags
    BY <2>3, MovesOn DEF Step
  <2>5. /\ receipt' # NoReceipt /\ receipt'.phase = receipt.phase
        /\ receipt.phase = "upgrading" \/ ~(excuse \subseteq {"half done"})
    BY <2>1, <2>2, <2>3, NamesDiffer DEF ChangeServes
  <2>6. ReceiptServes'
    BY <2>1, <2>5 DEF ReceiptServes
  <2>7. TagsFit'
    <3>1. NeverResumed => /\ Fits(receipt.versions, receipt.tags)
                          /\ Fits(command.versions, command.tags) /\ command.tag = command.target
      BY <2>1, NamesDiffer DEF Serving, TagsFit, Moving
    <3>2. NeverResumed => Fits(new.versions, new.tags)
      BY <2>2, <3>1 DEF Fits
    <3> HIDE DEF new
    <3>3. NeverResumed => Fits(receipt'.versions, receipt'.tags)
      BY <2>3, <3>1, <3>2
    <3> QED
      BY <2>1, <2>4, <3>1, <3>3 DEF TagsFit, Fits, NeverResumed
  <2>8. IntakeOpen'
    BY <2>1, <2>4, <2>5, NamesDiffer DEF Serving, IntakeOpen
  <2>9. ChangeServes'
    BY <2>1, <2>4, <2>5 DEF ChangeServes, Runs
  <2> QED
    BY <2>1, <2>4, <2>6, <2>7, <2>8, <2>9, ChangeGoesOn
<1>7. CASE Suspend
  <2>1. /\ command.op \in Change /\ command.step = "suspend" /\ receipt # NoReceipt
        /\ UNCHANGED <<stack, receipt, excuse>> /\ ChangeServes /\ command \in CommandType
    BY <1>7 DEF Suspend, At, Typed, CommandOK, RecordsOK, Change, rest, records, Serving
  <2>2. /\ command'.op = command.op /\ command'.step \in {"drain", "reopen"}
        /\ command'.drained = command.drained
        /\ command'.tag = command.tag /\ command'.target = command.target
        /\ command'.versions = command.versions /\ command'.tags = command.tags
    BY <1>7, MovesOn DEF Suspend, Step
  <2>3. stack.worker = None => intake' = "open"
    BY <1>7 DEF Suspend, IntakeSetTo, Serving, IntakeOpen
  <2>4. receipt.phase = "upgrading" \/ (receipt.phase = "active" /\ "answer lost" \in excuse)
    BY <2>1 DEF ChangeServes
  <2>5. NeverResumed => command.tag = command.target
    BY <2>1 DEF Serving, TagsFit, Moving
  <2>6. ReceiptServes' /\ TagsFit' /\ IntakeOpen'
    BY <2>1, <2>2, <2>3, <2>4, <2>5, MayServe DEF Change, NeverResumed
  <2>7. ChangeServes'
    BY <2>1, <2>2, <2>4 DEF ChangeServes, Runs
  <2> QED
    BY <2>1, <2>2, <2>6, <2>7, ChangeGoesOn
<1>8. CASE Drain
  <2>1. /\ command.op \in Change /\ command.step = "drain" /\ receipt # NoReceipt
        /\ UNCHANGED <<stack, intake, receipt, excuse>> /\ ChangeServes /\ command \in CommandType
    BY <1>8 DEF Drain, At, Typed, CommandOK, RecordsOK, Change, rest, records, resources, Serving
  <2>2. /\ command'.op = command.op /\ command'.step \in {"activate", "reopen"}
        /\ command'.step = "reopen" => command'.drained = command.drained
        /\ command'.tag = command.tag /\ command'.target = command.target
        /\ command'.versions = command.versions /\ command'.tags = command.tags
    <3>1. CASE Goto("reopen")
      BY <3>1, MovesOn DEF Step
    <3>2. CASE command' = [command EXCEPT !.step = "activate", !.drained = TRUE]
      BY <2>1, <3>2 DEF CommandType
    <3> QED
      BY <1>8, <3>1, <3>2 DEF Drain
  <2>3. NeverResumed => command.tag = command.target
    BY <2>1 DEF Serving, TagsFit, Moving
  <2>4. ReceiptServes' /\ TagsFit' /\ IntakeOpen'
    BY <2>1, <2>2, <2>3, StillServes
  <2>5. ChangeServes'
    BY <2>1, <2>2 DEF ChangeServes, Runs
  <2> QED
    BY <2>1, <2>2, <2>4, <2>5, ChangeGoesOn
<1>9. CASE Reopen
  <2>1. /\ command.op \in Change /\ command.step = "reopen" /\ receipt # NoReceipt
        /\ UNCHANGED <<stack, receipt>> /\ ChangeServes /\ excuse \subseteq excuse'
        /\ command.versions.current # None
    BY <1>9, VersionsNamed, NamesDiffer
    DEF Reopen, At, Typed, CommandOK, RecordsOK, Change, records, Serving
  <2>2. /\ command'.op = command.op /\ command'.step = "restore"
        /\ command'.drained = command.drained
        /\ command'.versions = command.versions /\ command'.tags = command.tags
    BY <1>9, MovesOn DEF Reopen, Step
  <2>3. stack.worker = None => intake' = "open"
    BY <1>9 DEF Reopen, IntakeSetTo, Serving, IntakeOpen
  <2>4. receipt.phase = "upgrading" \/ (receipt.phase = "active" /\ "answer lost" \in excuse)
    BY <2>1 DEF ChangeServes
  <2>5. ReceiptServes' /\ TagsFit' /\ IntakeOpen'
    BY <2>1, <2>2, <2>3, <2>4, MayServe DEF Change, NeverResumed, Moving
  <2>6. excuse' \subseteq {"half done"} => Runs(command.versions.current)' /\ intake' = "open"
    <3> SUFFICES ASSUME excuse' \subseteq {"half done"}
                 PROVE  Runs(command.versions.current)' /\ intake' = "open"
      OBVIOUS
    <3>1. excuse \subseteq {"half done"} /\ "intake" \notin excuse'
      BY <2>1
    <3>2. Runs(command.versions.current) /\ UNCHANGED stack
      BY <2>1, <2>2, <3>1 DEF ChangeServes
    <3>3. Answers /\ stack.worker # None
      BY <2>1, <3>2 DEF Answers, Runs
    <3>4. IntakeSetTo("open")
      <4>1. ~(excuse' = excuse \cup {"intake"})
        BY <3>1
      <4>2. IntakeSetTo("open") \/ ~Answers \/ excuse' = excuse \cup {"intake"}
        BY <1>9 DEF Reopen
      <4> QED
        BY <3>3, <4>1, <4>2, Zenon
    <3>5. intake' = "open"
      BY <3>3, <3>4 DEF IntakeSetTo
    <3> QED
      BY <2>2, <3>2, <3>5 DEF Runs
  <2>7. ChangeServes'
    BY <2>1, <2>2, <2>6 DEF ChangeServes, Runs
  <2> QED
    BY <2>1, <2>2, <2>5, <2>7, ChangeGoesOn
<1>10. CASE Activate
  <2>1. /\ command.op \in Change /\ command.step = "activate" /\ receipt # NoReceipt
        /\ UNCHANGED <<receipt, excuse>> /\ ChangeServes /\ command.target # None
    BY <1>10, VersionsNamed, NamesDiffer
    DEF Activate, At, Typed, CommandOK, RecordsOK, Change, records, rest, Serving, Moving
  <2>2. /\ command'.op = command.op /\ command'.step \in {"prune", "resume", "reactivate"}
        /\ command'.drained = command.drained
        /\ command'.tag = command.tag /\ command'.target = command.target
        /\ command'.versions = command.versions /\ command'.tags = command.tags
    BY <1>10, MovesOn DEF Activate, Step
  <2>3. stack'.worker = None => intake' = "open"
    BY <1>10, <2>1, PartlyKeepsIntake DEF Activate
  <2>4. receipt.phase = "upgrading" \/ (receipt.phase = "active" /\ "answer lost" \in excuse)
    BY <2>1 DEF ChangeServes
  <2>5. NeverResumed => command.tag = command.target
    BY <2>1 DEF Serving, TagsFit, Moving
  <2>6. ReceiptServes' /\ TagsFit' /\ IntakeOpen'
    BY <2>1, <2>2, <2>3, <2>4, <2>5, MayServe DEF Change, NeverResumed
  <2>7. command'.step \in {"prune", "resume"} => Runs(command.target)'
    <3>1. CASE Goto("reactivate")
      <4>1. command'.step = "reactivate"
        BY <3>1, MovesOn DEF Step
      <4> QED
        BY <4>1
    <3>2. CASE PassesHealthGate /\ DeployedTo(command.target, stack.secrets)
      BY <2>2, <3>2 DEF DeployedTo, PassesHealthGate, Runs
    <3> QED
      BY <1>10, <3>1, <3>2 DEF Activate
  <2>8. ChangeServes'
    BY <2>1, <2>2, <2>4, <2>7 DEF ChangeServes, Runs
  <2> QED
    BY <2>1, <2>2, <2>6, <2>8, ChangeGoesOn
<1>11. CASE Prune
  <2>1. /\ command.op = "upgrade" /\ command.op \in Change /\ command.step = "prune"
        /\ UNCHANGED <<stack, intake, receipt, excuse>> /\ ChangeServes
    BY <1>11 DEF Prune, At, Change, records, rest, Serving
  <2>2. /\ command'.op = command.op /\ command'.step \in {"resume", "reactivate"}
        /\ command'.drained = command.drained
        /\ command'.tag = command.tag /\ command'.target = command.target
        /\ command'.versions = command.versions /\ command'.tags = command.tags
    BY <1>11, MovesOn DEF Prune, Step
  <2>3. NeverResumed => command.tag = command.target
    BY <2>1 DEF Serving, TagsFit, Moving
  <2>4. ReceiptServes' /\ TagsFit' /\ IntakeOpen'
    BY <2>1, <2>2, <2>3, StillServes
  <2>5. ChangeServes'
    BY <2>1, <2>2 DEF ChangeServes, Runs
  <2> QED
    BY <2>1, <2>2, <2>4, <2>5, ChangeGoesOn
<1>12. CASE Resume
  <2>1. /\ command.op \in Change /\ command.step = "resume" /\ receipt # NoReceipt
        /\ UNCHANGED <<stack, receipt, excuse>> /\ ChangeServes /\ command.target # None
    BY <1>12, VersionsNamed, NamesDiffer
    DEF Resume, At, Typed, CommandOK, RecordsOK, Change, records, rest, Serving, Moving
  <2>2. /\ command'.op = command.op /\ command'.step \in {"finish", "reactivate"}
        /\ command'.drained = command.drained
        /\ command'.tag = command.tag /\ command'.target = command.target
        /\ command'.versions = command.versions /\ command'.tags = command.tags
    BY <1>12, MovesOn DEF Resume, Step
  <2>3. /\ stack.worker = None => intake' = "open"
        /\ command'.step = "finish" => intake' = "open"
    <3>1. stack.worker = None => intake = "open"
      BY DEF Serving, IntakeOpen
    <3>2. CASE Goto("reactivate")
      <4>1. command'.step = "reactivate"
        BY <3>2, MovesOn DEF Step
      <4> QED
        BY <1>12, <3>1, <4>1 DEF Resume, IntakeSetTo
    <3>3. CASE IntakeSetTo("open") /\ Goto("finish")
      BY <3>1, <3>3 DEF IntakeSetTo
    <3> QED
      BY <1>12, <3>2, <3>3 DEF Resume
  <2>4. receipt.phase = "upgrading" \/ (receipt.phase = "active" /\ "answer lost" \in excuse)
    BY <2>1 DEF ChangeServes
  <2>5. NeverResumed => command.tag = command.target
    BY <2>1 DEF Serving, TagsFit, Moving
  <2>6. ReceiptServes' /\ TagsFit' /\ IntakeOpen'
    BY <2>1, <2>2, <2>3, <2>4, <2>5, MayServe DEF Change, NeverResumed
  <2>7. ChangeServes'
    BY <2>1, <2>2, <2>3, <2>4 DEF ChangeServes, Runs
  <2> QED
    BY <2>1, <2>2, <2>6, <2>7, ChangeGoesOn
<1>13. CASE FinishChange
  <2> DEFINE new == [Settled("active") EXCEPT !.versions = Desired.versions, !.tags = Desired.tags]
  <2>1. /\ command.op \in Change /\ command.step = "finish" /\ receipt \in Receipt
        /\ command.target \in Version /\ command.tag \in Tag
        /\ command.versions \in Versions /\ command.tags \in Tags
        /\ UNCHANGED <<stack, intake>> /\ ChangeServes /\ NoReceipt \notin Receipt
    BY <1>13, NamesDiffer
    DEF FinishChange, At, Typed, CommandOK, RecordsOK, Change, Moving, resources, Serving
  <2>2. /\ new \in Receipt /\ new.phase = "active"
        /\ new.versions.current = command.target
        /\ new.versions.previous = command.versions.current
        /\ new.tags.current = command.tag /\ new.tags.previous = command.tags.current
    <3>1. Settled("active") \in Receipt /\ Settled("active").phase = "active"
      BY <2>1, SettledTyped DEF Phase
    <3> QED
      BY <2>1, <3>1 DEF Receipt, Desired, Versions, Tags
  <2> HIDE DEF new
  <2>3. NeverResumed => command.tag = command.target /\ Fits(new.versions, new.tags)
    BY <2>1, <2>2 DEF Serving, TagsFit, Moving, Fits
  <2>4. Runs(command.target) /\ intake = "open"
    BY <2>1 DEF ChangeServes
  <2>5. CASE Over(new) /\ excuse' = Stays
    <3>1. "resumed with another version" \notin excuse' => NeverResumed
      BY <2>5 DEF Stays, NeverResumed
    <3> QED
      BY <2>1, <2>2, <2>3, <2>4, <2>5, <3>1, EndServes DEF Runs
  <2>6. CASE /\ \/ UNCHANGED <<receipt, excuse>>
                \/ receipt' = new /\ excuse' = excuse \cup {"answer lost"}
             /\ Goto("reactivate")
    <3>1. /\ command'.op = command.op /\ command'.step = "reactivate"
          /\ command'.drained = command.drained
          /\ command'.versions = command.versions /\ command'.tags = command.tags
      BY <2>6, MovesOn DEF Step
    <3>2. /\ receipt.phase = "upgrading" \/ (receipt.phase = "active" /\ "answer lost" \in excuse)
          /\ receipt' # NoReceipt /\ receipt # NoReceipt
          /\ receipt'.phase = "upgrading" \/ (receipt'.phase = "active" /\ "answer lost" \in excuse')
          /\ excuse' \subseteq {"half done"} => excuse \subseteq {"half done"}
          /\ NeverResumed' <=> NeverResumed
      BY <2>1, <2>2, <2>6 DEF ChangeServes, NeverResumed
    <3>3. ReceiptServes'
      BY <3>2 DEF ReceiptServes
    <3>4. TagsFit'
      <4>1. NeverResumed => Fits(receipt.versions, receipt.tags) /\ Fits(command.versions, command.tags)
        BY <2>1, <3>2 DEF Serving, TagsFit
      <4>2. NeverResumed => Fits(receipt'.versions, receipt'.tags)
        BY <2>3, <2>6, <4>1
      <4> QED
        BY <3>1, <3>2, <4>1, <4>2 DEF TagsFit, Fits, Moving
    <3>5. IntakeOpen'
      BY <2>1, <2>4, <3>1, <3>2 DEF IntakeOpen
    <3>6. ChangeServes'
      BY <2>1, <3>1, <3>2 DEF ChangeServes
    <3> QED
      BY <2>1, <3>1, <3>3, <3>4, <3>5, <3>6, ChangeGoesOn
  <2> QED
    BY <1>13, <2>5, <2>6 DEF FinishChange, new
<1>14. CASE Reactivate
  <2>1. /\ command.op \in Change /\ command.step = "reactivate" /\ receipt # NoReceipt
        /\ UNCHANGED excuse /\ ChangeServes /\ command.versions.current # None
        /\ receipt \in Receipt
    BY <1>14, VersionsNamed, NamesDiffer
    DEF Reactivate, At, Typed, CommandOK, RecordsOK, Change, Serving
  <2>2. stack'.worker = None => intake' = "open"
    BY <1>14, <2>1, PartlyKeepsIntake DEF Reactivate
  <2>3. receipt.phase = "upgrading" \/ (receipt.phase = "active" /\ "answer lost" \in excuse)
    BY <2>1 DEF ChangeServes
  <2>4. CASE Over(receipt)
    <3>1. NeverResumed => Fits(receipt.versions, receipt.tags)
      BY <2>1 DEF Serving, TagsFit
    <3> QED
      BY <2>1, <2>2, <2>3, <2>4, <3>1, EndServes DEF NeverResumed
  <2>5. CASE /\ PassesHealthGate /\ DeployedTo(command.versions.current, stack.secrets)
             /\ Goto("resume original") /\ UNCHANGED records
    <3>1. /\ command'.op = command.op /\ command'.step = "resume original"
          /\ command'.drained = command.drained
          /\ command'.versions = command.versions /\ command'.tags = command.tags
      BY <2>5, MovesOn DEF Step
    <3>2. ReceiptServes' /\ TagsFit' /\ IntakeOpen'
      BY <2>1, <2>2, <2>3, <2>5, <3>1, MayServe DEF Change, NeverResumed, Moving, records
    <3>3. Runs(command.versions.current)'
      BY <2>5, <3>1 DEF DeployedTo, PassesHealthGate, Runs
    <3>4. ChangeServes'
      BY <2>1, <2>3, <2>5, <3>1, <3>3 DEF ChangeServes, records
    <3> QED
      BY <2>1, <3>1, <3>2, <3>4, ChangeGoesOn
  <2> QED
    BY <1>14, <2>4, <2>5 DEF Reactivate
<1>15. CASE ResumeOriginal
  <2>1. /\ command.op \in Change /\ command.step = "resume original" /\ receipt # NoReceipt
        /\ UNCHANGED <<stack, excuse>> /\ ChangeServes /\ command.versions.current # None
        /\ receipt \in Receipt
    BY <1>15, VersionsNamed, NamesDiffer
    DEF ResumeOriginal, At, Typed, CommandOK, RecordsOK, Change, rest, Serving
  <2>2. stack'.worker = None => intake' = "open"
    BY <1>15, <2>1 DEF ResumeOriginal, IntakeSetTo, Serving, IntakeOpen
  <2>3. /\ receipt.phase = "upgrading" \/ (receipt.phase = "active" /\ "answer lost" \in excuse)
        /\ Runs(command.versions.current)
    BY <2>1 DEF ChangeServes
  <2>4. CASE Over(receipt)
    <3>1. NeverResumed => Fits(receipt.versions, receipt.tags)
      BY <2>1 DEF Serving, TagsFit
    <3> QED
      BY <2>1, <2>2, <2>3, <2>4, <3>1, EndServes DEF NeverResumed
  <2>5. CASE IntakeSetTo("open") /\ Goto("restore") /\ UNCHANGED records
    <3>1. /\ command'.op = command.op /\ command'.step = "restore"
          /\ command'.drained = command.drained
          /\ command'.versions = command.versions /\ command'.tags = command.tags
      BY <2>5, MovesOn DEF Step
    <3>2. ReceiptServes' /\ TagsFit' /\ IntakeOpen'
      BY <2>1, <2>2, <2>3, <2>5, <3>1, MayServe DEF Change, NeverResumed, Moving, records
    <3>3. Runs(command.versions.current)' /\ intake' = "open"
      BY <2>1, <2>3, <2>5, <3>1 DEF IntakeSetTo, Runs
    <3>4. ChangeServes'
      BY <2>1, <3>1, <3>3 DEF ChangeServes
    <3> QED
      BY <2>1, <3>1, <3>2, <3>4, ChangeGoesOn
  <2> QED
    BY <1>15, <2>4, <2>5 DEF ResumeOriginal
<1>16. CASE Restore
  <2>1. /\ command.op \in Change /\ command.step = "restore" /\ receipt \in Receipt
        /\ command.versions \in Versions /\ command.tags \in Tags
        /\ UNCHANGED <<stack, intake>> /\ ChangeServes /\ NoReceipt \notin Receipt
    BY <1>16, NamesDiffer
    DEF Restore, At, Typed, CommandOK, RecordsOK, Change, resources, Serving
  <2>2. /\ OriginalReceipt \in Receipt /\ OriginalReceipt.phase = "active"
        /\ OriginalReceipt.versions = command.versions /\ OriginalReceipt.tags = command.tags
    <3>1. Settled("active") \in Receipt /\ Settled("active").phase = "active"
      BY <2>1, SettledTyped DEF Phase
    <3> QED
      BY <2>1, <3>1 DEF OriginalReceipt, Receipt
  <2>3. /\ stack.worker = None => intake = "open"
        /\ receipt.phase = "installing" => intake = "open"
    BY <2>1 DEF Serving, IntakeOpen
  <2>4. CASE Over(receipt) /\ UNCHANGED excuse
    <3>1. NeverResumed => Fits(receipt.versions, receipt.tags)
      BY <2>1 DEF Serving, TagsFit
    <3>2. excuse \subseteq {"half done"} /\ receipt.phase \in {"active", "repairing"} => Serves
      BY <2>1 DEF Serving, ReceiptServes
    <3> QED
      BY <2>1, <2>3, <2>4, <3>1, <3>2, EndServes DEF NeverResumed, Serves, Runs
  <2>5. CASE /\ Over(OriginalReceipt)
             /\ excuse' = excuse
                \/ (command.drained /\ command.tags.current = command.versions.current
                    /\ excuse' = Stays)
    <3>1. "resumed with another version" \notin excuse' => NeverResumed
      BY <2>5 DEF Stays, NeverResumed
    <3>2. NeverResumed => Fits(command.versions, command.tags)
      BY <2>1 DEF Serving, TagsFit
    <3>3. excuse' \subseteq {"half done"} => /\ command.tags.current = command.versions.current
                          /\ Runs(command.versions.current) /\ intake = "open"
      BY <2>1, <2>5 DEF ChangeServes
    <3> QED
      BY <2>1, <2>2, <2>3, <2>5, <3>1, <3>2, <3>3, EndServes DEF Runs
  <2> QED
    BY <1>16, <2>4, <2>5 DEF Restore
<1>17. CASE RemoveCopiedTag
  <2>1. UNCHANGED <<stack, intake, receipt, excuse, command>>
    BY <1>17 DEF RemoveCopiedTag, records
  <2> QED
    BY <2>1, ServingKept
<1> QED
  BY <1>1, <1>2, <1>3, <1>4, <1>5, <1>6, <1>7, <1>8, <1>9, <1>10, <1>11, <1>12, <1>13, <1>14,
     <1>15, <1>16, <1>17
  DEF ChangeStep

\* A record that leaves what the receipt is measured by.
LEMMA RecordServes ==
  ASSUME Serving, UNCHANGED <<stack, intake, excuse>>, receipt # NoReceipt, receipt' # NoReceipt,
         receipt'.phase = receipt.phase,
         receipt'.versions = receipt.versions, receipt'.tags = receipt.tags,
         command'.op = command.op, command.op \notin Change
  PROVE  ReceiptServes' /\ TagsFit' /\ IntakeOpen'
<1>1. ReceiptServes'
  BY DEF Serving, ReceiptServes, Serves, Runs
<1>2. TagsFit'
  BY DEF Serving, TagsFit, NeverResumed, Fits
<1>3. IntakeOpen'
  BY DEF Serving, IntakeOpen
<1> QED
  BY <1>1, <1>2, <1>3

LEMMA InstallGoesOn ==
  ASSUME command'.op = "install", ReceiptServes', TagsFit', IntakeOpen', InstallServes'
  PROVE  Serving'
BY DEF Serving, ChangeServes, AdoptServes, TeardownServes, Change

LEMMA AdoptGoesOn ==
  ASSUME command'.op = "adopt", ReceiptServes', TagsFit', IntakeOpen', AdoptServes'
  PROVE  Serving'
BY DEF Serving, ChangeServes, InstallServes, TeardownServes, Change

\* An install that gives up: its receipt is not settled, or it has an excuse.
LEMMA InstallEnds ==
  ASSUME Typed, Serving, command.op = "install", UNCHANGED excuse, intake' = "open",
         Over(receipt)
  PROVE  Serving'
<1>1. /\ receipt \in Receipt /\ receipt # NoReceipt
      /\ receipt.phase = "installing" \/ "answer lost" \in excuse
      /\ NeverResumed => Fits(receipt.versions, receipt.tags)
  BY NamesDiffer DEF Typed, RecordsOK, Serving, InstallServes, TagsFit
<1> QED
  BY <1>1, EndServes DEF NeverResumed

LEMMA CreatesServes ==
  ASSUME Typed, Serving, receipt = NoReceipt, NEW new \in Receipt,
         new.phase = "installing", Fits(new.versions, new.tags),
         \/ Creates(new, "install", "bootstrap") \/ Creates(new, "adopt", "deploy over"),
         excuse' = {}, UNCHANGED <<stack, intake>>
  PROVE  Serving'
<1>1. intake = "open" /\ new # NoReceipt
  BY NamesDiffer DEF Serving, IntakeOpen
<1>2. CASE Over(receipt) \/ Over(new)
  BY <1>1, <1>2, EndServes
<1>3. CASE /\ receipt' = new
           /\ \/ command' = [Idle EXCEPT !.op = "install", !.step = "bootstrap",
                                         !.target = new.versions.current]
              \/ command' = [Idle EXCEPT !.op = "adopt", !.step = "deploy over",
                                         !.target = new.versions.current]
  <2>1. /\ command'.target = new.versions.current
        /\ \/ command'.op = "install" /\ command'.step = "bootstrap"
           \/ command'.op = "adopt" /\ command'.step = "deploy over"
    BY <1>3 DEF Idle
  <2>2. ReceiptServes'
    BY <1>3 DEF ReceiptServes
  <2>3. TagsFit'
    BY <1>3, <2>1 DEF TagsFit, Fits, Change
  <2>4. IntakeOpen'
    BY <1>1 DEF IntakeOpen
  <2>5. CASE command'.op = "install"
    BY <1>3, <2>1, <2>2, <2>3, <2>4, <2>5, InstallGoesOn DEF InstallServes
  <2>6. CASE command'.op = "adopt"
    BY <1>3, <2>1, <2>2, <2>3, <2>4, <2>6, AdoptGoesOn DEF AdoptServes
  <2> QED
    BY <2>1, <2>5, <2>6
<1> QED
  BY <1>2, <1>3 DEF Creates

LEMMA FreshFits ==
  ASSUME NEW v \in Version
  PROVE  /\ FreshReceipt(v).phase = "installing"
         /\ Fits(FreshReceipt(v).versions, FreshReceipt(v).tags)
         /\ [FreshReceipt(v) EXCEPT !.application = TRUE].phase = "installing"
         /\ Fits([FreshReceipt(v) EXCEPT !.application = TRUE].versions,
                 [FreshReceipt(v) EXCEPT !.application = TRUE].tags)
BY DEF FreshReceipt, Fits

LEMMA InstallStepServes ==
  ASSUME Typed, Serving, command.op = "install", InstallStep
  PROVE  Serving'
<1>0. /\ receipt \in Receipt /\ receipt # NoReceipt /\ InstallServes /\ intake = "open"
      /\ receipt.phase = "installing" \/ "answer lost" \in excuse
      /\ command.target \in Version /\ command.target # None /\ command.op \notin Change
      /\ command.op # "none" /\ Idle.op = "none"
  BY NamesDiffer, VersionsNamed, IdleTyped
  DEF Typed, RecordsOK, Serving, InstallServes, IntakeOpen, Change
<1>1. CASE BeginInstall
  BY <1>0, <1>1 DEF BeginInstall
<1>2. CASE Bootstrap
  <2>1. command.step = "bootstrap" /\ UNCHANGED <<receipt, excuse>>
    BY <1>2 DEF Bootstrap, At, records, rest
  <2>2. /\ command'.op = command.op /\ command'.step \in {"record stack", "release"}
        /\ command'.target = command.target
        /\ command'.versions = command.versions /\ command'.tags = command.tags
    BY <1>2, MovesOn DEF Bootstrap, Step
  <2>3. intake' = "open"
    BY <1>0, <1>2 DEF Bootstrap, DeployedTo, PartlyDeployedTo
  <2>4. ReceiptServes' /\ TagsFit' /\ IntakeOpen'
    BY <1>0, <2>1, <2>2, <2>3, MayServe DEF NeverResumed
  <2>5. command'.step = "record stack" =>
          /\ stack'.worker = command.target /\ stack'.application = command.target
          /\ stack'.secrets = FALSE
    <3>1. CASE Goto("release")
      <4>1. command'.step = "release"
        BY <3>1, MovesOn DEF Step
      <4> QED
        BY <4>1
    <3>2. CASE DeployedTo(command.target, FALSE)
      BY <3>2 DEF DeployedTo
    <3> QED
      BY <1>2, <3>1, <3>2 DEF Bootstrap
  <2>6. InstallServes'
    BY <1>0, <2>1, <2>2, <2>5 DEF InstallServes, Deployed
  <2> QED
    BY <1>0, <2>2, <2>4, <2>6, InstallGoesOn
<1>3. CASE RecordStack
  <2> DEFINE new == [receipt EXCEPT !.application = TRUE, !.tags.current = command.target]
  <2>1. /\ command.step = "record stack" /\ UNCHANGED <<stack, intake, excuse>>
        /\ Record(new, "create app", "release")
    BY <1>3 DEF RecordStack, At, rest, resources
  <2>2. /\ new \in Receipt /\ new.phase = receipt.phase /\ new.versions = receipt.versions
        /\ new.tags.current = command.target /\ new.tags.previous = receipt.tags.previous
    BY <1>0 DEF Receipt, Tags, Tag
  <2> HIDE DEF new
  <2>3. /\ command'.op = command.op /\ command'.target = command.target
        /\ command'.versions = command.versions /\ command'.tags = command.tags
        /\ receipt' \in {receipt, new}
        /\ command'.step = "release" \/ (command'.step = "create app" /\ receipt' = new)
    <3>1. CASE Goto("release")
      BY <2>1, <3>1, MovesOn DEF Step, Record
    <3>2. CASE receipt' = new /\ Goto("create app")
      BY <3>2, MovesOn DEF Step
    <3> QED
      BY <2>1, <3>1, <3>2 DEF Record
  <2>4. receipt' # NoReceipt /\ receipt'.phase = receipt.phase /\ receipt'.versions = receipt.versions
    BY <1>0, <2>2, <2>3, NamesDiffer
  <2>5. ReceiptServes'
    BY <1>0, <2>1, <2>4 DEF Serving, ReceiptServes, InstallServes
  <2>6. TagsFit'
    <3>1. NeverResumed => Fits(receipt.versions, receipt.tags)
      BY <1>0 DEF Serving, TagsFit
    <3>2. NeverResumed => Fits(new.versions, new.tags)
      BY <1>0, <2>2, <3>1 DEF Fits, InstallServes
    <3>3. NeverResumed => Fits(receipt'.versions, receipt'.tags)
      BY <2>3, <3>1, <3>2
    <3> QED
      BY <1>0, <2>1, <2>3, <3>3 DEF TagsFit, Fits, NeverResumed
  <2>7. IntakeOpen'
    BY <1>0, <2>1 DEF IntakeOpen
  <2>8. InstallServes'
    BY <1>0, <2>1, <2>2, <2>3, <2>4 DEF InstallServes, Deployed
  <2> QED
    BY <1>0, <2>3, <2>5, <2>6, <2>7, <2>8, InstallGoesOn
<1>4. CASE CreateApp
  <2>1. /\ command.step = "create app" /\ UNCHANGED <<stack, intake, receipt, excuse>>
        /\ command \in CommandType
    BY <1>4 DEF CreateApp, At, records, rest, Typed, CommandOK
  <2>2. /\ command'.op = command.op /\ command'.step \in {"record app", "release"}
        /\ command'.target = command.target
        /\ command'.versions = command.versions /\ command'.tags = command.tags
    <3>1. CASE Goto("release")
      BY <3>1, MovesOn DEF Step
    <3>2. CASE command' = [command EXCEPT !.step = "record app", !.credentials = TRUE]
      BY <2>1, <3>2 DEF CommandType
    <3> QED
      BY <1>4, <3>1, <3>2 DEF CreateApp
  <2>3. ReceiptServes' /\ TagsFit' /\ IntakeOpen'
    BY <1>0, <2>1, <2>2, StillServes
  <2>4. InstallServes'
    BY <1>0, <2>1, <2>2 DEF InstallServes, Deployed
  <2> QED
    BY <1>0, <2>2, <2>3, <2>4, InstallGoesOn
<1>5. CASE RecordApp
  <2> DEFINE new == [receipt EXCEPT !.app = TRUE]
  <2>1. /\ command.step = "record app" /\ UNCHANGED <<stack, intake, excuse>>
        /\ receipt' \in {receipt, new}
    BY <1>5 DEF RecordApp, At, rest, resources, Record
  <2>2. /\ new \in Receipt /\ new.phase = receipt.phase
        /\ new.versions = receipt.versions /\ new.tags = receipt.tags
    BY <1>0 DEF Receipt
  <2>3. /\ command'.op = command.op /\ command'.step \in {"configure", "release"}
        /\ command'.target = command.target
        /\ command'.versions = command.versions /\ command'.tags = command.tags
    BY <1>5, MovesOn DEF RecordApp, Record, Step
  <2>4. /\ receipt' # NoReceipt /\ receipt'.phase = receipt.phase
        /\ receipt'.versions = receipt.versions /\ receipt'.tags = receipt.tags
    BY <1>0, <2>1, <2>2, NamesDiffer
  <2>5. ReceiptServes' /\ TagsFit' /\ IntakeOpen'
    BY <1>0, <2>1, <2>3, <2>4, RecordServes
  <2>6. InstallServes'
    BY <1>0, <2>1, <2>3, <2>4 DEF InstallServes, Deployed
  <2> QED
    BY <1>0, <2>3, <2>5, <2>6, InstallGoesOn
<1>6. CASE Configure
  <2>1. command.step = "configure" /\ UNCHANGED <<receipt, excuse>>
    BY <1>6 DEF Configure, At, records, rest
  <2>2. /\ command'.op = command.op /\ command'.step \in {"install app", "release"}
        /\ command'.target = command.target
        /\ command'.versions = command.versions /\ command'.tags = command.tags
    BY <1>6, MovesOn DEF Configure, Step
  <2>3. intake' = "open"
    BY <1>0, <1>6 DEF Configure, DeployedTo, PartlyDeployedTo
  <2>4. ReceiptServes' /\ TagsFit' /\ IntakeOpen'
    BY <1>0, <2>1, <2>2, <2>3, MayServe DEF NeverResumed
  <2>5. command'.step = "install app" =>
          /\ stack'.worker = command.target /\ stack'.application = command.target
          /\ stack'.secrets = TRUE
    <3>1. CASE Goto("release")
      <4>1. command'.step = "release"
        BY <3>1, MovesOn DEF Step
      <4> QED
        BY <4>1
    <3>2. CASE DeployedTo(command.target, TRUE)
      BY <3>2 DEF DeployedTo
    <3> QED
      BY <1>6, <3>1, <3>2 DEF Configure
  <2>6. InstallServes'
    BY <1>0, <2>1, <2>2, <2>5 DEF InstallServes, Deployed
  <2> QED
    BY <1>0, <2>2, <2>4, <2>6, InstallGoesOn
<1>7. CASE InstallApp
  <2>1. /\ command.step = "install app" /\ UNCHANGED <<stack, intake, receipt, excuse>>
    BY <1>7 DEF InstallApp, At, records, rest, resources
  <2>2. /\ command'.op = command.op /\ command'.step \in {"record installations", "release"}
        /\ command'.target = command.target
        /\ command'.versions = command.versions /\ command'.tags = command.tags
    BY <1>7, MovesOn DEF InstallApp, Step
  <2>3. ReceiptServes' /\ TagsFit' /\ IntakeOpen'
    BY <1>0, <2>1, <2>2, StillServes
  <2>4. InstallServes'
    BY <1>0, <2>1, <2>2 DEF InstallServes, Deployed
  <2> QED
    BY <1>0, <2>2, <2>3, <2>4, InstallGoesOn
<1>8. CASE RecordInstallations
  <2> DEFINE new == [receipt EXCEPT !.installed = TRUE]
  <2>1. /\ command.step = "record installations" /\ UNCHANGED <<stack, intake, excuse>>
        /\ receipt' \in {receipt, new}
    BY <1>8 DEF RecordInstallations, At, rest, resources, Record
  <2>2. /\ new \in Receipt /\ new.phase = receipt.phase
        /\ new.versions = receipt.versions /\ new.tags = receipt.tags
    BY <1>0 DEF Receipt
  <2>3. /\ command'.op = command.op /\ command'.step \in {"claim", "release"}
        /\ command'.target = command.target
        /\ command'.versions = command.versions /\ command'.tags = command.tags
    BY <1>8, MovesOn DEF RecordInstallations, Record, Step
  <2>4. /\ receipt' # NoReceipt /\ receipt'.phase = receipt.phase
        /\ receipt'.versions = receipt.versions /\ receipt'.tags = receipt.tags
    BY <1>0, <2>1, <2>2, NamesDiffer
  <2>5. ReceiptServes' /\ TagsFit' /\ IntakeOpen'
    BY <1>0, <2>1, <2>3, <2>4, RecordServes
  <2>6. InstallServes'
    BY <1>0, <2>1, <2>3, <2>4 DEF InstallServes, Deployed
  <2> QED
    BY <1>0, <2>3, <2>5, <2>6, InstallGoesOn
<1>9. CASE Claim
  <2>1. /\ command.step = "claim" /\ UNCHANGED <<stack, intake, receipt, excuse>>
    BY <1>9 DEF Claim, At, records, rest, resources
  <2>2. /\ command'.op = command.op /\ command'.step \in {"health", "release"}
        /\ command'.target = command.target
        /\ command'.versions = command.versions /\ command'.tags = command.tags
    BY <1>9, MovesOn DEF Claim, Step
  <2>3. ReceiptServes' /\ TagsFit' /\ IntakeOpen'
    BY <1>0, <2>1, <2>2, StillServes
  <2>4. InstallServes'
    BY <1>0, <2>1, <2>2 DEF InstallServes, Deployed
  <2> QED
    BY <1>0, <2>2, <2>3, <2>4, InstallGoesOn
<1>10. CASE CheckHealth
  <2>1. /\ command.step = "health" /\ UNCHANGED <<stack, intake, receipt, excuse>>
    BY <1>10 DEF CheckHealth, At, records, rest, resources
  <2>2. /\ command'.op = command.op /\ command'.step \in {"finish", "release"}
        /\ command'.target = command.target
        /\ command'.versions = command.versions /\ command'.tags = command.tags
    BY <1>10, MovesOn DEF CheckHealth, Step
  <2>3. ReceiptServes' /\ TagsFit' /\ IntakeOpen'
    BY <1>0, <2>1, <2>2, StillServes
  <2>4. InstallServes'
    BY <1>0, <2>1, <2>2 DEF InstallServes, Deployed
  <2> QED
    BY <1>0, <2>2, <2>3, <2>4, InstallGoesOn
<1>11. CASE FinishInstall
  <2>1. /\ command.step = "finish" /\ UNCHANGED <<stack, intake>>
        /\ Runs(command.target) /\ receipt.tags.current = command.target
        /\ receipt.versions.current = command.target
        /\ NeverResumed => Fits(receipt.versions, receipt.tags)
    BY <1>0, <1>11 DEF FinishInstall, At, resources, InstallServes, Deployed, Runs, Serving, TagsFit
  <2>2. /\ Settled("active") \in Receipt /\ Settled("active").phase = "active"
        /\ Settled("active").versions = receipt.versions /\ Settled("active").tags = receipt.tags
    BY <1>0, SettledTyped DEF Phase
  <2>3. CASE Over(Settled("active")) /\ UNCHANGED excuse
    <3>1. /\ stack'.worker = receipt.versions.current
          /\ stack'.application = receipt.versions.current
          /\ stack'.secrets /\ intake' = "open"
          /\ receipt.tags.current = receipt.versions.current
      BY <1>0, <2>1 DEF Runs
    <3>2. "resumed with another version" \notin excuse' => Fits(receipt.versions, receipt.tags)
      BY <2>1, <2>3 DEF NeverResumed
    <3> QED
      BY <2>2, <2>3, <3>1, <3>2, EndServes
  <2>4. CASE /\ \/ UNCHANGED <<receipt, excuse>>
                \/ /\ receipt' = Settled("active")
                   /\ excuse' = excuse \cup {"answer lost", "half done"}
             /\ Goto("release")
    <3>1. /\ command'.op = command.op /\ command'.step = "release"
          /\ command'.target = command.target
      BY <2>4, MovesOn DEF Step
    <3>2. /\ receipt' # NoReceipt
          /\ receipt'.versions = receipt.versions /\ receipt'.tags = receipt.tags
          /\ receipt'.phase = "installing" \/ "answer lost" \in excuse'
          /\ NeverResumed' <=> NeverResumed
      BY <1>0, <2>2, <2>4, NamesDiffer DEF NeverResumed
    <3>3. ReceiptServes'
      BY <3>2 DEF ReceiptServes
    <3>4. TagsFit'
      BY <1>0, <2>1, <3>1, <3>2 DEF TagsFit, Fits
    <3>5. IntakeOpen'
      BY <1>0, <2>1 DEF IntakeOpen
    <3>6. InstallServes'
      BY <2>1, <3>1, <3>2 DEF InstallServes
    <3> QED
      BY <1>0, <3>1, <3>3, <3>4, <3>5, <3>6, InstallGoesOn
  <2> QED
    BY <1>11, <2>3, <2>4 DEF FinishInstall
<1>12. CASE Release
  <2>1. command.step = "release" /\ UNCHANGED excuse /\ intake' = "open"
    BY <1>0, <1>12 DEF Release, At, rest
  <2>2. CASE Over(receipt)
    BY <1>0, <2>1, <2>2, InstallEnds
  <2>3. CASE Goto("remove stack") /\ UNCHANGED records
    <3>1. /\ command'.op = command.op /\ command'.step = "remove stack"
          /\ command'.target = command.target
          /\ command'.versions = command.versions /\ command'.tags = command.tags
      BY <2>3, MovesOn DEF Step
    <3>2. ReceiptServes' /\ TagsFit' /\ IntakeOpen'
      BY <1>0, <2>1, <2>3, <3>1, MayServe DEF NeverResumed, records
    <3>3. InstallServes'
      BY <1>0, <2>1, <2>3, <3>1 DEF InstallServes, records
    <3> QED
      BY <1>0, <3>1, <3>2, <3>3, InstallGoesOn
  <2> QED
    BY <1>12, <2>2, <2>3 DEF Release
<1>13. CASE RemoveStack
  <2>1. command.step = "remove stack" /\ UNCHANGED excuse /\ intake' = "open"
    BY <1>0, <1>13 DEF RemoveStack, At, rest, Removed, PartlyRemoved
  <2>2. CASE Over(receipt)
    BY <1>0, <2>1, <2>2, InstallEnds
  <2>3. CASE Goto("remove image") /\ UNCHANGED records
    <3>1. /\ command'.op = command.op /\ command'.step = "remove image"
          /\ command'.target = command.target
          /\ command'.versions = command.versions /\ command'.tags = command.tags
      BY <2>3, MovesOn DEF Step
    <3>2. ReceiptServes' /\ TagsFit' /\ IntakeOpen'
      BY <1>0, <2>1, <2>3, <3>1, MayServe DEF NeverResumed, records
    <3>3. InstallServes'
      BY <1>0, <2>1, <2>3, <3>1 DEF InstallServes, records
    <3> QED
      BY <1>0, <3>1, <3>2, <3>3, InstallGoesOn
  <2> QED
    BY <1>13, <2>2, <2>3 DEF RemoveStack
<1>14. CASE RemoveImage
  <2>1. command.step = "remove image" /\ UNCHANGED excuse /\ intake' = "open"
    BY <1>0, <1>14 DEF RemoveImage, At, rest
  <2>2. CASE Over(receipt)
    BY <1>0, <2>1, <2>2, InstallEnds
  <2>3. CASE Goto("delete app") /\ UNCHANGED records
    <3>1. /\ command'.op = command.op /\ command'.step = "delete app"
          /\ command'.target = command.target
          /\ command'.versions = command.versions /\ command'.tags = command.tags
      BY <2>3, MovesOn DEF Step
    <3>2. ReceiptServes' /\ TagsFit' /\ IntakeOpen'
      BY <1>0, <2>1, <2>3, <3>1, MayServe DEF NeverResumed, records
    <3>3. InstallServes'
      BY <1>0, <2>1, <2>3, <3>1 DEF InstallServes, records
    <3> QED
      BY <1>0, <3>1, <3>2, <3>3, InstallGoesOn
  <2> QED
    BY <1>14, <2>2, <2>3 DEF RemoveImage
<1>15. CASE DeletePartialApp
  <2>1. command.step = "delete app" /\ UNCHANGED excuse /\ intake' = "open"
    BY <1>0, <1>15 DEF DeletePartialApp, At, rest
  <2>2. CASE Over(receipt)
    BY <1>0, <2>1, <2>2, InstallEnds
  <2>3. CASE Goto("delete receipt") /\ UNCHANGED records
    <3>1. /\ command'.op = command.op /\ command'.step = "delete receipt"
          /\ command'.target = command.target
          /\ command'.versions = command.versions /\ command'.tags = command.tags
      BY <2>3, MovesOn DEF Step
    <3>2. ReceiptServes' /\ TagsFit' /\ IntakeOpen'
      BY <1>0, <2>1, <2>3, <3>1, MayServe DEF NeverResumed, records
    <3>3. InstallServes'
      BY <1>0, <2>1, <2>3, <3>1 DEF InstallServes, records
    <3> QED
      BY <1>0, <3>1, <3>2, <3>3, InstallGoesOn
  <2> QED
    BY <1>15, <2>2, <2>3 DEF DeletePartialApp
<1>16. CASE DeletePartialReceipt
  <2>1. UNCHANGED <<stack, intake, excuse>>
    BY <1>16 DEF DeletePartialReceipt, resources, rest
  <2>2. CASE Over(receipt)
    BY <1>0, <2>1, <2>2, InstallEnds
  <2>3. CASE Over(NoReceipt)
    BY <1>0, <2>1, <2>3, EndServes
  <2> QED
    BY <1>16, <2>2, <2>3 DEF DeletePartialReceipt
<1>17. CASE BeginAdopt
  BY <1>0, <1>17 DEF BeginAdopt, CanBegin
<1>18. CASE DeployOver \/ RecordAdopted \/ Inventory \/ ClaimMissing \/ FinishAdopt \/ LeaveInstalling
  BY <1>0, <1>18
  DEF DeployOver, RecordAdopted, Inventory, ClaimMissing, FinishAdopt, LeaveInstalling, At
<1> QED
  BY <1>1, <1>2, <1>3, <1>4, <1>5, <1>6, <1>7, <1>8, <1>9, <1>10, <1>11, <1>12, <1>13, <1>14,
     <1>15, <1>16, <1>17, <1>18
  DEF InstallStep

\* An adoption that is over: the receipt is left as it is, or settled.
LEMMA AdoptEnds ==
  ASSUME Typed, Serving, command.op = "adopt", UNCHANGED <<stack, excuse>>, intake' = "open",
         NEW phase \in Phase, Over(receipt) \/ Over(Settled(phase)),
         phase = "active" => command.step = "finish", phase \notin {"repairing"}
  PROVE  Serving'
<1>1. /\ receipt \in Receipt /\ receipt # NoReceipt /\ AdoptServes
      /\ NeverResumed => Fits(receipt.versions, receipt.tags)
      /\ excuse \subseteq {"half done"} /\ receipt.phase \in {"active", "repairing"} => Serves
  BY NamesDiffer DEF Typed, RecordsOK, Serving, TagsFit, ReceiptServes
<1>2. /\ Settled(phase) \in Receipt /\ Settled(phase).phase = phase
      /\ Settled(phase).versions = receipt.versions /\ Settled(phase).tags = receipt.tags
  BY <1>1, SettledTyped
<1>3. excuse \subseteq {"half done"} /\ phase = "active" =>
        /\ Runs(receipt.versions.current) /\ receipt.tags.current = receipt.versions.current
  BY <1>1 DEF AdoptServes, NeverResumed
<1>4. CASE Over(receipt)
  BY <1>1, <1>4, EndServes DEF NeverResumed, Serves, Runs
<1>5. CASE Over(Settled(phase))
  BY <1>1, <1>2, <1>3, <1>5, EndServes DEF NeverResumed, Runs
<1> QED
  BY <1>4, <1>5

LEMMA BeginAdoptServes ==
  ASSUME Typed, Serving, BeginAdopt
  PROVE  Serving'
<1>1. PICK v \in Version :
        \/ /\ receipt = NoReceipt
           /\ Creates([FreshReceipt(v) EXCEPT !.application = TRUE], "adopt", "deploy over")
           /\ excuse' = {}
        \/ /\ CanBegin /\ receipt.phase = "installing" /\ Acquire("installing")
           /\ command' = [Idle EXCEPT !.op = "adopt", !.step = "deploy over", !.target = v]
           /\ excuse' = IF v = receipt.versions.current THEN excuse
                        ELSE excuse \cup {"resumed with another version"}
  BY DEF BeginAdopt
<1>2. UNCHANGED <<stack, intake>> /\ Idle \in CommandType
  BY IdleTyped DEF BeginAdopt, resources
<1>3. CASE /\ receipt = NoReceipt
           /\ Creates([FreshReceipt(v) EXCEPT !.application = TRUE], "adopt", "deploy over")
           /\ excuse' = {}
  BY <1>2, <1>3, FreshTyped, FreshFits, CreatesServes
<1>4. CASE /\ CanBegin /\ receipt.phase = "installing" /\ Acquire("installing")
           /\ command' = [Idle EXCEPT !.op = "adopt", !.step = "deploy over", !.target = v]
           /\ excuse' = IF v = receipt.versions.current THEN excuse
                        ELSE excuse \cup {"resumed with another version"}
  <2>1. receipt \in Receipt /\ receipt # NoReceipt
    BY <1>4 DEF Typed, RecordsOK, CanBegin
  <2>2. /\ receipt' # NoReceipt /\ receipt'.phase = "installing"
        /\ receipt'.versions = receipt.versions /\ receipt'.tags = receipt.tags
    <3>1. receipt' \in Receipt
      BY <1>4, <2>1 DEF Acquire, Receipt, Phase
    <3> QED
      BY <1>4, <2>1, <3>1, NamesDiffer DEF Acquire, Receipt
  <2>3. command'.op = "adopt" /\ command'.step = "deploy over" /\ command'.target = v
    BY <1>4 DEF Idle
  <2>4. NeverResumed' => NeverResumed /\ v = receipt.versions.current
    BY <1>4 DEF NeverResumed
  <2>5. intake = "open" /\ (NeverResumed => Fits(receipt.versions, receipt.tags))
    BY <1>4, <2>1 DEF Serving, IntakeOpen, TagsFit
  <2>6. ReceiptServes'
    BY <2>2 DEF ReceiptServes
  <2>7. TagsFit'
    BY <2>2, <2>3, <2>4, <2>5 DEF TagsFit, Fits, Change
  <2>8. IntakeOpen'
    BY <1>2, <2>5 DEF IntakeOpen
  <2>9. AdoptServes'
    BY <2>2, <2>3, <2>4 DEF AdoptServes
  <2> QED
    BY <2>3, <2>6, <2>7, <2>8, <2>9, AdoptGoesOn
<1> QED
  BY <1>1, <1>3, <1>4

LEMMA AdoptStepServes ==
  ASSUME Typed, Serving, command.op = "adopt",
         \/ DeployOver \/ RecordAdopted \/ Inventory \/ ClaimMissing \/ FinishAdopt
         \/ LeaveInstalling
  PROVE  Serving'
<1>0. /\ receipt \in Receipt /\ receipt # NoReceipt /\ AdoptServes /\ intake = "open"
      /\ command.target \in Version /\ command.target # None /\ command.op \notin Change
      /\ NeverResumed => Fits(receipt.versions, receipt.tags)
  BY NamesDiffer, VersionsNamed
  DEF Typed, RecordsOK, Serving, AdoptServes, IntakeOpen, Change, TagsFit
<1>1. CASE DeployOver
  <2>1. command.step = "deploy over" /\ UNCHANGED <<receipt, excuse>>
    BY <1>1 DEF DeployOver, At, records, rest
  <2>2. /\ command'.op = command.op /\ command'.step \in {"record adopted", "leave installing"}
        /\ command'.target = command.target
        /\ command'.versions = command.versions /\ command'.tags = command.tags
    BY <1>1, MovesOn DEF DeployOver, Step
  <2>3. intake' = "open" /\ receipt.phase = "installing"
    BY <1>0, <1>1, <2>1 DEF DeployOver, DeployedTo, PartlyDeployedTo, AdoptServes
  <2>4. ReceiptServes' /\ TagsFit' /\ IntakeOpen'
    BY <1>0, <2>1, <2>2, <2>3, MayServe DEF NeverResumed
  <2>5. command'.step = "record adopted" => Runs(command.target)'
    <3>1. CASE Goto("leave installing")
      <4>1. command'.step = "leave installing"
        BY <3>1, MovesOn DEF Step
      <4> QED
        BY <4>1
    <3>2. CASE PassesHealthGate /\ DeployedTo(command.target, stack.secrets)
      BY <2>2, <3>2 DEF DeployedTo, PassesHealthGate, Runs
    <3> QED
      BY <1>1, <3>1, <3>2 DEF DeployOver
  <2>6. AdoptServes'
    BY <1>0, <2>1, <2>2, <2>3, <2>5 DEF AdoptServes, NeverResumed
  <2> QED
    BY <1>0, <2>2, <2>4, <2>6, AdoptGoesOn
<1>2. CASE RecordAdopted
  <2> DEFINE new == [receipt EXCEPT !.application = TRUE,
                               !.tags = [current |-> command.target, previous |-> None]]
  <2>1. /\ command.step = "record adopted" /\ UNCHANGED <<stack, intake, excuse>>
        /\ Record(new, "inventory", "leave installing")
    BY <1>2 DEF RecordAdopted, At, rest, resources
  <2>2. /\ new \in Receipt /\ new.phase = receipt.phase /\ new.versions = receipt.versions
        /\ new.tags.current = command.target /\ new.tags.previous = None
    BY <1>0 DEF Receipt, Tags, Tag
  <2> HIDE DEF new
  <2>3. /\ command'.op = command.op /\ command'.target = command.target
        /\ command'.versions = command.versions /\ command'.tags = command.tags
        /\ receipt' \in {receipt, new}
        /\ command'.step = "leave installing" \/ (command'.step = "inventory" /\ receipt' = new)
    <3>1. CASE Goto("leave installing")
      BY <2>1, <3>1, MovesOn DEF Step, Record
    <3>2. CASE receipt' = new /\ Goto("inventory")
      BY <3>2, MovesOn DEF Step
    <3> QED
      BY <2>1, <3>1, <3>2 DEF Record
  <2>4. /\ receipt' # NoReceipt /\ receipt'.phase = receipt.phase
        /\ receipt'.versions = receipt.versions /\ receipt.phase = "installing"
    BY <1>0, <2>1, <2>2, <2>3, NamesDiffer DEF AdoptServes
  <2>5. ReceiptServes'
    BY <2>4 DEF ReceiptServes
  <2>6. TagsFit'
    <3>1. NeverResumed => Fits(new.versions, new.tags)
      BY <1>0, <2>2 DEF Fits, AdoptServes
    <3>2. NeverResumed => Fits(receipt'.versions, receipt'.tags)
      BY <1>0, <2>3, <3>1
    <3> QED
      BY <1>0, <2>1, <2>3, <3>2 DEF TagsFit, Fits, NeverResumed
  <2>7. IntakeOpen'
    BY <1>0, <2>1 DEF IntakeOpen
  <2>8. AdoptServes'
    BY <1>0, <2>1, <2>2, <2>3, <2>4 DEF AdoptServes, Runs, NeverResumed
  <2> QED
    BY <1>0, <2>3, <2>5, <2>6, <2>7, <2>8, AdoptGoesOn
<1>3. CASE Inventory
  <2> DEFINE new == [receipt EXCEPT !.app = TRUE, !.installed = github.installed]
  <2>1. /\ command.step = "inventory" /\ UNCHANGED <<stack, intake, excuse>>
        /\ receipt' \in {receipt, new}
    BY <1>3 DEF Inventory, At, rest, resources, Record
  <2>2. /\ new \in Receipt /\ new.phase = receipt.phase
        /\ new.versions = receipt.versions /\ new.tags = receipt.tags
    <3>1. github.installed \in BOOLEAN
      BY DEF Typed, ResourcesOK, GitHubType
    <3> QED
      BY <1>0, <3>1 DEF Receipt
  <2>3. /\ command'.op = command.op /\ command'.step \in {"ownership", "leave installing"}
        /\ command'.target = command.target
        /\ command'.versions = command.versions /\ command'.tags = command.tags
    BY <1>3, MovesOn DEF Inventory, Record, Step
  <2>4. /\ receipt' # NoReceipt /\ receipt'.phase = receipt.phase
        /\ receipt'.versions = receipt.versions /\ receipt'.tags = receipt.tags
    BY <1>0, <2>1, <2>2, NamesDiffer
  <2>5. ReceiptServes' /\ TagsFit' /\ IntakeOpen'
    BY <1>0, <2>1, <2>3, <2>4, RecordServes
  <2>6. AdoptServes'
    BY <1>0, <2>1, <2>3, <2>4 DEF AdoptServes, Runs, NeverResumed
  <2> QED
    BY <1>0, <2>3, <2>5, <2>6, AdoptGoesOn
<1>4. CASE ClaimMissing
  <2>1. /\ command.step = "ownership" /\ UNCHANGED <<stack, intake, receipt, excuse>>
    BY <1>4 DEF ClaimMissing, At, records, rest
  <2>2. /\ command'.op = command.op /\ command'.step \in {"finish", "leave installing"}
        /\ command'.target = command.target
        /\ command'.versions = command.versions /\ command'.tags = command.tags
    BY <1>4, MovesOn DEF ClaimMissing, Step
  <2>3. ReceiptServes' /\ TagsFit' /\ IntakeOpen'
    BY <1>0, <2>1, <2>2, StillServes
  <2>4. AdoptServes'
    BY <1>0, <2>1, <2>2 DEF AdoptServes, Runs, NeverResumed
  <2> QED
    BY <1>0, <2>2, <2>3, <2>4, AdoptGoesOn
<1>5. CASE FinishAdopt
  <2>1. /\ command.step = "finish" /\ UNCHANGED <<stack, intake, excuse>>
    BY <1>5 DEF FinishAdopt, At, resources, rest
  <2>2. CASE Over(Settled("active"))
    BY <1>0, <2>1, <2>2, AdoptEnds DEF Phase
  <2>3. CASE receipt' \in {receipt, Settled("active")} /\ Goto("leave installing")
    <3>1. /\ command'.op = command.op /\ command'.step = "leave installing"
          /\ command'.target = command.target
          /\ command'.versions = command.versions /\ command'.tags = command.tags
      BY <2>3, MovesOn DEF Step
    <3>2. /\ Settled("active") \in Receipt /\ Settled("active").phase = "active"
          /\ Settled("active").versions = receipt.versions /\ Settled("active").tags = receipt.tags
      BY <1>0, SettledTyped DEF Phase
    <3>3. /\ receipt' # NoReceipt /\ receipt'.versions = receipt.versions
          /\ receipt'.tags = receipt.tags
      BY <1>0, <2>3, <3>2, NamesDiffer
    <3>4. ReceiptServes'
      BY <1>0, <2>1, <3>3 DEF ReceiptServes, Serves, Runs, AdoptServes, NeverResumed
    <3>5. TagsFit'
      BY <1>0, <2>1, <3>1, <3>3 DEF TagsFit, Fits, NeverResumed
    <3>6. IntakeOpen'
      BY <1>0, <2>1 DEF IntakeOpen
    <3>7. AdoptServes'
      BY <1>0, <2>1, <3>1, <3>3 DEF AdoptServes, NeverResumed
    <3> QED
      BY <1>0, <3>1, <3>4, <3>5, <3>6, <3>7, AdoptGoesOn
  <2> QED
    BY <1>5, <2>2, <2>3 DEF FinishAdopt
<1>6. CASE LeaveInstalling
  <2>1. /\ UNCHANGED <<stack, intake, excuse>>
        /\ Over(receipt) \/ Over(Settled("installing"))
    BY <1>6 DEF LeaveInstalling, SettleAndEnd, resources
  <2> QED
    BY <1>0, <2>1, AdoptEnds DEF Phase
<1> QED
  BY <1>1, <1>2, <1>3, <1>4, <1>5, <1>6

LEMMA DestroyGoesOn ==
  ASSUME command'.op = "destroy", ReceiptServes', TagsFit', IntakeOpen', TeardownServes'
  PROVE  Serving'
BY DEF Serving, ChangeServes, InstallServes, AdoptServes, Change

LEMMA RepairGoesOn ==
  ASSUME command'.op = "repair", ReceiptServes', TagsFit', IntakeOpen', TeardownServes'
  PROVE  Serving'
BY DEF Serving, ChangeServes, InstallServes, AdoptServes, Change

\* A destroy ends with its receipt removed or marked as destroyed in part.
LEMMA DestroyEnds ==
  ASSUME Serving, UNCHANGED <<stack, intake, excuse>>, NEW r \in Receipt \cup {NoReceipt}, Over(r),
         r # NoReceipt => /\ receipt # NoReceipt /\ r.phase = "destroying"
                          /\ r.versions = receipt.versions /\ r.tags = receipt.tags,
         r = NoReceipt => receipt = NoReceipt \/ stack.worker = None
  PROVE  Serving'
<1>1. r # NoReceipt /\ NeverResumed => Fits(r.versions, r.tags)
  BY DEF Serving, TagsFit
<1>2. stack.worker = None \/ r = NoReceipt => intake = "open"
  BY DEF Serving, IntakeOpen
<1> QED
  BY <1>1, <1>2, EndServes DEF NeverResumed

LEMMA DestroyStepServes ==
  ASSUME Typed, Serving, command.op = "destroy",
         \/ SuspendAll \/ DrainAll \/ DeleteOwnership \/ DeleteInstallations \/ DeleteApp
         \/ DestroyStack \/ PruneAll \/ Verify \/ Settle \/ GiveUp
  PROVE  Serving'
<1>0. /\ receipt \in Receipt \cup {NoReceipt} /\ TeardownServes /\ command.op \notin Change
      /\ command.step # "give up" => receipt # NoReceipt /\ receipt.phase = "destroying"
      /\ stack.worker = None => intake = "open"
      /\ command \in CommandType
  BY DEF Typed, RecordsOK, CommandOK, Serving, TeardownServes, IntakeOpen, Change
<1>1. CASE SuspendAll
  <2>1. command.step = "suspend" /\ UNCHANGED <<stack, receipt, excuse>>
    BY <1>1 DEF SuspendAll, At, records, rest
  <2>2. /\ command'.op = command.op /\ command'.step \in {"drain", "give up"}
        /\ command'.versions = command.versions /\ command'.tags = command.tags
    BY <1>1, MovesOn DEF SuspendAll, Step
  <2>3. stack.worker = None => intake' = "open"
    BY <1>0, <1>1 DEF SuspendAll, IntakeSetTo
  <2>4. ReceiptServes' /\ TagsFit' /\ IntakeOpen'
    BY <1>0, <2>1, <2>2, <2>3, MayServe DEF NeverResumed
  <2>5. TeardownServes'
    BY <1>0, <2>1, <2>2 DEF TeardownServes
  <2> QED
    BY <2>2, <2>4, <2>5, DestroyGoesOn
<1>2. CASE DrainAll
  <2>1. command.step = "drain" /\ UNCHANGED <<stack, intake, receipt, excuse>>
    BY <1>2 DEF DrainAll, At, records, rest, resources
  <2>2. /\ command'.op = command.op /\ command'.step \in {"delete ownership", "give up"}
        /\ command'.versions = command.versions /\ command'.tags = command.tags
    BY <1>2, MovesOn DEF DrainAll, Step
  <2>3. ReceiptServes' /\ TagsFit' /\ IntakeOpen'
    BY <1>0, <2>1, <2>2, StillServes
  <2>4. TeardownServes'
    BY <1>0, <2>1, <2>2 DEF TeardownServes
  <2> QED
    BY <2>2, <2>3, <2>4, DestroyGoesOn
<1>3. CASE DeleteOwnership
  <2>1. command.step = "delete ownership" /\ UNCHANGED <<stack, intake, receipt, excuse>>
    BY <1>3 DEF DeleteOwnership, At, records, rest, resources
  <2>2. /\ command'.op = command.op /\ command'.step \in {"delete installations", "give up"}
        /\ command'.versions = command.versions /\ command'.tags = command.tags
    <3>1. CASE Goto("delete installations") \/ Goto("give up")
      BY <3>1, MovesOn DEF Step
    <3>2. CASE command' = [command EXCEPT !.step = "delete installations", !.residue = {"marker"}]
      BY <1>0, <3>2 DEF CommandType
    <3> QED
      BY <1>3, <3>1, <3>2 DEF DeleteOwnership
  <2>3. ReceiptServes' /\ TagsFit' /\ IntakeOpen'
    BY <1>0, <2>1, <2>2, StillServes
  <2>4. TeardownServes'
    BY <1>0, <2>1, <2>2 DEF TeardownServes
  <2> QED
    BY <2>2, <2>3, <2>4, DestroyGoesOn
<1>4. CASE DeleteInstallations
  <2>1. command.step = "delete installations" /\ UNCHANGED <<stack, intake, receipt, excuse>>
    BY <1>4 DEF DeleteInstallations, At, records, rest, resources
  <2>2. /\ command'.op = command.op /\ command'.step \in {"delete app", "give up"}
        /\ command'.versions = command.versions /\ command'.tags = command.tags
    BY <1>4, MovesOn DEF DeleteInstallations, Step
  <2>3. ReceiptServes' /\ TagsFit' /\ IntakeOpen'
    BY <1>0, <2>1, <2>2, StillServes
  <2>4. TeardownServes'
    BY <1>0, <2>1, <2>2 DEF TeardownServes
  <2> QED
    BY <2>2, <2>3, <2>4, DestroyGoesOn
<1>5. CASE DeleteApp
  <2>1. command.step = "delete app" /\ UNCHANGED <<stack, intake, receipt, excuse>>
    BY <1>5 DEF DeleteApp, At, records, rest, resources
  <2>2. /\ command'.op = command.op /\ command'.step \in {"destroy stack", "give up"}
        /\ command'.versions = command.versions /\ command'.tags = command.tags
    BY <1>5, MovesOn DEF DeleteApp, Step
  <2>3. ReceiptServes' /\ TagsFit' /\ IntakeOpen'
    BY <1>0, <2>1, <2>2, StillServes
  <2>4. TeardownServes'
    BY <1>0, <2>1, <2>2 DEF TeardownServes
  <2> QED
    BY <2>2, <2>3, <2>4, DestroyGoesOn
<1>6. CASE DestroyStack
  <2>1. command.step = "destroy stack" /\ UNCHANGED <<receipt, excuse>>
    BY <1>6 DEF DestroyStack, At, records, rest
  <2>2. /\ command'.op = command.op
        /\ command'.versions = command.versions /\ command'.tags = command.tags
        /\ command'.step = "give up" \/ (command'.step = "prune" /\ Removed)
    <3>1. CASE Goto("give up")
      BY <3>1, MovesOn DEF Step
    <3>2. CASE Removed /\ Goto("prune")
      BY <3>2, MovesOn DEF Step
    <3> QED
      BY <1>6, <3>1, <3>2 DEF DestroyStack
  <2>3. stack'.worker = None => intake' = "open"
    BY <1>6 DEF DestroyStack, Removed, PartlyRemoved
  <2>4. ReceiptServes' /\ TagsFit' /\ IntakeOpen'
    BY <1>0, <2>1, <2>2, <2>3, MayServe DEF NeverResumed
  <2>5. command'.step = "prune" => stack'.worker = None
    BY <2>2 DEF Removed, NoStack
  <2>6. command'.step \in {"give up", "prune"}
    BY <2>2
  <2>7. TeardownServes'
    BY <1>0, <2>1, <2>2, <2>5, <2>6 DEF TeardownServes
  <2> QED
    BY <2>2, <2>4, <2>7, DestroyGoesOn
<1>7. CASE PruneAll
  <2>1. command.step = "prune" /\ UNCHANGED <<stack, intake, receipt, excuse>>
    BY <1>7 DEF PruneAll, At, records, rest, resources
  <2>2. /\ command'.op = command.op /\ command'.step \in {"verify", "give up"}
        /\ command'.versions = command.versions /\ command'.tags = command.tags
    BY <1>7, MovesOn DEF PruneAll, Step
  <2>3. ReceiptServes' /\ TagsFit' /\ IntakeOpen'
    BY <1>0, <2>1, <2>2, StillServes
  <2>4. TeardownServes'
    BY <1>0, <2>1, <2>2 DEF TeardownServes
  <2> QED
    BY <2>2, <2>3, <2>4, DestroyGoesOn
<1>8. CASE Verify
  <2>1. command.step = "verify" /\ UNCHANGED <<stack, intake, receipt, excuse>>
    BY <1>8 DEF Verify, At, records, rest, resources
  <2>2. /\ command'.op = command.op /\ command'.step \in {"settle", "give up"}
        /\ command'.versions = command.versions /\ command'.tags = command.tags
    <3>1. CASE Goto("give up")
      BY <3>1, MovesOn DEF Step
    <3>2. CASE \E shown : command' = [command EXCEPT !.step = "settle", !.residue = ResidueSeen(shown)]
      BY <1>0, <3>2 DEF CommandType
    <3> QED
      BY <1>8, <3>1, <3>2 DEF Verify
  <2>3. ReceiptServes' /\ TagsFit' /\ IntakeOpen'
    BY <1>0, <2>1, <2>2, StillServes
  <2>4. TeardownServes'
    BY <1>0, <2>1, <2>2 DEF TeardownServes
  <2> QED
    BY <2>2, <2>3, <2>4, DestroyGoesOn
<1>9. CASE Settle
  <2> DEFINE done == IF command.residue = {} THEN NoReceipt
                     ELSE [Settled("destroying") EXCEPT !.residue = command.residue]
  <2>1. /\ command.step = "settle" /\ UNCHANGED <<stack, intake, excuse>>
        /\ receipt \in Receipt /\ stack.worker = None /\ NoReceipt \notin Receipt
    BY <1>0, <1>9, NamesDiffer DEF Settle, At, resources, rest, TeardownServes
  <2>2. /\ done \in Receipt \cup {NoReceipt}
        /\ done # NoReceipt => /\ done.phase = "destroying"
                               /\ done.versions = receipt.versions /\ done.tags = receipt.tags
    <3>1. /\ Settled("destroying") \in Receipt /\ Settled("destroying").phase = "destroying"
          /\ Settled("destroying").versions = receipt.versions
          /\ Settled("destroying").tags = receipt.tags
      BY <2>1, SettledTyped DEF Phase
    <3> QED
      BY <1>0, <3>1 DEF Receipt, CommandType
  <2> HIDE DEF done
  <2>3. CASE Over(done)
    BY <2>1, <2>2, <2>3, DestroyEnds
  <2>4. CASE receipt' \in {receipt, done} /\ Goto("give up")
    <3>1. command'.op = "destroy" /\ command'.step = "give up"
      BY <2>4, MovesOn DEF Step
    <3>2. receipt' # NoReceipt => /\ receipt'.phase = "destroying"
                                  /\ receipt'.versions = receipt.versions
                                  /\ receipt'.tags = receipt.tags
      BY <1>0, <2>1, <2>2, <2>4
    <3>3. ReceiptServes'
      BY <3>2 DEF ReceiptServes
    <3>4. TagsFit'
      BY <2>1, <3>1, <3>2 DEF Serving, TagsFit, NeverResumed, Fits, Change
    <3>5. IntakeOpen'
      BY <1>0, <2>1, <3>1, <3>2 DEF IntakeOpen
    <3>6. TeardownServes'
      BY <3>1, <3>2 DEF TeardownServes
    <3> QED
      BY <3>1, <3>3, <3>4, <3>5, <3>6, DestroyGoesOn
  <2> QED
    BY <1>9, <2>3, <2>4 DEF Settle, done
<1>10. CASE GiveUp
  <2>1. /\ UNCHANGED <<stack, intake, excuse>>
        /\ Over(receipt) \/ (LeaseHeld /\ Over(Settled("destroying")))
    BY <1>10 DEF GiveUp, SettleAndEnd, resources, rest
  <2>2. CASE Over(receipt)
    <3>1. receipt # NoReceipt => receipt.phase = "destroying"
      BY <1>0 DEF TeardownServes
    <3> QED
      BY <1>0, <2>1, <2>2, <3>1, DestroyEnds
  <2>3. CASE LeaseHeld /\ Over(Settled("destroying"))
    <3>1. /\ Settled("destroying") \in Receipt /\ Settled("destroying").phase = "destroying"
          /\ Settled("destroying").versions = receipt.versions
          /\ Settled("destroying").tags = receipt.tags /\ receipt # NoReceipt
      BY <1>0, <2>3, SettledTyped DEF LeaseHeld, Phase
    <3>2. Settled("destroying") # NoReceipt /\ UNCHANGED <<stack, intake, excuse>>
      BY <2>1, <3>1, NamesDiffer
    <3> QED
      BY <2>3, <3>1, <3>2, DestroyEnds
  <2> QED
    BY <2>1, <2>2, <2>3
<1> QED
  BY <1>1, <1>2, <1>3, <1>4, <1>5, <1>6, <1>7, <1>8, <1>9, <1>10

LEMMA BeginDestroyServes ==
  ASSUME Typed, Serving, BeginDestroy
  PROVE  Serving'
<1>1. receipt \in Receipt /\ UNCHANGED <<stack, intake, excuse>>
  BY DEF Typed, RecordsOK, BeginDestroy, CanBegin, resources
<1>2. command'.op = "destroy" /\ command'.step \in {"suspend", "delete app"}
  BY DEF BeginDestroy, Idle
<1>3. /\ receipt' # NoReceipt /\ receipt'.phase = "destroying"
      /\ receipt'.versions = receipt.versions /\ receipt'.tags = receipt.tags
  <2>1. receipt' \in Receipt
    BY <1>1 DEF BeginDestroy, Acquire, Receipt, Phase
  <2> QED
    BY <1>1, <2>1, NamesDiffer DEF BeginDestroy, Acquire, Receipt
<1>4. ReceiptServes'
  BY <1>3 DEF ReceiptServes
<1>5. TagsFit'
  BY <1>1, <1>2, <1>3, NamesDiffer DEF Serving, TagsFit, NeverResumed, Fits, Change
<1>6. IntakeOpen'
  BY <1>1, <1>2, <1>3 DEF Serving, IntakeOpen
<1>7. TeardownServes'
  BY <1>2, <1>3 DEF TeardownServes
<1> QED
  BY <1>2, <1>4, <1>5, <1>6, <1>7, DestroyGoesOn

\* A repair does not touch what the receipt is measured by, and begins under a phase that
\* is settled or has an excuse.
LEMMA RepairStepServes ==
  ASSUME Typed, Serving, command.op = "repair",
         RecordApplication \/ RewriteOwnership \/ FinishRepair \/ GiveUpRepair
  PROVE  Serving'
<1>0. /\ receipt \in Receipt /\ receipt # NoReceipt /\ TeardownServes /\ command.op \notin Change
      /\ receipt.phase \in {"active", "repairing"}
      /\ NeverResumed => Fits(receipt.versions, receipt.tags)
      /\ excuse \subseteq {"half done"} => Serves
      /\ stack.worker = None => intake = "open"
      /\ UNCHANGED <<stack, intake, excuse>>
  <2>1. UNCHANGED <<stack, intake, excuse>>
    BY DEF RecordApplication, RewriteOwnership, FinishRepair, GiveUpRepair, rest, resources
  <2> QED
    BY <2>1, NamesDiffer
    DEF Typed, RecordsOK, Serving, TeardownServes, TagsFit, ReceiptServes, IntakeOpen, Change
<1>1. /\ Settled("active") \in Receipt /\ Settled("active").phase = "active"
      /\ Settled("active").versions = receipt.versions /\ Settled("active").tags = receipt.tags
  BY <1>0, SettledTyped DEF Phase
<1>2. CASE Over(receipt) \/ Over(Settled("active"))
  <2>1. PICK r \in {receipt, Settled("active")} : Over(r)
    BY <1>2
  <2>2. /\ r \in Receipt /\ r.phase \in {"active", "repairing"}
        /\ r.versions = receipt.versions /\ r.tags = receipt.tags
    BY <1>0, <1>1
  <2> QED
    BY <1>0, <2>1, <2>2, EndServes, NamesDiffer DEF NeverResumed, Serves, Runs
<1>3. CASE /\ command'.op = command.op
           /\ receipt' # NoReceipt /\ receipt'.phase \in {"active", "repairing"}
           /\ receipt'.versions = receipt.versions /\ receipt'.tags = receipt.tags
  <2>1. ReceiptServes'
    BY <1>0, <1>3 DEF ReceiptServes, Serves, Runs
  <2>2. TagsFit'
    BY <1>0, <1>3 DEF TagsFit, NeverResumed, Fits
  <2>3. IntakeOpen'
    BY <1>0, <1>3 DEF IntakeOpen
  <2>4. TeardownServes'
    BY <1>3 DEF TeardownServes
  <2> QED
    BY <1>3, <2>1, <2>2, <2>3, <2>4, RepairGoesOn
<1>4. CASE RecordApplication
  <2> DEFINE new == [receipt EXCEPT !.application = TRUE]
  <2>1. /\ new \in Receipt /\ new.phase = receipt.phase
        /\ new.versions = receipt.versions /\ new.tags = receipt.tags
    BY <1>0 DEF Receipt
  <2>2. receipt' \in {receipt, new} /\ (\E s \in Step : Goto(s))
    BY <1>4 DEF RecordApplication, Record, Step
  <2>3. command'.op = command.op
    BY <2>2, MovesOn
  <2> QED
    BY <1>0, <1>3, <2>1, <2>2, <2>3, NamesDiffer
<1>5. CASE RewriteOwnership
  <2>1. receipt' = receipt /\ (\E s \in Step : Goto(s))
    BY <1>5 DEF RewriteOwnership, records, Step
  <2>2. command'.op = command.op
    BY <2>1, MovesOn
  <2> QED
    BY <1>0, <1>3, <2>1, <2>2
<1>6. CASE FinishRepair
  <2>1. CASE receipt' \in {receipt, Settled("active")} /\ Goto("give up")
    <3>1. command'.op = command.op
      BY <2>1, MovesOn DEF Step
    <3> QED
      BY <1>0, <1>1, <1>3, <2>1, <3>1, NamesDiffer
  <2> QED
    BY <1>2, <1>6, <2>1 DEF FinishRepair
<1>7. CASE GiveUpRepair
  BY <1>2, <1>7 DEF GiveUpRepair, SettleAndEnd
<1> QED
  BY <1>4, <1>5, <1>6, <1>7

LEMMA BeginRepairServes ==
  ASSUME Typed, Serving, BeginRepair
  PROVE  Serving'
<1>1. receipt \in Receipt /\ UNCHANGED <<stack, intake>>
  BY DEF Typed, RecordsOK, BeginRepair, CanBegin, resources
<1>2. command'.op = "repair"
  BY DEF BeginRepair, Idle
<1>3. /\ receipt' # NoReceipt /\ receipt'.phase = "repairing"
      /\ receipt'.versions = receipt.versions /\ receipt'.tags = receipt.tags
  <2>1. receipt' \in Receipt
    BY <1>1 DEF BeginRepair, Acquire, Receipt, Phase
  <2> QED
    BY <1>1, <2>1, NamesDiffer DEF BeginRepair, Acquire, Receipt
<1>4. /\ excuse' \subseteq {"half done"} =>
           excuse \subseteq {"half done"} /\ receipt.phase \in {"active", "repairing"}
      /\ NeverResumed' => NeverResumed
  BY DEF BeginRepair, NeverResumed, TakenOver
<1>5. ReceiptServes'
  BY <1>1, <1>3, <1>4, NamesDiffer DEF Serving, ReceiptServes, Serves, Runs
<1>6. TagsFit'
  BY <1>1, <1>2, <1>3, <1>4, NamesDiffer DEF Serving, TagsFit, Fits, Change
<1>7. IntakeOpen'
  BY <1>1, <1>2, <1>3 DEF Serving, IntakeOpen
<1>8. TeardownServes'
  BY <1>2, <1>3 DEF TeardownServes
<1> QED
  BY <1>2, <1>5, <1>6, <1>7, <1>8, RepairGoesOn

LEMMA TeardownStepServes ==
  ASSUME Typed, Serving, TeardownStep
  PROVE  Serving'
<1>1. CASE BeginDestroy
  BY <1>1, BeginDestroyServes
<1>2. CASE \/ SuspendAll \/ DrainAll \/ DeleteOwnership \/ DeleteInstallations \/ DeleteApp
           \/ DestroyStack \/ PruneAll \/ Verify \/ Settle \/ GiveUp
  <2>1. command.op = "destroy"
    BY <1>2
    DEF SuspendAll, DrainAll, DeleteOwnership, DeleteInstallations, DeleteApp, DestroyStack,
        PruneAll, Verify, Settle, GiveUp, At
  <2> QED
    BY <1>2, <2>1, DestroyStepServes
<1>3. CASE PlanRepair \/ DropPlan
  BY <1>3, ServingKept DEF PlanRepair, DropPlan, resources, records
<1>4. CASE ReleaseExpired
  <2>1. /\ receipt \in Receipt /\ command.op = "none" /\ command' = command
        /\ UNCHANGED <<stack, intake, excuse>>
    BY <1>4, IdleTyped DEF ReleaseExpired, Typed, RecordsOK, resources
  <2>2. /\ receipt' \in Receipt /\ receipt'.phase = receipt.phase
        /\ receipt'.versions = receipt.versions /\ receipt'.tags = receipt.tags
    BY <1>4, <2>1 DEF ReleaseExpired, Receipt
  <2>3. ReceiptServes' /\ TagsFit' /\ IntakeOpen'
    BY <2>1, <2>2, NamesDiffer, RecordServes DEF Change
  <2> QED
    BY <2>1, <2>3
    DEF Serving, ChangeServes, InstallServes, AdoptServes, TeardownServes, Change
<1>5. CASE BeginRepair
  BY <1>5, BeginRepairServes
<1>6. CASE RecordApplication \/ RewriteOwnership \/ FinishRepair \/ GiveUpRepair
  <2>1. command.op = "repair"
    BY <1>6 DEF RecordApplication, RewriteOwnership, FinishRepair, GiveUpRepair, At
  <2> QED
    BY <1>6, <2>1, RepairStepServes
<1> QED
  BY <1>1, <1>2, <1>3, <1>4, <1>5, <1>6 DEF TeardownStep

LEMMA CrashServes ==
  ASSUME Typed, Serving, Crash
  PROVE  Serving'
<1>1. /\ Over(receipt) /\ UNCHANGED <<stack, intake, excuse>>
      /\ receipt \in Receipt \cup {NoReceipt}
  BY DEF Crash, resources, Typed, RecordsOK
<1>2. receipt # NoReceipt =>
        /\ NeverResumed => Fits(receipt.versions, receipt.tags)
        /\ excuse \subseteq {"half done"} /\ receipt.phase \in {"active", "repairing"} => Serves
        /\ receipt.phase = "installing" => intake = "open"
  BY DEF Serving, TagsFit, ReceiptServes, IntakeOpen
<1>3. stack.worker = None \/ receipt = NoReceipt => intake = "open"
  BY DEF Serving, IntakeOpen
<1> QED
  BY <1>1, <1>2, <1>3, EndServes DEF NeverResumed, Serves, Runs

LEMMA InstallStepsServe ==
  ASSUME Typed, Serving, InstallStep
  PROVE  Serving'
<1>1. CASE command.op = "install"
  BY <1>1, InstallStepServes
<1>2. CASE BeginInstall
  <2>1. PICK v \in Version : Creates(FreshReceipt(v), "install", "bootstrap")
    BY <1>2 DEF BeginInstall
  <2>2. receipt = NoReceipt /\ excuse' = {} /\ UNCHANGED <<stack, intake>>
    BY <1>2 DEF BeginInstall, resources
  <2> QED
    BY <2>1, <2>2, FreshTyped, FreshFits, CreatesServes
<1>3. CASE BeginAdopt
  BY <1>3, BeginAdoptServes
<1>4. CASE \/ DeployOver \/ RecordAdopted \/ Inventory \/ ClaimMissing \/ FinishAdopt
           \/ LeaveInstalling
  <2>1. command.op = "adopt"
    BY <1>4
    DEF DeployOver, RecordAdopted, Inventory, ClaimMissing, FinishAdopt, LeaveInstalling, At
  <2> QED
    BY <1>4, <2>1, AdoptStepServes
<1>5. CASE \/ Bootstrap \/ RecordStack \/ CreateApp \/ RecordApp \/ Configure \/ InstallApp
           \/ RecordInstallations \/ Claim \/ CheckHealth \/ FinishInstall \/ Release
           \/ RemoveStack \/ RemoveImage \/ DeletePartialApp \/ DeletePartialReceipt
  BY <1>1, <1>5
  DEF Bootstrap, RecordStack, CreateApp, RecordApp, Configure, InstallApp, RecordInstallations,
      Claim, CheckHealth, FinishInstall, Release, RemoveStack, RemoveImage, DeletePartialApp,
      DeletePartialReceipt, At
<1> QED
  BY <1>2, <1>3, <1>4, <1>5 DEF InstallStep

LEMMA ServingStep == Typed /\ Serving /\ [Next]_vars => Serving'
<1> SUFFICES ASSUME Typed, Serving, [Next]_vars PROVE Serving'
  OBVIOUS
<1>1. CASE ChangeStep
  BY <1>1, ChangeStepServes
<1>2. CASE InstallStep
  BY <1>2, InstallStepsServe
<1>3. CASE TeardownStep
  BY <1>3, TeardownStepServes
<1>4. CASE Crash
  BY <1>4, CrashServes
<1>5. CASE UNCHANGED vars
  BY <1>5, ServingKept DEF vars
<1> QED
  BY <1>1, <1>2, <1>3, <1>4, <1>5 DEF Next

LEMMA ServingInit == Init => Serving
BY IdleTyped
DEF Init, Serving, ReceiptServes, TagsFit, IntakeOpen, ChangeServes, InstallServes, AdoptServes,
    TeardownServes, Change

-----------------------------------------------------------------------------
(* What a settled receipt says of GitHub: the App answers, and the installations *)
(* and markers the receipt records are there.                                    *)

Answering == github.app /\ ~github.suspended

\* What GitHub has for a receipt that was not left half done.
Backed ==
  receipt # NoReceipt =>
    /\ receipt.phase \in {"active", "repairing"} /\ excuse \subseteq {"half done"} => Answering
    /\ receipt.phase \in {"active", "repairing", "upgrading"} /\ "half done" \notin excuse
       /\ receipt.installed => github.installed /\ "own" \in github.markers

\* A change asks the health gate before it deploys, and touches nothing on GitHub.
ChangeAnswers ==
  command.op \in Change =>
    /\ receipt.phase \in {"upgrading", "active"}
    /\ \/ excuse \subseteq {"half done"}
       \/ command.step \in {"prune", "resume", "finish", "resume original"}
       \/ command.step = "restore" /\ command.drained
       => Answering

\* An install that goes on has made what its receipt records.
InstallAnswers ==
  command.op = "install" =>
    /\ receipt.phase = "installing" \/ {"answer lost", "half done"} \subseteq excuse
    /\ command.step \in {"record app", "configure", "install app", "record installations", "claim",
                         "health", "finish"} => Answering
    /\ command.step \in {"record installations", "claim", "health", "finish"} => github.installed
    /\ command.step \in {"health", "finish"} => "own" \in github.markers

\* An adoption has seen it.
AdoptAnswers ==
  command.op = "adopt" =>
    /\ command.step \in {"record adopted", "inventory", "ownership", "finish"} => Answering
    /\ command.step = "ownership" =>
         receipt.installed = held.installed /\ (receipt.installed => github.installed)
    /\ command.step = "finish" /\ receipt.installed =>
         github.installed /\ "own" \in github.markers

GitHubServes == Backed /\ ChangeAnswers /\ InstallAnswers /\ AdoptAnswers

LEMMA LeavesInstalled ==
  ASSUME NEW r \in Receipt \cup {NoReceipt}, Over(r)
  PROVE  /\ command'.op = "none"
         /\ r = NoReceipt => receipt' = NoReceipt
         /\ r # NoReceipt => receipt'.phase = r.phase /\ receipt'.installed = r.installed
<1>1. /\ command'.op = "none"
      /\ r = NoReceipt => receipt' = NoReceipt
      /\ r # NoReceipt => receipt' # NoReceipt /\ receipt'.phase = r.phase
  BY Leaves
<1>2. r # NoReceipt => receipt'.installed = r.installed
  <2> SUFFICES ASSUME r # NoReceipt PROVE receipt'.installed = r.installed
    OBVIOUS
  <2>1. r \in Receipt /\ receipt' \in {r, [r EXCEPT !.lease = "dead"]}
    BY DEF Over
  <2> QED
    BY <2>1 DEF Receipt
<1> QED
  BY <1>1, <1>2

\* Nothing is asked of a receipt that is not settled, under a command of its own.
LEMMA UnsettledAnswers ==
  ASSUME receipt' = NoReceipt \/ receipt'.phase \in {"installing", "destroying"},
         command'.op \notin Change \cup {"install", "adopt"}
  PROVE  GitHubServes'
BY DEF GitHubServes, Backed, ChangeAnswers, InstallAnswers, AdoptAnswers

\* GitHub has what it had, and a marker more perhaps.
LEMMA BackedKept ==
  ASSUME Backed, receipt # NoReceipt, receipt'.installed = receipt.installed,
         excuse \subseteq excuse',
         receipt'.phase = receipt.phase \/
           (receipt.phase \in {"active", "repairing"} /\ receipt'.phase \in {"active", "repairing"}),
         Answering => Answering', github.installed => github'.installed,
         "own" \in github.markers => "own" \in github'.markers
  PROVE  Backed'
BY DEF Backed

LEMMA GitHubKept ==
  ASSUME GitHubServes, UNCHANGED <<github, receipt, held, command, excuse>>
  PROVE  GitHubServes'
<1>1. Answering' = Answering
  BY DEF Answering
<1>2. Backed'
  BY <1>1 DEF GitHubServes, Backed
<1>3. ChangeAnswers'
  BY <1>1 DEF GitHubServes, ChangeAnswers
<1>4. InstallAnswers'
  BY <1>1 DEF GitHubServes, InstallAnswers
<1>5. AdoptAnswers'
  BY <1>1 DEF GitHubServes, AdoptAnswers
<1> QED
  BY <1>2, <1>3, <1>4, <1>5 DEF GitHubServes

\* A command that ends.
LEMMA EndAnswers ==
  ASSUME NEW r \in Receipt \cup {NoReceipt}, Over(r),
         r # NoReceipt =>
           /\ r.phase \in {"active", "repairing"} /\ excuse' \subseteq {"half done"} => Answering'
           /\ r.phase \in {"active", "repairing", "upgrading"} /\ "half done" \notin excuse'
              /\ r.installed => github'.installed /\ "own" \in github'.markers
  PROVE  GitHubServes'
<1>1. /\ command'.op = "none"
      /\ r = NoReceipt => receipt' = NoReceipt
      /\ r # NoReceipt => receipt'.phase = r.phase /\ receipt'.installed = r.installed
  BY LeavesInstalled
<1>2. Backed'
  BY <1>1 DEF Backed
<1> QED
  BY <1>1, <1>2 DEF GitHubServes, ChangeAnswers, InstallAnswers, AdoptAnswers, Change

\* A command that ends and leaves what it found.
LEMMA EndLeaves ==
  ASSUME Typed, Backed, UNCHANGED <<github, excuse>>, Over(receipt)
  PROVE  GitHubServes'
<1>1. receipt \in Receipt \cup {NoReceipt} /\ Answering' = Answering
  BY DEF Typed, RecordsOK, Answering
<1> QED
  BY <1>1, EndAnswers DEF Backed

\* A change that goes on.
LEMMA ChangeGoesOnAnswering ==
  ASSUME GitHubServes, command.op \in Change, receipt # NoReceipt,
         UNCHANGED github, excuse \subseteq excuse',
         receipt'.phase \in {receipt.phase, "active"}, receipt'.installed = receipt.installed,
         command'.op = command.op,
         command'.step \in {"prune", "resume", "finish", "resume original"} => Answering,
         command'.step = "restore" /\ command'.drained => Answering
  PROVE  GitHubServes'
<1>1. Answering' = Answering /\ receipt.phase \in {"upgrading", "active"}
  BY DEF Answering, GitHubServes, ChangeAnswers
<1>2. ChangeAnswers'
  BY <1>1 DEF GitHubServes, ChangeAnswers
<1>3. excuse' \subseteq {"half done"} => Answering
  BY DEF GitHubServes, ChangeAnswers
<1>4. Backed'
  BY <1>1, <1>3 DEF GitHubServes, Backed
<1> QED
  BY <1>2, <1>4 DEF GitHubServes, InstallAnswers, AdoptAnswers, Change

\* A change that ends with the receipt settled.
LEMMA ChangeEnds ==
  ASSUME GitHubServes, command.op \in Change, receipt \in Receipt, UNCHANGED github,
         NEW r \in Receipt, Over(r), r.installed = receipt.installed,
         "half done" \notin excuse' => "half done" \notin excuse,
         excuse' \subseteq {"half done"} => Answering
  PROVE  GitHubServes'
<1>1. Answering' = Answering /\ receipt.phase \in {"upgrading", "active"}
  BY DEF Answering, GitHubServes, ChangeAnswers
<1>2. "half done" \notin excuse /\ receipt.installed => github.installed /\ "own" \in github.markers
  BY <1>1, NamesDiffer DEF GitHubServes, Backed
<1> QED
  BY <1>1, <1>2, EndAnswers

LEMMA BeginChangeAnswers ==
  ASSUME Typed, GitHubServes, NEW op \in Change, NEW v \in Version \cup {None}, BeginChange(op, v)
  PROVE  GitHubServes'
<1>1. receipt \in Receipt /\ receipt # NoReceipt /\ UNCHANGED github
  BY DEF Typed, RecordsOK, BeginChange, CanBegin, resources
<1>2. command'.op = op /\ command'.step = "prepare"
  BY DEF BeginChange, Idle
<1>3. receipt'.phase = "upgrading" /\ receipt'.installed = receipt.installed
  BY <1>1 DEF BeginChange, Acquire, Receipt
<1>4. /\ excuse' \subseteq {"half done"} =>
           excuse \subseteq {"half done"} /\ receipt.phase \in {"active", "repairing"}
      /\ "half done" \notin excuse' =>
           "half done" \notin excuse /\ receipt.phase \in {"active", "repairing", "upgrading"}
  BY <1>1 DEF BeginChange, TakenOver, Receipt, Phase
<1>5. Answering' = Answering
  BY <1>1 DEF Answering
<1>6. Backed'
  BY <1>1, <1>3, <1>4 DEF GitHubServes, Backed
<1>7. ChangeAnswers'
  BY <1>1, <1>2, <1>3, <1>4, <1>5 DEF GitHubServes, Backed, ChangeAnswers
<1> QED
  BY <1>2, <1>6, <1>7 DEF GitHubServes, InstallAnswers, AdoptAnswers, Change

LEMMA ChangeStepAnswers ==
  ASSUME Typed, Serving, GitHubServes, ChangeStep
  PROVE  GitHubServes'
<1>1. CASE BeginUpgrade
  BY <1>1, BeginChangeAnswers DEF BeginUpgrade, Change
<1>2. CASE BeginRollback
  BY <1>2, BeginChangeAnswers DEF BeginRollback, Change
<1>3. CASE RemoveCopiedTag
  BY <1>3, GitHubKept DEF RemoveCopiedTag, records
<1> SUFFICES ASSUME command.op \in Change, receipt \in Receipt, receipt # NoReceipt,
                    UNCHANGED github, command \in CommandType,
                    \/ UpgradeToSame \/ PrepareUpgrade \/ PrepareRollback \/ RecordDesired
                    \/ Suspend \/ Drain \/ Reopen \/ Activate \/ Prune \/ Resume
                    \/ FinishChange \/ Reactivate \/ ResumeOriginal \/ Restore
             PROVE  GitHubServes'
  <2>1. ASSUME \/ UpgradeToSame \/ PrepareUpgrade \/ PrepareRollback \/ RecordDesired
               \/ Suspend \/ Drain \/ Reopen \/ Activate \/ Prune \/ Resume
               \/ FinishChange \/ Reactivate \/ ResumeOriginal \/ Restore
        PROVE  command.op \in Change /\ UNCHANGED github
    BY <2>1
    DEF UpgradeToSame, PrepareUpgrade, PrepareRollback, RecordDesired, Suspend, Drain, Reopen,
        Activate, Prune, Resume, FinishChange, Reactivate, ResumeOriginal, Restore, At, Change,
        resources
  <2>2. command.op \in Change => receipt \in Receipt
    BY DEF Typed, RecordsOK, Change
  <2>3. command \in CommandType
    BY DEF Typed, CommandOK
  <2> QED
    BY <1>1, <1>2, <1>3, <2>1, <2>2, <2>3, NamesDiffer DEF ChangeStep
<1>0. /\ receipt.phase \in {"upgrading", "active"} /\ ChangeAnswers /\ Backed
      /\ excuse \subseteq {"half done"} => Answering
      /\ command.step \in {"prepare", "record", "suspend", "drain", "reopen"} => ~command.drained
  BY DEF GitHubServes, ChangeAnswers, Serving, ChangeServes
<1>s. /\ Settled("active") \in Receipt /\ Settled("active").phase = "active"
      /\ Settled("active").installed = receipt.installed /\ "active" \in Phase
  BY SettledTyped DEF Phase
<1>4. CASE UpgradeToSame
  <2>1. command.step = "prepare" /\ UNCHANGED excuse
    BY <1>4 DEF UpgradeToSame, At, rest
  <2>2. CASE Over(Settled("active"))
    BY <1>0, <1>s, <2>1, <2>2, ChangeEnds
  <2>3. CASE receipt' \in {receipt, Settled("active")} /\ Goto("restore")
    <3>1. command'.op = command.op /\ command'.step = "restore" /\ command'.drained = command.drained
      BY <2>3, MovesOn DEF Step
    <3> QED
      BY <1>0, <1>s, <2>1, <2>3, <3>1, ChangeGoesOnAnswering
  <2> QED
    BY <1>4, <2>2, <2>3 DEF UpgradeToSame
<1>5. CASE PrepareUpgrade \/ PrepareRollback
  <2>1. command.step = "prepare" /\ UNCHANGED <<excuse, receipt>>
    BY <1>5 DEF PrepareUpgrade, PrepareRollback, At, rest, records
  <2>2. /\ command'.op = command.op /\ command'.step \in {"record", "restore"}
        /\ command'.drained = command.drained
    <3>1. CASE Goto("restore")
      <4>1. /\ command'.op = command.op /\ command'.step = "restore"
            /\ command'.drained = command.drained
        BY <3>1, MovesOn DEF Step
      <4> QED
        BY <4>1
    <3>2. CASE \/ command' = [command EXCEPT !.step = "record", !.tag = command.target,
                                             !.copied = command.target]
               \/ command' = [command EXCEPT !.step = "record",
                                             !.target = command.versions.previous,
                                             !.tag = command.tags.previous]
      BY <3>2 DEF CommandType
    <3> QED
      BY <1>5, <3>1, <3>2 DEF PrepareUpgrade, PrepareRollback
  <2> QED
    BY <1>0, <2>1, <2>2, ChangeGoesOnAnswering
<1>6. CASE RecordDesired
  <2> DEFINE new == [receipt EXCEPT !.versions = Desired.versions, !.tags = Desired.tags]
  <2>1. command.step = "record" /\ UNCHANGED excuse /\ receipt' \in {receipt, new}
        /\ (Goto("suspend") \/ Goto("restore"))
    BY <1>6 DEF RecordDesired, At, rest, Record
  <2>2. new.phase = receipt.phase /\ new.installed = receipt.installed
    BY DEF Receipt
  <2>3. /\ command'.op = command.op /\ command'.step \in {"suspend", "restore"}
        /\ command'.drained = command.drained
    BY <2>1, MovesOn DEF Step
  <2>4. receipt'.phase = receipt.phase /\ receipt'.installed = receipt.installed
    BY <2>1, <2>2
  <2> QED
    BY <1>0, <2>1, <2>3, <2>4, ChangeGoesOnAnswering
<1>7. CASE Suspend \/ Reopen
  <2>1. /\ command.step \in {"suspend", "reopen"} /\ excuse \subseteq excuse' /\ receipt' = receipt
        /\ Goto("drain") \/ Goto("reopen") \/ Goto("restore")
    BY <1>7 DEF Suspend, Reopen, At, rest, records
  <2>2. /\ command'.op = command.op /\ command'.step \in {"drain", "reopen", "restore"}
        /\ command'.drained = command.drained
    BY <2>1, MovesOn DEF Step
  <2> QED
    BY <1>0, <2>1, <2>2, ChangeGoesOnAnswering
<1>8. CASE Drain
  <2>1. UNCHANGED <<excuse, receipt>>
    BY <1>8 DEF Drain, rest, records
  <2>2. command'.op = command.op /\ command'.step \in {"activate", "reopen"}
    <3>1. CASE Goto("reopen")
      BY <3>1, MovesOn DEF Step
    <3>2. CASE command' = [command EXCEPT !.step = "activate", !.drained = TRUE]
      BY <3>2 DEF CommandType
    <3> QED
      BY <1>8, <3>1, <3>2 DEF Drain
  <2> QED
    BY <1>0, <2>1, <2>2, ChangeGoesOnAnswering
<1>9. CASE Activate
  <2>1. /\ UNCHANGED <<excuse, receipt>>
        /\ \/ Answering /\ (Goto("prune") \/ Goto("resume"))
           \/ Goto("reactivate")
    BY <1>9 DEF Activate, rest, records, PassesHealthGate, Answering
  <2>2. /\ command'.op = command.op
        /\ \/ Answering /\ command'.step \in {"prune", "resume"}
           \/ command'.step = "reactivate"
    BY <2>1, MovesOn DEF Step
  <2> QED
    BY <1>0, <2>1, <2>2, ChangeGoesOnAnswering
<1>10. CASE Prune \/ Resume
  <2>1. /\ command.step \in {"prune", "resume"} /\ UNCHANGED <<excuse, receipt>>
        /\ Goto("resume") \/ Goto("finish") \/ Goto("reactivate")
    BY <1>10 DEF Prune, Resume, At, rest, records
  <2>2. command'.op = command.op /\ command'.step \in {"resume", "finish", "reactivate"}
    BY <2>1, MovesOn DEF Step
  <2> QED
    BY <1>0, <2>1, <2>2, ChangeGoesOnAnswering DEF ChangeAnswers
<1>11. CASE FinishChange
  <2> DEFINE new == [Settled("active") EXCEPT !.versions = Desired.versions, !.tags = Desired.tags]
  <2>1. command.step = "finish" /\ Answering
    BY <1>11 DEF FinishChange, At, GitHubServes, ChangeAnswers
  <2>2. /\ new.phase = "active" /\ new.installed = receipt.installed
        /\ new \in Receipt
    <3>1. Desired.versions \in Versions /\ Desired.tags \in Tags
      <4>1. /\ command.target \in Version /\ command.tag \in Tag
            /\ command.versions \in Versions /\ command.tags \in Tags
        BY <2>1 DEF Typed, CommandOK, Moving
      <4> QED
        BY <4>1 DEF Desired, Versions, Tags
    <3> QED
      BY <1>s, <3>1 DEF Receipt
  <2> HIDE DEF new
  <2>3. CASE Over(new) /\ excuse' = Stays
    <3>1. "half done" \notin excuse' => "half done" \notin excuse
      BY <2>3 DEF Stays
    <3> QED
      BY <2>1, <2>2, <2>3, <3>1, ChangeEnds
  <2>4. CASE /\ receipt' \in {receipt, new} /\ excuse \subseteq excuse' /\ Goto("reactivate")
    <3>1. command'.op = command.op /\ command'.step = "reactivate"
      BY <2>4, MovesOn DEF Step
    <3>2. receipt'.phase \in {receipt.phase, "active"} /\ receipt'.installed = receipt.installed
      BY <2>2, <2>4
    <3> QED
      BY <2>4, <3>1, <3>2, ChangeGoesOnAnswering
  <2> QED
    BY <1>11, <2>3, <2>4 DEF FinishChange, new
<1>12. CASE Reactivate \/ ResumeOriginal
  <2>1. UNCHANGED excuse
    BY <1>12 DEF Reactivate, ResumeOriginal, rest
  <2>2. CASE Over(receipt)
    BY <1>0, <2>1, <2>2, EndLeaves
  <2>3. CASE /\ Reactivate /\ Answering /\ receipt' = receipt /\ Goto("resume original")
    <3>1. command'.op = command.op /\ command'.step = "resume original"
      BY <2>3, MovesOn DEF Step
    <3> QED
      BY <2>1, <2>3, <3>1, ChangeGoesOnAnswering
  <2>4. CASE /\ ResumeOriginal /\ receipt' = receipt /\ Goto("restore")
    <3>1. command'.op = command.op /\ command'.step = "restore" /\ Answering
      BY <1>0, <2>4, MovesOn DEF Step, ResumeOriginal, At, ChangeAnswers
    <3> QED
      BY <2>1, <2>4, <3>1, ChangeGoesOnAnswering
  <2>5. CASE Reactivate
    BY <2>2, <2>3, <2>5 DEF Reactivate, PassesHealthGate, Answering, records
  <2>6. CASE ResumeOriginal
    BY <2>2, <2>4, <2>6 DEF ResumeOriginal, records
  <2> QED
    BY <1>12, <2>5, <2>6
<1>13. CASE Restore
  <2>1. command.step = "restore" /\ (command.drained => Answering)
    BY <1>0, <1>13 DEF Restore, At, ChangeAnswers
  <2>2. /\ OriginalReceipt \in Receipt /\ OriginalReceipt.phase = "active"
        /\ OriginalReceipt.installed = receipt.installed
    <3>1. command.versions \in Versions /\ command.tags \in Tags
      BY DEF Typed, CommandOK
    <3> QED
      BY <1>s, <3>1 DEF OriginalReceipt, Receipt
  <2>3. CASE Over(receipt) /\ excuse' = excuse
    BY <1>0, <2>3, EndLeaves
  <2>4. CASE Over(OriginalReceipt) /\ excuse' \in {excuse, Stays}
             /\ (excuse' = excuse \/ command.drained)
    <3>1. "half done" \notin excuse' => "half done" \notin excuse
      BY <2>4 DEF Stays
    <3>2. excuse' \subseteq {"half done"} => Answering
      BY <1>0, <2>1, <2>4
    <3> QED
      BY <2>2, <2>4, <3>1, <3>2, ChangeEnds
  <2> QED
    BY <1>13, <2>3, <2>4 DEF Restore
<1> QED
  BY <1>4, <1>5, <1>6, <1>7, <1>8, <1>9, <1>10, <1>11, <1>12, <1>13

\* An install that goes on under the receipt it has.
LEMMA InstallGoesOnAnswering ==
  ASSUME command'.op = "install", InstallAnswers'
  PROVE  GitHubServes'
BY DEF GitHubServes, Backed, ChangeAnswers, InstallAnswers, AdoptAnswers, Change

LEMMA InstallStepAnswers ==
  ASSUME Typed, GitHubServes, command.op = "install",
         \/ Bootstrap \/ RecordStack \/ CreateApp \/ RecordApp \/ Configure \/ InstallApp
         \/ RecordInstallations \/ Claim \/ CheckHealth \/ FinishInstall \/ Release
         \/ RemoveStack \/ RemoveImage \/ DeletePartialApp \/ DeletePartialReceipt
  PROVE  GitHubServes'
<1>0. /\ receipt \in Receipt /\ receipt # NoReceipt /\ InstallAnswers /\ github \in GitHubType
      /\ receipt.phase = "installing" \/ {"answer lost", "half done"} \subseteq excuse
      /\ command.op # "none"
  BY NamesDiffer DEF Typed, RecordsOK, ResourcesOK, GitHubServes, InstallAnswers
<1>1. ASSUME UNCHANGED excuse, NEW r \in Receipt \cup {NoReceipt}, Over(r),
             r = NoReceipt \/ r = receipt
      PROVE  GitHubServes'
  BY <1>0, <1>1, EndAnswers
<1>2. ASSUME UNCHANGED excuse, receipt'.phase = receipt.phase, receipt' # NoReceipt,
             command'.op = "install",
             command'.step \notin {"record app", "configure", "install app",
                                   "record installations", "claim", "health", "finish"}
      PROVE  GitHubServes'
  <2>1. InstallAnswers'
    BY <1>0, <1>2 DEF InstallAnswers
  <2> QED
    BY <1>2, <2>1, InstallGoesOnAnswering
<1>3. CASE Bootstrap
  <2>1. receipt' = receipt /\ UNCHANGED excuse /\ (Goto("record stack") \/ Goto("release"))
    BY <1>3 DEF Bootstrap, records, rest
  <2>2. command'.op = "install" /\ command'.step \in {"record stack", "release"}
    BY <1>0, <2>1, MovesOn DEF Step
  <2> QED
    BY <1>0, <1>2, <2>1, <2>2
<1>4. CASE RecordStack
  <2> DEFINE new == [receipt EXCEPT !.application = TRUE, !.tags.current = command.target]
  <2>1. receipt' \in {receipt, new} /\ UNCHANGED excuse /\ (Goto("create app") \/ Goto("release"))
    BY <1>4 DEF RecordStack, Record, rest
  <2>2. new \in Receipt /\ new.phase = receipt.phase
    <3>1. command.target \in Version
      BY DEF Typed, CommandOK
    <3> QED
      BY <1>0, <3>1 DEF Receipt, Tags, Tag
  <2> HIDE DEF new
  <2>3. command'.op = "install" /\ command'.step \in {"create app", "release"}
    BY <1>0, <2>1, MovesOn DEF Step
  <2> QED
    BY <1>0, <1>2, <2>1, <2>2, <2>3, NamesDiffer
<1>5. CASE CreateApp
  <2>1. receipt' = receipt /\ UNCHANGED excuse
    BY <1>5 DEF CreateApp, records, rest
  <2>2. CASE Goto("release")
    <3>1. command'.op = "install" /\ command'.step = "release"
      BY <1>0, <2>2, MovesOn DEF Step
    <3> QED
      BY <1>0, <1>2, <2>1, <3>1
  <2>3. CASE /\ github' = NewApp
             /\ command' = [command EXCEPT !.step = "record app", !.credentials = TRUE]
    <3>1. command'.op = "install" /\ command'.step = "record app"
      BY <1>0, <2>3 DEF Typed, CommandOK, CommandType
    <3>2. Answering'
      BY <2>3 DEF NewApp, Answering
    <3>3. InstallAnswers'
      BY <1>0, <2>1, <3>1, <3>2 DEF InstallAnswers
    <3> QED
      BY <1>0, <2>1, <3>1, <3>3, InstallGoesOnAnswering
  <2> QED
    BY <1>5, <2>2, <2>3 DEF CreateApp
<1>6. CASE RecordApp \/ Configure \/ RecordInstallations \/ CheckHealth
  <2> DEFINE new == [receipt EXCEPT !.app = TRUE]
             newer == [receipt EXCEPT !.installed = TRUE]
  <2>1. /\ UNCHANGED <<github, excuse>>
        /\ receipt' \in {receipt, new, newer}
        /\ \/ Goto("release")
           \/ command.step = "record app" /\ Goto("configure")
           \/ command.step = "configure" /\ Goto("install app")
           \/ command.step = "record installations" /\ Goto("claim")
           \/ command.step = "health" /\ Goto("finish")
    BY <1>6
    DEF RecordApp, Configure, RecordInstallations, CheckHealth, Record, At, resources, records, rest
  <2>2. /\ new \in Receipt /\ new.phase = receipt.phase
        /\ newer \in Receipt /\ newer.phase = receipt.phase
    BY <1>0 DEF Receipt
  <2> HIDE DEF new, newer
  <2>3. /\ command'.op = "install"
        /\ \/ command'.step = "release"
           \/ command.step = "record app" /\ command'.step = "configure"
           \/ command.step = "configure" /\ command'.step = "install app"
           \/ command.step = "record installations" /\ command'.step = "claim"
           \/ command.step = "health" /\ command'.step = "finish"
    BY <1>0, <2>1, MovesOn DEF Step
  <2>4. receipt' # NoReceipt /\ receipt'.phase = receipt.phase /\ Answering' = Answering
    BY <1>0, <2>1, <2>2, NamesDiffer DEF Answering
  <2>5. InstallAnswers'
    BY <1>0, <2>1, <2>3, <2>4 DEF InstallAnswers
  <2> QED
    BY <2>3, <2>4, <2>5, InstallGoesOnAnswering
<1>7. CASE InstallApp
  <2> DEFINE new == [github EXCEPT !.installed = TRUE]
  <2>1. receipt' = receipt /\ UNCHANGED excuse /\ command.step = "install app"
    BY <1>7 DEF InstallApp, At, records, rest
  <2>2. CASE Goto("release")
    <3>1. command'.op = "install" /\ command'.step = "release"
      BY <1>0, <2>2, MovesOn DEF Step
    <3> QED
      BY <1>0, <1>2, <2>1, <3>1
  <2>3. CASE github' = new /\ Goto("record installations")
    <3>1. command'.op = "install" /\ command'.step = "record installations"
      BY <1>0, <2>3, MovesOn DEF Step
    <3>2. new.app = github.app /\ new.suspended = github.suspended /\ new.installed
      BY <1>0 DEF GitHubType
    <3>3. Answering' /\ github'.installed
      BY <1>0, <2>1, <2>3, <3>2 DEF Answering, InstallAnswers
    <3>4. InstallAnswers'
      BY <1>0, <2>1, <3>1, <3>3 DEF InstallAnswers
    <3> QED
      BY <1>0, <2>1, <3>1, <3>4, InstallGoesOnAnswering
  <2> QED
    BY <1>7, <2>2, <2>3 DEF InstallApp
<1>8. CASE Claim
  <2>1. receipt' = receipt /\ UNCHANGED excuse /\ command.step = "claim"
    BY <1>8 DEF Claim, At, records, rest
  <2>2. CASE Goto("release")
    <3>1. command'.op = "install" /\ command'.step = "release"
      BY <1>0, <2>2, MovesOn DEF Step
    <3> QED
      BY <1>0, <1>2, <2>1, <3>1
  <2>3. CASE github' = Marked /\ Goto("health")
    <3>1. command'.op = "install" /\ command'.step = "health"
      BY <1>0, <2>3, MovesOn DEF Step
    <3>2. /\ Marked.app = github.app /\ Marked.suspended = github.suspended
          /\ Marked.installed = github.installed /\ "own" \in Marked.markers
      BY <1>0 DEF Marked, GitHubType
    <3>3. Answering' /\ github'.installed /\ "own" \in github'.markers
      BY <1>0, <2>1, <2>3, <3>2 DEF Answering, InstallAnswers
    <3>4. InstallAnswers'
      BY <1>0, <2>1, <3>1, <3>3 DEF InstallAnswers
    <3> QED
      BY <1>0, <2>1, <3>1, <3>4, InstallGoesOnAnswering
  <2> QED
    BY <1>8, <2>2, <2>3 DEF Claim
<1>9. CASE FinishInstall
  <2>1. /\ Settled("active") \in Receipt /\ Settled("active").phase = "active"
        /\ command.step = "finish" /\ UNCHANGED github
    BY <1>0, <1>9, SettledTyped DEF FinishInstall, At, Phase, resources
  <2>2. Answering /\ github.installed /\ "own" \in github.markers /\ Answering' = Answering
    BY <1>0, <2>1 DEF InstallAnswers, Answering
  <2>3. CASE Over(Settled("active"))
    BY <2>1, <2>2, <2>3, EndAnswers
  <2>4. CASE Goto("release") /\ \/ UNCHANGED <<receipt, excuse>>
                                \/ /\ receipt' = Settled("active")
                                   /\ excuse' = excuse \cup {"answer lost", "half done"}
    <3>1. command'.op = "install" /\ command'.step = "release"
      BY <1>0, <2>4, MovesOn DEF Step
    <3>2. InstallAnswers'
      BY <1>0, <2>4, <3>1 DEF InstallAnswers
    <3>3. receipt' # NoReceipt
      BY <1>0, <2>1, <2>4, NamesDiffer
    <3> QED
      BY <3>1, <3>2, <3>3, InstallGoesOnAnswering
  <2> QED
    BY <1>9, <2>3, <2>4 DEF FinishInstall
<1>10. CASE Release \/ RemoveStack \/ RemoveImage \/ DeletePartialApp
  <2>1. UNCHANGED excuse
    BY <1>10 DEF Release, RemoveStack, RemoveImage, DeletePartialApp, rest
  <2>2. CASE Over(receipt)
    BY <1>0, <1>1, <2>1, <2>2
  <2>3. CASE /\ receipt' = receipt
             /\ \/ Goto("remove stack") \/ Goto("remove image") \/ Goto("delete app")
                \/ Goto("delete receipt")
    <3>1. /\ command'.op = "install"
          /\ command'.step \in {"remove stack", "remove image", "delete app", "delete receipt"}
      BY <1>0, <2>3, MovesOn DEF Step
    <3> QED
      BY <1>0, <1>2, <2>1, <2>3, <3>1
  <2> QED
    BY <1>10, <2>2, <2>3 DEF Release, RemoveStack, RemoveImage, DeletePartialApp, records
<1>11. CASE DeletePartialReceipt
  <2>1. UNCHANGED excuse /\ (Over(receipt) \/ Over(NoReceipt))
    BY <1>11 DEF DeletePartialReceipt, rest
  <2> QED
    BY <1>0, <1>1, <2>1
<1> QED
  BY <1>3, <1>4, <1>5, <1>6, <1>7, <1>8, <1>9, <1>10, <1>11

\* A receipt that is new, or that a failed request has left.
LEMMA CreatesAnswers ==
  ASSUME Typed, Serving, receipt = NoReceipt, NEW new \in Receipt, new.phase = "installing",
         \/ Creates(new, "install", "bootstrap") \/ Creates(new, "adopt", "deploy over")
  PROVE  GitHubServes'
<1>1. CASE Over(receipt) \/ Over(new)
  BY <1>1, EndAnswers
<1>2. CASE /\ receipt' = new
           /\ \/ command' = [Idle EXCEPT !.op = "install", !.step = "bootstrap",
                                         !.target = new.versions.current]
              \/ command' = [Idle EXCEPT !.op = "adopt", !.step = "deploy over",
                                         !.target = new.versions.current]
  <2>1. \/ command'.op = "install" /\ command'.step = "bootstrap"
        \/ command'.op = "adopt" /\ command'.step = "deploy over"
    BY <1>2 DEF Idle
  <2> QED
    BY <1>2, <2>1 DEF GitHubServes, Backed, ChangeAnswers, InstallAnswers, AdoptAnswers, Change
<1> QED
  BY <1>1, <1>2 DEF Creates

LEMMA BeginInstallsAnswer ==
  ASSUME Typed, Serving, BeginInstall \/ BeginAdopt
  PROVE  GitHubServes'
<1>1. CASE BeginInstall
  <2>1. PICK v \in Version : Creates(FreshReceipt(v), "install", "bootstrap")
    BY <1>1 DEF BeginInstall
  <2> QED
    BY <1>1, <2>1, FreshTyped, FreshFits, CreatesAnswers DEF BeginInstall
<1>2. CASE BeginAdopt
  <2>1. PICK v \in Version :
          \/ /\ receipt = NoReceipt
             /\ Creates([FreshReceipt(v) EXCEPT !.application = TRUE], "adopt", "deploy over")
          \/ /\ CanBegin /\ Acquire("installing")
             /\ command' = [Idle EXCEPT !.op = "adopt", !.step = "deploy over", !.target = v]
    BY <1>2 DEF BeginAdopt
  <2>2. CASE /\ receipt = NoReceipt
             /\ Creates([FreshReceipt(v) EXCEPT !.application = TRUE], "adopt", "deploy over")
    BY <2>2, FreshTyped, FreshFits, CreatesAnswers
  <2>3. CASE /\ CanBegin /\ Acquire("installing")
             /\ command' = [Idle EXCEPT !.op = "adopt", !.step = "deploy over", !.target = v]
    <3>1. command'.op = "adopt" /\ command'.step = "deploy over"
      BY <2>3 DEF Idle
    <3>2. receipt'.phase = "installing"
      BY <2>3 DEF CanBegin, Acquire, Typed, RecordsOK, Receipt
    <3> QED
      BY <3>1, <3>2
      DEF GitHubServes, Backed, ChangeAnswers, InstallAnswers, AdoptAnswers, Change
  <2> QED
    BY <2>1, <2>2, <2>3
<1> QED
  BY <1>1, <1>2

\* An adoption that goes on under a receipt that is not settled.
LEMMA AdoptGoesOnAnswering ==
  ASSUME command'.op = "adopt", receipt'.phase = "installing", AdoptAnswers'
  PROVE  GitHubServes'
BY DEF GitHubServes, Backed, ChangeAnswers, InstallAnswers, AdoptAnswers, Change

LEMMA AdoptStepAnswers ==
  ASSUME Typed, Serving, GitHubServes, command.op = "adopt",
         \/ DeployOver \/ RecordAdopted \/ Inventory \/ ClaimMissing \/ FinishAdopt
         \/ LeaveInstalling
  PROVE  GitHubServes'
<1>0. /\ receipt \in Receipt /\ receipt # NoReceipt /\ AdoptAnswers /\ github \in GitHubType
      /\ command.step # "leave installing" => receipt.phase = "installing"
      /\ UNCHANGED excuse
  <2>1. UNCHANGED excuse
    BY DEF DeployOver, RecordAdopted, Inventory, ClaimMissing, FinishAdopt, LeaveInstalling, rest
  <2> QED
    BY <2>1, NamesDiffer
    DEF Typed, RecordsOK, ResourcesOK, GitHubServes, AdoptAnswers, Serving, AdoptServes
<1>1. ASSUME receipt'.phase = "installing", command'.op = "adopt",
             command'.step = "leave installing"
      PROVE  GitHubServes'
  BY <1>1, AdoptGoesOnAnswering DEF AdoptAnswers
<1>2. CASE DeployOver
  <2>1. /\ receipt' = receipt /\ UNCHANGED github /\ command.step = "deploy over"
        /\ (Answering /\ Goto("record adopted")) \/ Goto("leave installing")
    BY <1>2 DEF DeployOver, At, records, PassesHealthGate, Answering
  <2>2. /\ command'.op = "adopt"
        /\ (Answering /\ command'.step = "record adopted") \/ command'.step = "leave installing"
    BY <2>1, MovesOn DEF Step
  <2>3. AdoptAnswers'
    BY <2>1, <2>2 DEF AdoptAnswers, Answering
  <2> QED
    BY <1>0, <2>1, <2>2, <2>3, AdoptGoesOnAnswering
<1>3. CASE RecordAdopted
  <2> DEFINE new == [receipt EXCEPT !.application = TRUE,
                               !.tags = [current |-> command.target, previous |-> None]]
  <2>1. /\ receipt' \in {receipt, new} /\ UNCHANGED github /\ command.step = "record adopted"
        /\ Goto("inventory") \/ Goto("leave installing")
    BY <1>3 DEF RecordAdopted, Record, At, resources
  <2>2. new.phase = receipt.phase
    BY <1>0 DEF Receipt
  <2> HIDE DEF new
  <2>3. command'.op = "adopt" /\ command'.step \in {"inventory", "leave installing"}
    BY <2>1, MovesOn DEF Step
  <2>4. AdoptAnswers'
    BY <1>0, <2>1, <2>3 DEF AdoptAnswers, Answering
  <2>5. receipt'.phase = "installing"
    BY <1>0, <2>1, <2>2
  <2> QED
    BY <2>3, <2>4, <2>5, AdoptGoesOnAnswering
<1>4. CASE Inventory
  <2> DEFINE new == [receipt EXCEPT !.app = TRUE, !.installed = github.installed]
  <2>1. /\ UNCHANGED github /\ command.step = "inventory"
        /\ \/ receipt' = new /\ held' = new /\ Goto("ownership")
           \/ receipt' \in {receipt, new} /\ Goto("leave installing")
    BY <1>4 DEF Inventory, Record, At, resources
  <2>2. new.phase = receipt.phase /\ new.installed = github.installed
    BY <1>0 DEF Receipt
  <2> HIDE DEF new
  <2>3. receipt'.phase = "installing"
    BY <1>0, <2>1, <2>2
  <2>4. CASE Goto("leave installing")
    <3>1. command'.op = "adopt" /\ command'.step = "leave installing"
      BY <2>4, MovesOn DEF Step
    <3> QED
      BY <1>1, <2>3, <3>1
  <2>5. CASE receipt' = new /\ held' = new /\ Goto("ownership")
    <3>1. command'.op = "adopt" /\ command'.step = "ownership"
      BY <2>5, MovesOn DEF Step
    <3>2. AdoptAnswers'
      BY <1>0, <2>1, <2>2, <2>5, <3>1 DEF AdoptAnswers, Answering
    <3> QED
      BY <2>3, <3>1, <3>2, AdoptGoesOnAnswering
  <2> QED
    BY <2>1, <2>4, <2>5
<1>5. CASE ClaimMissing
  <2>1. receipt' = receipt /\ command.step = "ownership"
    BY <1>5 DEF ClaimMissing, At, records
  <2>2. CASE Goto("leave installing")
    <3>1. command'.op = "adopt" /\ command'.step = "leave installing"
      BY <2>2, MovesOn DEF Step
    <3> QED
      BY <1>0, <1>1, <2>1, <3>1
  <2>3. CASE /\ Goto("finish")
             /\ (~held.installed /\ github' = github) \/ github' = Marked
    <3>1. command'.op = "adopt" /\ command'.step = "finish"
      BY <2>3, MovesOn DEF Step
    <3>2. /\ Marked.app = github.app /\ Marked.suspended = github.suspended
          /\ Marked.installed = github.installed /\ "own" \in Marked.markers
      BY <1>0 DEF Marked, GitHubType
    <3>3. Answering /\ receipt.installed = held.installed /\ (receipt.installed => github.installed)
      BY <1>0, <2>1 DEF AdoptAnswers
    <3>4. /\ Answering'
          /\ receipt.installed => github'.installed /\ "own" \in github'.markers
      BY <2>3, <3>2, <3>3 DEF Answering
    <3>5. AdoptAnswers'
      BY <2>1, <3>1, <3>4 DEF AdoptAnswers
    <3> QED
      BY <1>0, <2>1, <3>1, <3>5, AdoptGoesOnAnswering
  <2> QED
    BY <1>5, <2>2, <2>3 DEF ClaimMissing
<1>6. CASE FinishAdopt
  <2>1. command.step = "finish" /\ UNCHANGED github
    BY <1>6 DEF FinishAdopt, At, resources
  <2>2. /\ Settled("active") \in Receipt /\ Settled("active").phase = "active"
        /\ Settled("active").installed = receipt.installed
    BY <1>0, SettledTyped DEF Phase
  <2>3. /\ Answering /\ Answering' = Answering
        /\ receipt.installed => github.installed /\ "own" \in github.markers
    BY <1>0, <2>1 DEF AdoptAnswers, Answering
  <2>4. CASE Over(Settled("active"))
    BY <2>1, <2>2, <2>3, <2>4, EndAnswers
  <2>5. CASE receipt' \in {receipt, Settled("active")} /\ Goto("leave installing")
    <3>1. command'.op = "adopt" /\ command'.step = "leave installing"
      BY <2>5, MovesOn DEF Step
    <3>2. receipt'.installed = receipt.installed
      BY <2>2, <2>5
    <3>3. Backed'
      BY <2>1, <2>3, <3>2 DEF Backed
    <3> QED
      BY <3>1, <3>3 DEF GitHubServes, ChangeAnswers, InstallAnswers, AdoptAnswers, Change
  <2> QED
    BY <1>6, <2>4, <2>5 DEF FinishAdopt
<1>7. CASE LeaveInstalling
  <2>1. UNCHANGED github /\ (Over(receipt) \/ Over(Settled("installing")))
    BY <1>7 DEF LeaveInstalling, SettleAndEnd, resources
  <2>2. CASE Over(receipt)
    BY <1>0, <2>1, <2>2, EndLeaves DEF GitHubServes
  <2>3. CASE Over(Settled("installing"))
    <3>1. Settled("installing") \in Receipt /\ Settled("installing").phase = "installing"
      BY <1>0, SettledTyped DEF Phase
    <3> QED
      BY <2>3, <3>1, EndAnswers
  <2> QED
    BY <2>1, <2>2, <2>3
<1> QED
  BY <1>2, <1>3, <1>4, <1>5, <1>6, <1>7

\* A destroy keeps its receipt under a phase of its own.
LEMMA DestroyAnswers ==
  ASSUME Serving', command'.op = "destroy"
  PROVE  GitHubServes'
BY UnsettledAnswers DEF Serving, TeardownServes, Change

LEMMA DestroyStepAnswers ==
  ASSUME Typed, Serving, Serving', command.op = "destroy",
         \/ SuspendAll \/ DrainAll \/ DeleteOwnership \/ DeleteInstallations \/ DeleteApp
         \/ DestroyStack \/ PruneAll \/ Verify \/ Settle \/ GiveUp
  PROVE  GitHubServes'
<1>0. /\ receipt \in Receipt \cup {NoReceipt} /\ command \in CommandType
      /\ receipt = NoReceipt \/ receipt.phase = "destroying"
  BY DEF Typed, RecordsOK, CommandOK, Serving, TeardownServes
<1>1. ASSUME NEW r \in Receipt \cup {NoReceipt}, Over(r), r = NoReceipt \/ r.phase = "destroying"
      PROVE  GitHubServes'
  BY <1>1, EndAnswers
<1>2. ASSUME \E s \in Step : Goto(s) PROVE GitHubServes'
  BY <1>2, MovesOn, DestroyAnswers
<1>3. CASE SuspendAll \/ DrainAll \/ DeleteInstallations \/ DeleteApp \/ DestroyStack \/ PruneAll
  BY <1>2, <1>3
  DEF SuspendAll, DrainAll, DeleteInstallations, DeleteApp, DestroyStack, PruneAll, Step
<1>4. CASE DeleteOwnership \/ Verify
  <2>1. \/ \E s \in Step : Goto(s)
        \/ command' = [command EXCEPT !.step = "delete installations", !.residue = {"marker"}]
        \/ \E shown \in SUBSET Residue :
             command' = [command EXCEPT !.step = "settle", !.residue = ResidueSeen(shown)]
    BY <1>4 DEF DeleteOwnership, Verify, Step, Residue
  <2>2. CASE \/ command' = [command EXCEPT !.step = "delete installations", !.residue = {"marker"}]
             \/ \E shown \in SUBSET Residue :
                  command' = [command EXCEPT !.step = "settle", !.residue = ResidueSeen(shown)]
    <3>1. command'.op = "destroy"
      BY <1>0, <2>2 DEF CommandType
    <3> QED
      BY <3>1, DestroyAnswers
  <2> QED
    BY <1>2, <2>1, <2>2
<1>5. CASE Settle
  <2> DEFINE done == IF command.residue = {} THEN NoReceipt
                     ELSE [Settled("destroying") EXCEPT !.residue = command.residue]
  <2>1. (Over(done) /\ LeaseHeld) \/ Goto("give up")
    BY <1>5 DEF Settle
  <2>2. CASE Over(done) /\ LeaseHeld
    <3>1. receipt \in Receipt
      BY <1>0, <2>2 DEF LeaseHeld
    <3>2. Settled("destroying") \in Receipt /\ Settled("destroying").phase = "destroying"
      BY <3>1, SettledTyped DEF Phase
    <3>3. command.residue \in SUBSET Residue
      BY <1>0 DEF CommandType
    <3>4. [Settled("destroying") EXCEPT !.residue = command.residue] \in Receipt
          /\ [Settled("destroying") EXCEPT !.residue = command.residue].phase = "destroying"
      BY <3>2, <3>3 DEF Receipt
    <3>5. done \in Receipt \cup {NoReceipt} /\ (done = NoReceipt \/ done.phase = "destroying")
      BY <3>4
    <3> QED
      BY <1>1, <2>2, <3>5
  <2> QED
    BY <1>2, <2>1, <2>2 DEF Step
<1>6. CASE GiveUp
  <2>1. Over(receipt) \/ (LeaseHeld /\ Over(Settled("destroying")))
    BY <1>6 DEF GiveUp, SettleAndEnd
  <2>2. LeaseHeld => Settled("destroying") \in Receipt /\ Settled("destroying").phase = "destroying"
    BY <1>0, SettledTyped DEF LeaseHeld, Phase
  <2> QED
    BY <1>0, <1>1, <2>1, <2>2
<1> QED
  BY <1>3, <1>4, <1>5, <1>6

\* A repair adds a marker, and nothing to what the receipt says.
LEMMA RepairStepAnswers ==
  ASSUME Typed, Serving, GitHubServes, command.op = "repair",
         RecordApplication \/ RewriteOwnership \/ FinishRepair \/ GiveUpRepair
  PROVE  GitHubServes'
<1>0. /\ receipt \in Receipt /\ receipt # NoReceipt /\ github \in GitHubType
      /\ receipt.phase \in {"active", "repairing"} /\ UNCHANGED excuse /\ Backed
  <2>1. UNCHANGED excuse
    BY DEF RecordApplication, RewriteOwnership, FinishRepair, GiveUpRepair, rest
  <2> QED
    BY <2>1, NamesDiffer
    DEF Typed, RecordsOK, ResourcesOK, Serving, TeardownServes, GitHubServes
<1>1. /\ Settled("active") \in Receipt /\ Settled("active").phase = "active"
      /\ Settled("active").installed = receipt.installed
  BY <1>0, SettledTyped DEF Phase
<1>2. /\ github'.app = github.app /\ github'.suspended = github.suspended
      /\ github'.installed = github.installed
      /\ "own" \in github.markers => "own" \in github'.markers
  <2>1. github' \in {github, [github EXCEPT !.markers = @ \cup {"own"}]}
    BY DEF RecordApplication, RewriteOwnership, FinishRepair, GiveUpRepair, Rewritten, resources
  <2> QED
    BY <1>0, <2>1 DEF GitHubType
<1>3. Answering' = Answering
  BY <1>2 DEF Answering
<1>4. ASSUME NEW r \in {receipt, Settled("active")}, Over(r)
      PROVE  GitHubServes'
  <2>1. /\ r \in Receipt /\ r.phase \in {"active", "repairing"} /\ r.installed = receipt.installed
        /\ r # NoReceipt
    BY <1>0, <1>1, NamesDiffer
  <2> QED
    BY <1>0, <1>2, <1>3, <1>4, <2>1, EndAnswers DEF Backed
<1>5. ASSUME receipt'.phase \in {"active", "repairing"}, receipt'.installed = receipt.installed,
             \E s \in Step : Goto(s)
      PROVE  GitHubServes'
  <2>1. Backed'
    BY <1>0, <1>2, <1>3, <1>5, BackedKept
  <2>2. command'.op = "repair"
    BY <1>5, MovesOn
  <2> QED
    BY <2>1, <2>2 DEF GitHubServes, ChangeAnswers, InstallAnswers, AdoptAnswers, Change
<1>6. CASE RecordApplication
  <2> DEFINE new == [receipt EXCEPT !.application = TRUE]
  <2>1. receipt' \in {receipt, new} /\ (\E s \in Step : Goto(s))
    BY <1>6 DEF RecordApplication, Record, Step
  <2>2. new.phase = receipt.phase /\ new.installed = receipt.installed
    BY <1>0 DEF Receipt
  <2> QED
    BY <1>0, <1>5, <2>1, <2>2
<1>7. CASE RewriteOwnership
  BY <1>0, <1>5, <1>7 DEF RewriteOwnership, records, Step
<1>8. CASE FinishRepair
  BY <1>0, <1>1, <1>4, <1>5, <1>8 DEF FinishRepair, Step
<1>9. CASE GiveUpRepair
  BY <1>4, <1>9 DEF GiveUpRepair, SettleAndEnd
<1> QED
  BY <1>6, <1>7, <1>8, <1>9

LEMMA BeginRepairAnswers ==
  ASSUME Typed, GitHubServes, BeginRepair
  PROVE  GitHubServes'
<1>1. receipt \in Receipt /\ receipt # NoReceipt /\ UNCHANGED github
  BY DEF Typed, RecordsOK, BeginRepair, CanBegin, resources
<1>2. command'.op = "repair"
  BY DEF BeginRepair, Idle
<1>3. receipt'.phase = "repairing" /\ receipt'.installed = receipt.installed
  BY <1>1 DEF BeginRepair, Acquire, Receipt
<1>4. /\ excuse' \subseteq {"half done"} =>
           excuse \subseteq {"half done"} /\ receipt.phase \in {"active", "repairing"}
      /\ "half done" \notin excuse' =>
           "half done" \notin excuse /\ receipt.phase \in {"active", "repairing", "upgrading"}
  BY <1>1 DEF BeginRepair, TakenOver, Receipt, Phase
<1>5. Answering' = Answering
  BY <1>1 DEF Answering
<1>6. Backed'
  BY <1>1, <1>3, <1>4, <1>5 DEF GitHubServes, Backed
<1> QED
  BY <1>2, <1>6 DEF GitHubServes, ChangeAnswers, InstallAnswers, AdoptAnswers, Change

LEMMA TeardownStepAnswers ==
  ASSUME Typed, Serving, Serving', GitHubServes, TeardownStep
  PROVE  GitHubServes'
<1>1. CASE BeginDestroy
  <2>1. command'.op = "destroy"
    BY <1>1 DEF BeginDestroy, Idle
  <2> QED
    BY <2>1, DestroyAnswers
<1>2. CASE \/ SuspendAll \/ DrainAll \/ DeleteOwnership \/ DeleteInstallations \/ DeleteApp
           \/ DestroyStack \/ PruneAll \/ Verify \/ Settle \/ GiveUp
  <2>1. command.op = "destroy"
    BY <1>2
    DEF SuspendAll, DrainAll, DeleteOwnership, DeleteInstallations, DeleteApp, DestroyStack,
        PruneAll, Verify, Settle, GiveUp, At
  <2> QED
    BY <1>2, <2>1, DestroyStepAnswers
<1>3. CASE PlanRepair \/ DropPlan
  BY <1>3, GitHubKept DEF PlanRepair, DropPlan, resources, records
<1>4. CASE ReleaseExpired
  <2>1. /\ receipt \in Receipt /\ receipt # NoReceipt /\ command'.op = "none"
        /\ UNCHANGED <<github, excuse>>
    BY <1>4, IdleTyped DEF ReleaseExpired, Typed, RecordsOK, resources
  <2>2. receipt'.phase = receipt.phase /\ receipt'.installed = receipt.installed
    BY <1>4, <2>1 DEF ReleaseExpired, Receipt
  <2>3. Backed'
    BY <2>1, <2>2, BackedKept DEF GitHubServes, Answering
  <2> QED
    BY <2>1, <2>3 DEF GitHubServes, ChangeAnswers, InstallAnswers, AdoptAnswers, Change
<1>5. CASE BeginRepair
  BY <1>5, BeginRepairAnswers
<1>6. CASE RecordApplication \/ RewriteOwnership \/ FinishRepair \/ GiveUpRepair
  <2>1. command.op = "repair"
    BY <1>6 DEF RecordApplication, RewriteOwnership, FinishRepair, GiveUpRepair, At
  <2> QED
    BY <1>6, <2>1, RepairStepAnswers
<1> QED
  BY <1>1, <1>2, <1>3, <1>4, <1>5, <1>6 DEF TeardownStep

LEMMA InstallStepsAnswer ==
  ASSUME Typed, Serving, GitHubServes, InstallStep
  PROVE  GitHubServes'
<1>1. CASE BeginInstall \/ BeginAdopt
  BY <1>1, BeginInstallsAnswer
<1>2. CASE \/ DeployOver \/ RecordAdopted \/ Inventory \/ ClaimMissing \/ FinishAdopt
           \/ LeaveInstalling
  <2>1. command.op = "adopt"
    BY <1>2
    DEF DeployOver, RecordAdopted, Inventory, ClaimMissing, FinishAdopt, LeaveInstalling, At
  <2> QED
    BY <1>2, <2>1, AdoptStepAnswers
<1>3. CASE \/ Bootstrap \/ RecordStack \/ CreateApp \/ RecordApp \/ Configure \/ InstallApp
           \/ RecordInstallations \/ Claim \/ CheckHealth \/ FinishInstall \/ Release
           \/ RemoveStack \/ RemoveImage \/ DeletePartialApp \/ DeletePartialReceipt
  <2>1. command.op = "install"
    BY <1>3
    DEF Bootstrap, RecordStack, CreateApp, RecordApp, Configure, InstallApp, RecordInstallations,
        Claim, CheckHealth, FinishInstall, Release, RemoveStack, RemoveImage, DeletePartialApp,
        DeletePartialReceipt, At
  <2> QED
    BY <1>3, <2>1, InstallStepAnswers
<1> QED
  BY <1>1, <1>2, <1>3 DEF InstallStep

LEMMA GitHubStep ==
  Typed /\ Serving /\ Serving' /\ GitHubServes /\ [Next]_vars => GitHubServes'
<1> SUFFICES ASSUME Typed, Serving, Serving', GitHubServes, [Next]_vars PROVE GitHubServes'
  OBVIOUS
<1>1. CASE ChangeStep
  BY <1>1, ChangeStepAnswers
<1>2. CASE InstallStep
  BY <1>2, InstallStepsAnswer
<1>3. CASE TeardownStep
  BY <1>3, TeardownStepAnswers
<1>4. CASE Crash
  BY <1>4, EndLeaves DEF Crash, resources, GitHubServes
<1>5. CASE UNCHANGED vars
  BY <1>5, GitHubKept DEF vars
<1> QED
  BY <1>1, <1>2, <1>3, <1>4, <1>5 DEF Next

LEMMA GitHubInit == Init => GitHubServes
BY IdleTyped
DEF Init, GitHubServes, Backed, ChangeAnswers, InstallAnswers, AdoptAnswers, Change

LEMMA ServingGivesActiveServes == Serving /\ GitHubServes => ActiveServes
BY DEF Serving, ReceiptServes, GitHubServes, Backed, Answering, ActiveServes, SettledActive, AtRest,
       Serves, Runs, PassesHealthGate

LEMMA ServingAlways == Spec => [](Serving /\ GitHubServes)
<1>1. Init => Typed /\ Serving /\ GitHubServes
  BY TypedInit, ServingInit, GitHubInit
<1>2. (Typed /\ Serving /\ GitHubServes) /\ [Next]_vars => (Typed /\ Serving /\ GitHubServes)'
  BY TypedStep, ServingStep, GitHubStep
<1> QED
  BY <1>1, <1>2, PTL DEF Spec

\* A receipt that is settled as active tells the truth, whatever requests failed and wherever
\* commands died before: unless it has one of the excuses, the Worker and its containers run
\* the version it records, from the tag it records and with their secrets, the intake is open
\* and the App answers with no installation suspended; and unless an installation or a
\* destroy was left half done, the installations it records are there, with this
\* deployment's marker on their repositories.
THEOREM ActiveAlwaysServes == Spec => []ActiveServes
BY ServingAlways, ServingGivesActiveServes, PTL

-----------------------------------------------------------------------------
(* A receipt is removed only after what it records is gone.  What each command *)
(* that removes things knows of them at each of its steps is the invariant.    *)

SecretsOfAWorker == stack.worker = None => ~stack.secrets

\* Where the receipt records an installation and the marker of this deployment is there, a
\* Worker that can speak as the App still reaches it.
Reachable(r) ==
  r # NoReceipt /\ r.installed /\ stack.secrets /\ "own" \in github.markers => github.installed

Forward == {"bootstrap", "record stack", "create app", "record app", "configure", "install app",
            "record installations", "claim", "health", "finish"}

\* What an install that goes forward has recorded it knows; what it removes is gone.
InstallAccounts ==
  command.op = "install" =>
    /\ held.tags.previous = None
    /\ ~held.application => held.tags.current = Unpushed
    /\ held.installed => held.app
    /\ held.app => command.credentials
    /\ command.step \in Forward => receipt = held
    /\ command.step = "record app" => command.credentials
    /\ command.step \in {"bootstrap", "record stack", "create app", "record app", "configure",
                         "install app", "record installations"} => ~held.installed
    /\ command.step \in {"configure", "install app", "record installations"} => held.app
    /\ command.step \in {"record installations", "claim"} => github.installed
    /\ command.step \in {"remove stack", "remove image", "delete app", "delete receipt"} =>
         (held.installed => "own" \notin github.markers)
    /\ command.step \in {"remove image", "delete app", "delete receipt"} => stack = NoStack
    /\ command.step \in {"delete app", "delete receipt"} =>
         (held.application => held.tags.current \notin registry)
    /\ command.step = "delete receipt" =>
         (command.credentials => ~github.app /\ ~github.installed)

AdoptAccounts ==
  command.op = "adopt" /\ command.step = "ownership" =>
    receipt = held /\ (held.installed => github.installed)

\* What a destroy has removed is gone, or it has noted that it may not be.
DestroyAccounts ==
  command.op = "destroy" =>
    /\ receipt # NoReceipt => receipt.installed = held.installed
    /\ command.step \in {"drain", "delete ownership"} => Answers
    /\ command.step = "delete installations" /\ stack.worker = None => command.residue # {}
    /\ command.step \in {"delete installations", "delete app"} /\ held.installed =>
         stack.worker = None \/ "own" \notin github.markers
    /\ command.step \in {"delete installations", "delete app", "destroy stack", "prune", "verify",
                         "settle"} /\ held.installed /\ command.residue = {} =>
         "own" \notin github.markers
    /\ command.step \in {"delete app", "destroy stack", "prune", "verify", "settle"}
         /\ held.installed /\ command.residue = {} => ~github.installed
    /\ command.step \in {"destroy stack", "prune", "verify", "settle"} /\ held.app => ~github.app
    /\ command.step \in {"prune", "verify", "settle"} => stack = NoStack
    /\ command.step = "settle" /\ command.residue = {} =>
         RecordedTags(held.tags) \cap registry = {}

Accounted ==
  /\ SecretsOfAWorker /\ Reachable(receipt) /\ Reachable(held)
  /\ InstallAccounts /\ AdoptAccounts /\ DestroyAccounts

\* What a receipt that stays, or a copy of it, can reach.
LEMMA ReachableKept ==
  ASSUME NEW r, NEW q, Reachable(r),
         q # NoReceipt => r # NoReceipt /\ (q.installed => r.installed),
         stack'.secrets => stack.secrets,
         "own" \in github'.markers => "own" \in github.markers \/ github'.installed,
         github.installed => github'.installed
  PROVE  q # NoReceipt /\ q.installed /\ stack'.secrets /\ "own" \in github'.markers =>
           github'.installed
BY DEF Reachable

LEMMA DeployedSecrets ==
  ASSUME Typed, Accounted, NEW v, v # None, NEW secrets,
         DeployedTo(v, secrets) \/ PartlyDeployedTo(v, secrets)
  PROVE  SecretsOfAWorker' /\ (stack'.secrets => stack.secrets \/ secrets)
<1>1. stack \in StackType /\ (stack.worker = None => ~stack.secrets)
  BY DEF Typed, ResourcesOK, Accounted, SecretsOfAWorker
<1>2. stack' \in {stack, [stack EXCEPT !.worker = v, !.secrets = secrets],
                 [stack EXCEPT !.application = v],
                 [worker |-> v, application |-> v, secrets |-> secrets]}
  BY DEF DeployedTo, PartlyDeployedTo
<1>3. CASE stack' = stack
  BY <1>1, <1>3 DEF SecretsOfAWorker
<1>4. CASE stack' = [stack EXCEPT !.worker = v, !.secrets = secrets]
  <2>1. stack'.worker = v /\ stack'.secrets = secrets
    BY <1>1, <1>4 DEF StackType
  <2> QED
    BY <2>1 DEF SecretsOfAWorker
<1>5. CASE stack' = [stack EXCEPT !.application = v]
  <2>1. stack'.worker = stack.worker /\ stack'.secrets = stack.secrets
    BY <1>1, <1>5 DEF StackType
  <2> QED
    BY <1>1, <2>1 DEF SecretsOfAWorker
<1>6. CASE stack' = [worker |-> v, application |-> v, secrets |-> secrets]
  <2>1. stack'.worker = v /\ stack'.secrets = secrets
    BY <1>6
  <2> QED
    BY <2>1 DEF SecretsOfAWorker
<1> QED
  BY <1>2, <1>3, <1>4, <1>5, <1>6

LEMMA RemovedSecrets ==
  ASSUME Typed, Accounted, Removed \/ PartlyRemoved
  PROVE  SecretsOfAWorker' /\ (stack'.secrets => stack.secrets)
<1>1. stack \in StackType /\ (stack.worker = None => ~stack.secrets)
  BY DEF Typed, ResourcesOK, Accounted, SecretsOfAWorker
<1>2. stack' \in {stack, [stack EXCEPT !.application = None],
                 [stack EXCEPT !.worker = None, !.secrets = FALSE], NoStack}
  BY DEF Removed, PartlyRemoved
<1>3. CASE stack' = stack
  BY <1>1, <1>3 DEF SecretsOfAWorker
<1>4. CASE stack' = [stack EXCEPT !.application = None]
  <2>1. stack'.worker = stack.worker /\ stack'.secrets = stack.secrets
    BY <1>1, <1>4 DEF StackType
  <2> QED
    BY <1>1, <2>1 DEF SecretsOfAWorker
<1>5. CASE stack' = [stack EXCEPT !.worker = None, !.secrets = FALSE] \/ stack' = NoStack
  <2>1. ~[stack EXCEPT !.worker = None, !.secrets = FALSE].secrets
    BY <1>1 DEF StackType
  <2>2. ~NoStack.secrets
    BY DEF NoStack
  <2>3. ~stack'.secrets
    BY <1>5, <2>1, <2>2
  <2> QED
    BY <2>3 DEF SecretsOfAWorker
<1> QED
  BY <1>2, <1>3, <1>4, <1>5

LEMMA OverInstalled ==
  ASSUME NEW r \in Receipt \cup {NoReceipt}, Over(r)
  PROVE  /\ held' = NoReceipt /\ command'.op = "none"
         /\ receipt' # NoReceipt => r # NoReceipt /\ receipt'.installed = r.installed
<1>1. command'.op = "none" /\ held' = NoReceipt
  BY IdleTyped DEF Over
<1>2. CASE r = NoReceipt
  BY <1>1, <1>2 DEF Over
<1>3. CASE r # NoReceipt
  <2>1. r \in Receipt
    BY <1>3
  <2>2. receipt' \in {r, [r EXCEPT !.lease = "dead"]}
    BY <1>3 DEF Over
  <2> QED
    BY <1>1, <1>3, <2>1, <2>2 DEF Receipt
<1> QED
  BY <1>2, <1>3

\* A command that ends leaves no more recorded than there was.
LEMMA EndAccounts ==
  ASSUME NEW r \in Receipt \cup {NoReceipt}, Over(r), SecretsOfAWorker',
         r # NoReceipt /\ r.installed /\ stack'.secrets /\ "own" \in github'.markers =>
           github'.installed
  PROVE  Accounted'
<1>1. /\ held' = NoReceipt /\ command'.op = "none"
      /\ receipt' # NoReceipt => r # NoReceipt /\ receipt'.installed = r.installed
  BY OverInstalled
<1>2. Reachable(receipt)'
  BY <1>1 DEF Reachable
<1>3. Reachable(held)'
  BY <1>1 DEF Reachable
<1> QED
  BY <1>1, <1>2, <1>3 DEF Accounted, InstallAccounts, AdoptAccounts, DestroyAccounts

\* A step of another command than an install, an adoption or a destroy.
LEMMA OtherAccounts ==
  ASSUME Accounted, SecretsOfAWorker', command'.op \notin {"install", "adopt", "destroy"},
         receipt' # NoReceipt => receipt # NoReceipt /\ (receipt'.installed => receipt.installed),
         \/ held' = NoReceipt \/ held' = held \/ held' = receipt',
         stack'.secrets => stack.secrets,
         "own" \in github'.markers => "own" \in github.markers \/ github'.installed,
         github.installed => github'.installed
  PROVE  Accounted'
<1>1. Reachable(receipt)'
  BY DEF Accounted, Reachable
<1>2. Reachable(held)'
  BY DEF Accounted, Reachable
<1> QED
  BY <1>1, <1>2 DEF Accounted, InstallAccounts, AdoptAccounts, DestroyAccounts

\* A step beside the command that runs.
LEMMA AccountedKept ==
  ASSUME Accounted, UNCHANGED <<stack, github, receipt, held, command>>, registry' \subseteq registry
  PROVE  Accounted'
<1>1. SecretsOfAWorker' /\ Reachable(receipt)' /\ Reachable(held)'
  BY DEF Accounted, SecretsOfAWorker, Reachable
<1>2. InstallAccounts'
  BY DEF Accounted, InstallAccounts
<1>3. AdoptAccounts'
  BY DEF Accounted, AdoptAccounts
<1>4. DestroyAccounts'
  BY DEF Accounted, DestroyAccounts, RecordedTags, Answers
<1> QED
  BY <1>1, <1>2, <1>3, <1>4 DEF Accounted

LEMMA BeginAccounts ==
  ASSUME Typed, Accounted, CanBegin, NEW phase \in Phase, Acquire(phase),
         command'.op \in Operation \ {"install", "destroy"},
         command'.op = "adopt" => command'.step # "ownership",
         UNCHANGED <<stack, github>>
  PROVE  Accounted'
<1>1. receipt \in Receipt /\ receipt # NoReceipt
  BY DEF Typed, RecordsOK, CanBegin
<1>2. receipt'.installed = receipt.installed /\ held' = receipt'
  BY <1>1 DEF Acquire, Receipt
<1>3. SecretsOfAWorker' /\ Reachable(receipt)' /\ Reachable(held)'
  BY <1>1, <1>2 DEF Accounted, SecretsOfAWorker, Reachable
<1> QED
  BY <1>3 DEF Accounted, InstallAccounts, AdoptAccounts, DestroyAccounts

LEMMA ChangeGoesOnAs ==
  ASSUME Typed, command.op # "none",
         \/ \E s \in Step : Goto(s)
         \/ PrepareUpgrade \/ PrepareRollback \/ Drain
  PROVE  command'.op = command.op
<1>1. command \in CommandType
  BY DEF Typed, CommandOK
<1>2. CASE \E s \in Step : Goto(s)
  BY <1>2, MovesOn
<1>3. CASE command' = [command EXCEPT !.step = "record", !.tag = command.target,
                                      !.copied = command.target]
  BY <1>1, <1>3 DEF CommandType
<1>4. CASE command' = [command EXCEPT !.step = "record", !.target = command.versions.previous,
                                      !.tag = command.tags.previous]
  BY <1>1, <1>4 DEF CommandType
<1>5. CASE command' = [command EXCEPT !.step = "activate", !.drained = TRUE]
  BY <1>1, <1>5 DEF CommandType
<1>6. "restore" \in Step /\ "reopen" \in Step
  BY DEF Step
<1> QED
  BY <1>2, <1>3, <1>4, <1>5, <1>6 DEF PrepareUpgrade, PrepareRollback, Drain

LEMMA ChangeAccounts ==
  ASSUME Typed, Accounted, ChangeStep
  PROVE  Accounted'
<1>1. CASE BeginUpgrade \/ BeginRollback
  <2>1. PICK op \in Change, v \in Version \cup {None} : BeginChange(op, v)
    BY <1>1 DEF BeginUpgrade, BeginRollback, Change
  <2>2. command'.op = op /\ op \in Operation \ {"install", "destroy", "adopt"}
    BY <2>1 DEF BeginChange, Idle, Change, Operation
  <2> QED
    BY <2>1, <2>2, BeginAccounts DEF BeginChange, Phase, resources
<1>2. CASE RemoveCopiedTag
  <2>1. registry' \subseteq registry
    BY <1>2 DEF RemoveCopiedTag, Pruned
  <2> QED
    BY <1>2, <2>1, AccountedKept DEF RemoveCopiedTag, records
<1>3. CASE ~(BeginUpgrade \/ BeginRollback \/ RemoveCopiedTag)
  <2>1. command.op \in Change /\ github' = github
    BY <1>3
    DEF ChangeStep, UpgradeToSame, PrepareUpgrade, PrepareRollback, RecordDesired, Suspend, Drain,
        Reopen, Activate, Prune, Resume, FinishChange, Reactivate, ResumeOriginal, Restore, At,
        Change, resources
  <2>2. /\ receipt \in Receipt /\ receipt # NoReceipt /\ command.op # "none"
        /\ command.op \notin {"install", "adopt", "destroy"} /\ SecretsOfAWorker
        /\ command.versions.current # None
        /\ Reachable(receipt)
    BY <2>1, NamesDiffer, VersionsNamed DEF Typed, RecordsOK, Change, Accounted
  <2>3. /\ Settled("active") \in Receipt /\ Settled("active").installed = receipt.installed
    BY <2>2, SettledTyped DEF Phase
  <2>4. ASSUME UNCHANGED <<stack, records>>, command'.op = command.op
        PROVE  Accounted'
    <3>1. SecretsOfAWorker'
      BY <2>2, <2>4 DEF SecretsOfAWorker
    <3> QED
      BY <2>1, <2>2, <2>4, <3>1, OtherAccounts DEF records
  <2>5. ASSUME NEW r \in Receipt, Over(r), r.installed = receipt.installed, SecretsOfAWorker',
               stack'.secrets => stack.secrets
        PROVE  Accounted'
    BY <2>1, <2>2, <2>5, EndAccounts DEF Reachable
  <2>6. ASSUME NEW r \in Receipt, receipt' \in {receipt, r}, r.installed = receipt.installed,
               held' \in {held, receipt'}, UNCHANGED stack, \E s \in Step : Goto(s)
        PROVE  Accounted'
    <3>1. SecretsOfAWorker' /\ command'.op = command.op
      BY <2>2, <2>6, ChangeGoesOnAs DEF SecretsOfAWorker
    <3>2. receipt'.installed = receipt.installed
      BY <2>6
    <3> QED
      BY <2>1, <2>2, <2>6, <3>1, <3>2, OtherAccounts
  <2>7. UNCHANGED stack => SecretsOfAWorker'
    BY <2>2 DEF SecretsOfAWorker
  <2>8. CASE UpgradeToSame
    <3>1. UNCHANGED stack
      BY <2>8 DEF UpgradeToSame, resources
    <3>2. CASE Over(Settled("active"))
      BY <2>3, <2>5, <2>7, <3>1, <3>2
    <3>3. CASE receipt' \in {receipt, Settled("active")} /\ held' = held /\ Goto("restore")
      BY <2>3, <2>6, <3>1, <3>3 DEF Step
    <3> QED
      BY <2>8, <3>2, <3>3 DEF UpgradeToSame
  <2>9. CASE PrepareUpgrade \/ PrepareRollback \/ Drain
    <3>1. command'.op = command.op
      BY <2>2, <2>9, ChangeGoesOnAs
    <3> QED
      BY <2>4, <2>9, <3>1 DEF PrepareUpgrade, PrepareRollback, Drain, resources
  <2>10. CASE Suspend \/ Reopen \/ Prune \/ Resume
    <3>1. \E s \in Step : Goto(s)
      BY <2>10 DEF Suspend, Reopen, Prune, Resume, Step
    <3>2. command'.op = command.op
      BY <2>2, <3>1, ChangeGoesOnAs
    <3> QED
      BY <2>4, <2>10, <3>2 DEF Suspend, Reopen, Prune, Resume
  <2>11. CASE RecordDesired
    <3> DEFINE new == [receipt EXCEPT !.versions = Desired.versions, !.tags = Desired.tags]
    <3>1. /\ command.target \in Version /\ command.tag \in Tag
          /\ command.versions \in Versions /\ command.tags \in Tags
      BY <2>1, <2>11 DEF RecordDesired, At, Typed, CommandOK, Moving
    <3>2. new \in Receipt /\ new.installed = receipt.installed
      BY <2>2, <3>1 DEF Receipt, Desired, Versions, Tags
    <3> HIDE DEF new
    <3>3. /\ receipt' \in {receipt, new} /\ held' \in {held, receipt'} /\ UNCHANGED stack
          /\ \E s \in Step : Goto(s)
      BY <2>11 DEF RecordDesired, Record, resources, Step, new
    <3> QED
      BY <2>6, <3>2, <3>3
  <2>12. CASE Activate
    <3>1. command.target # None
      BY <2>1, <2>12, VersionsNamed, NamesDiffer DEF Activate, At, Moving
    <3>2. SecretsOfAWorker' /\ (stack'.secrets => stack.secrets)
      BY <2>12, <3>1, DeployedSecrets DEF Activate
    <3>3. \E s \in Step : Goto(s)
      BY <2>12 DEF Activate, Step
    <3>4. command'.op = command.op
      BY <2>2, <3>3, ChangeGoesOnAs
    <3> QED
      BY <2>1, <2>2, <2>12, <3>2, <3>4, OtherAccounts DEF Activate, records
  <2>13. CASE FinishChange
    <3> DEFINE new == [Settled("active") EXCEPT !.versions = Desired.versions, !.tags = Desired.tags]
    <3>1. /\ command.target \in Version /\ command.tag \in Tag
          /\ command.versions \in Versions /\ command.tags \in Tags
      BY <2>1, <2>13 DEF FinishChange, At, Typed, CommandOK, Moving
    <3>2. new \in Receipt /\ new.installed = receipt.installed
      BY <2>3, <3>1 DEF Receipt, Desired, Versions, Tags
    <3> HIDE DEF new
    <3>3. UNCHANGED stack /\ (Over(new) \/ (receipt' \in {receipt, new} /\ held' = held
                                            /\ \E s \in Step : Goto(s)))
      BY <2>13 DEF FinishChange, resources, Step, new
    <3> QED
      BY <2>5, <2>6, <2>7, <3>2, <3>3
  <2>14. CASE Reactivate
    <3>1. SecretsOfAWorker' /\ (stack'.secrets => stack.secrets)
      <4>1. command.versions.current # None
        BY <2>2
      <4>2. \/ DeployedTo(command.versions.current, stack.secrets)
            \/ PartlyDeployedTo(command.versions.current, stack.secrets)
        BY <2>14 DEF Reactivate
      <4> QED
        BY <4>1, <4>2, DeployedSecrets
    <3>2. CASE Over(receipt)
      BY <2>2, <2>5, <3>1, <3>2
    <3>3. CASE Goto("resume original") /\ UNCHANGED records
      <4>1. command'.op = command.op
        BY <2>2, <3>3, ChangeGoesOnAs DEF Step
      <4> QED
        BY <2>1, <2>2, <3>1, <3>3, <4>1, OtherAccounts DEF records
    <3> QED
      BY <2>14, <3>2, <3>3 DEF Reactivate
  <2>15. CASE ResumeOriginal
    <3>1. UNCHANGED stack
      BY <2>15 DEF ResumeOriginal
    <3>2. CASE Over(receipt)
      BY <2>2, <2>5, <2>7, <3>1, <3>2
    <3>3. CASE Goto("restore") /\ UNCHANGED records
      <4>1. command'.op = command.op
        BY <2>2, <3>3, ChangeGoesOnAs DEF Step
      <4> QED
        BY <2>4, <3>1, <3>3, <4>1
    <3> QED
      BY <2>15, <3>2, <3>3 DEF ResumeOriginal
  <2>16. CASE Restore
    <3>1. command.versions \in Versions /\ command.tags \in Tags
      BY <2>1 DEF Typed, CommandOK
    <3>2. OriginalReceipt \in Receipt /\ OriginalReceipt.installed = receipt.installed
      BY <2>3, <3>1 DEF OriginalReceipt, Receipt
    <3>3. UNCHANGED stack /\ (Over(receipt) \/ Over(OriginalReceipt))
      BY <2>16 DEF Restore, resources
    <3> QED
      BY <2>2, <2>5, <2>7, <3>2, <3>3
  <2> QED
    BY <1>3, <2>8, <2>9, <2>10, <2>11, <2>12, <2>13, <2>14, <2>15, <2>16 DEF ChangeStep
<1> QED
  BY <1>1, <1>2, <1>3

LEMMA InstallGoesOnAccounted ==
  ASSUME command'.op = "install", SecretsOfAWorker', Reachable(receipt)', Reachable(held)',
         InstallAccounts'
  PROVE  Accounted'
BY DEF Accounted, AdoptAccounts, DestroyAccounts

LEMMA InstallStepAccounts ==
  ASSUME Typed, Accounted, command.op = "install", InstallStep
  PROVE  Accounted'
<1>0. /\ receipt \in Receipt /\ held \in Receipt /\ receipt # NoReceipt /\ held # NoReceipt
      /\ command.target \in Version /\ command.target # None /\ command \in CommandType
      /\ github \in GitHubType
      /\ InstallAccounts /\ Reachable(receipt) /\ Reachable(held) /\ SecretsOfAWorker
      /\ command.op # "none" /\ Idle.op = "none"
  BY NamesDiffer, VersionsNamed, IdleTyped
  DEF Typed, CommandOK, RecordsOK, ResourcesOK, Accounted
<1>50. UNCHANGED stack => SecretsOfAWorker'
  BY <1>0 DEF SecretsOfAWorker
<1>51. ASSUME Over(receipt), SecretsOfAWorker',
              /\ stack'.secrets => stack.secrets
              /\ "own" \in github'.markers => "own" \in github.markers
              /\ github.installed => github'.installed \/ ~stack'.secrets
       PROVE  Accounted'
  BY <1>0, <1>51, EndAccounts DEF Reachable
<1>1. CASE Bootstrap
  <2>1. command.step = "bootstrap" /\ UNCHANGED <<github, receipt, held>>
    BY <1>1 DEF Bootstrap, At, records, rest
  <2>2. /\ command'.op = command.op /\ command'.step \in {"record stack", "release"}
        /\ command'.credentials = command.credentials
    BY <1>1, MovesOn DEF Bootstrap, Step
  <2>3. SecretsOfAWorker' /\ (stack'.secrets => stack.secrets \/ FALSE)
    BY <1>0, <1>1, DeployedSecrets DEF Bootstrap
  <2>4. Reachable(receipt)' /\ Reachable(held)'
    BY <1>0, <2>1, <2>3 DEF Reachable
  <2>5. InstallAccounts'
    BY <1>0, <2>1, <2>2 DEF InstallAccounts, Forward
  <2> QED
    BY <1>0, <2>2, <2>3, <2>4, <2>5, InstallGoesOnAccounted
<1>2. CASE RecordStack
  <2> DEFINE new == [receipt EXCEPT !.application = TRUE, !.tags.current = command.target]
  <2>1. /\ command.step = "record stack" /\ UNCHANGED <<stack, github>>
        /\ Record(new, "create app", "release")
    BY <1>2 DEF RecordStack, At, rest, resources
  <2>2. /\ new # NoReceipt
        /\ new.application /\ new.tags.previous = receipt.tags.previous
        /\ new.app = receipt.app /\ new.installed = receipt.installed
    <3>1. new \in Receipt
      BY <1>0 DEF Receipt, Tags, Tag
    <3>2. /\ new.application /\ new.tags.previous = receipt.tags.previous
          /\ new.app = receipt.app /\ new.installed = receipt.installed
      BY <1>0 DEF Receipt, Tags
    <3> QED
      BY <3>1, <3>2, NamesDiffer
  <2> HIDE DEF new
  <2>3. /\ command'.op = command.op /\ command'.credentials = command.credentials
        /\ \/ command'.step = "create app" /\ receipt' = new /\ held' = new
           \/ command'.step = "release" /\ receipt' \in {receipt, new} /\ held' = held
    <3>1. CASE receipt' = new /\ held' = new /\ Goto("create app")
      BY <3>1, MovesOn DEF Step
    <3>2. CASE receipt' \in {receipt, new} /\ held' = held /\ Goto("release")
      BY <3>2, MovesOn DEF Step
    <3> QED
      BY <2>1, <3>1, <3>2 DEF Record
  <2>4. new.installed /\ stack.secrets /\ "own" \in github.markers => github.installed
    BY <1>0, <2>1, <2>2 DEF Reachable, InstallAccounts
  <2>5. Reachable(receipt)'
    BY <1>0, <2>1, <2>3, <2>4 DEF Reachable
  <2>6. Reachable(held)'
    BY <1>0, <2>1, <2>3, <2>4 DEF Reachable
  <2>7. InstallAccounts'
    BY <1>0, <2>1, <2>2, <2>3 DEF InstallAccounts, Forward
  <2> QED
    BY <1>0, <1>50, <2>1, <2>3, <2>5, <2>6, <2>7, InstallGoesOnAccounted
<1>3. CASE CreateApp
  <2>1. command.step = "create app" /\ UNCHANGED <<stack, receipt, held>>
    BY <1>3 DEF CreateApp, At, records, rest
  <2>2. /\ command'.op = command.op
        /\ \/ command'.step = "record app" /\ command'.credentials
           \/ command'.step = "release" /\ command'.credentials = command.credentials
    <3>1. CASE Goto("release")
      BY <3>1, MovesOn DEF Step
    <3>2. CASE command' = [command EXCEPT !.step = "record app", !.credentials = TRUE]
      BY <1>0, <3>2 DEF CommandType
    <3> QED
      BY <1>3, <3>1, <3>2 DEF CreateApp
  <2>3. github'.markers = github.markers /\ ~held.installed /\ receipt = held
    <3>1. NewApp.markers = github.markers
      BY DEF NewApp
    <3>2. github' \in {github, NewApp}
      BY <1>3 DEF CreateApp
    <3>3. ~held.installed /\ receipt = held
      BY <1>0, <2>1 DEF InstallAccounts, Forward
    <3> QED
      BY <3>1, <3>2, <3>3
  <2>4. Reachable(receipt)' /\ Reachable(held)'
    BY <1>0, <2>1, <2>3 DEF Reachable
  <2>5. InstallAccounts'
    BY <1>0, <2>1, <2>2, <2>3 DEF InstallAccounts, Forward
  <2> QED
    BY <1>0, <1>50, <2>1, <2>2, <2>4, <2>5, InstallGoesOnAccounted
<1>4. CASE RecordApp
  <2> DEFINE new == [receipt EXCEPT !.app = TRUE]
  <2>1. /\ command.step = "record app" /\ UNCHANGED <<stack, github>>
        /\ Record(new, "configure", "release")
    BY <1>4 DEF RecordApp, At, rest, resources
  <2>2. /\ new # NoReceipt
        /\ new.app
        /\ new.application = receipt.application /\ new.tags = receipt.tags /\ new.installed = receipt.installed
    <3>1. new \in Receipt
      BY <1>0 DEF Receipt
    <3>2. /\ new.app
          /\ new.application = receipt.application /\ new.tags = receipt.tags /\ new.installed = receipt.installed
      BY <1>0 DEF Receipt
    <3> QED
      BY <3>1, <3>2, NamesDiffer
  <2> HIDE DEF new
  <2>3. /\ command'.op = command.op /\ command'.credentials = command.credentials
        /\ \/ command'.step = "configure" /\ receipt' = new /\ held' = new
           \/ command'.step = "release" /\ receipt' \in {receipt, new} /\ held' = held
    <3>1. CASE receipt' = new /\ held' = new /\ Goto("configure")
      BY <3>1, MovesOn DEF Step
    <3>2. CASE receipt' \in {receipt, new} /\ held' = held /\ Goto("release")
      BY <3>2, MovesOn DEF Step
    <3> QED
      BY <2>1, <3>1, <3>2 DEF Record
  <2>4. new.installed /\ stack.secrets /\ "own" \in github.markers => github.installed
    BY <1>0, <2>1, <2>2 DEF Reachable, InstallAccounts
  <2>5. Reachable(receipt)'
    BY <1>0, <2>1, <2>3, <2>4 DEF Reachable
  <2>6. Reachable(held)'
    BY <1>0, <2>1, <2>3, <2>4 DEF Reachable
  <2>7. InstallAccounts'
    BY <1>0, <2>1, <2>2, <2>3 DEF InstallAccounts, Forward
  <2> QED
    BY <1>0, <1>50, <2>1, <2>3, <2>5, <2>6, <2>7, InstallGoesOnAccounted
<1>5. CASE Configure
  <2>1. command.step = "configure" /\ UNCHANGED <<github, receipt, held>>
    BY <1>5 DEF Configure, At, records, rest
  <2>2. /\ command'.op = command.op /\ command'.step \in {"install app", "release"}
        /\ command'.credentials = command.credentials
    BY <1>5, MovesOn DEF Configure, Step
  <2>3. SecretsOfAWorker' /\ (stack'.secrets => stack.secrets \/ TRUE)
    BY <1>0, <1>5, DeployedSecrets DEF Configure
  <2>4. Reachable(receipt)' /\ Reachable(held)'
    <3>1. receipt = held /\ ~held.installed
      BY <1>0, <2>1 DEF InstallAccounts, Forward
    <3> QED
      BY <2>1, <3>1 DEF Reachable
  <2>5. InstallAccounts'
    BY <1>0, <2>1, <2>2 DEF InstallAccounts, Forward
  <2> QED
    BY <1>0, <2>2, <2>3, <2>4, <2>5, InstallGoesOnAccounted
<1>6. CASE InstallApp
  <2>1. command.step = "install app" /\ UNCHANGED <<stack, receipt, held>>
    BY <1>6 DEF InstallApp, At, records, rest
  <2>2. /\ command'.op = command.op /\ command'.credentials = command.credentials
        /\ \/ command'.step = "record installations" /\ github' = [github EXCEPT !.installed = TRUE]
           \/ command'.step = "release" /\ github' \in {github, [github EXCEPT !.installed = TRUE]}
    <3>1. CASE Goto("release") /\ github' \in {github, [github EXCEPT !.installed = TRUE]}
      BY <3>1, MovesOn DEF Step
    <3>2. CASE github' = [github EXCEPT !.installed = TRUE] /\ Goto("record installations")
      BY <3>2, MovesOn DEF Step
    <3> QED
      BY <1>6, <3>1, <3>2 DEF InstallApp
  <2>3. /\ github'.markers = github.markers /\ (github.installed => github'.installed)
        /\ command'.step = "record installations" => github'.installed
    BY <1>0, <2>2 DEF GitHubType
  <2>4. Reachable(receipt)' /\ Reachable(held)'
    BY <1>0, <2>1, <2>3 DEF Reachable
  <2>5. InstallAccounts'
    BY <1>0, <2>1, <2>2, <2>3 DEF InstallAccounts, Forward
  <2> QED
    BY <1>0, <1>50, <2>1, <2>2, <2>4, <2>5, InstallGoesOnAccounted
<1>7. CASE RecordInstallations
  <2> DEFINE new == [receipt EXCEPT !.installed = TRUE]
  <2>1. /\ command.step = "record installations" /\ UNCHANGED <<stack, github>>
        /\ Record(new, "claim", "release")
    BY <1>7 DEF RecordInstallations, At, rest, resources
  <2>2. /\ new # NoReceipt
        /\ new.installed
        /\ new.application = receipt.application /\ new.tags = receipt.tags /\ new.app = receipt.app
    <3>1. new \in Receipt
      BY <1>0 DEF Receipt
    <3>2. /\ new.installed
          /\ new.application = receipt.application /\ new.tags = receipt.tags /\ new.app = receipt.app
      BY <1>0 DEF Receipt
    <3> QED
      BY <3>1, <3>2, NamesDiffer
  <2> HIDE DEF new
  <2>3. /\ command'.op = command.op /\ command'.credentials = command.credentials
        /\ \/ command'.step = "claim" /\ receipt' = new /\ held' = new
           \/ command'.step = "release" /\ receipt' \in {receipt, new} /\ held' = held
    <3>1. CASE receipt' = new /\ held' = new /\ Goto("claim")
      BY <3>1, MovesOn DEF Step
    <3>2. CASE receipt' \in {receipt, new} /\ held' = held /\ Goto("release")
      BY <3>2, MovesOn DEF Step
    <3> QED
      BY <2>1, <3>1, <3>2 DEF Record
  <2>4. new.installed /\ stack.secrets /\ "own" \in github.markers => github.installed
    BY <1>0, <2>1, <2>2 DEF Reachable, InstallAccounts
  <2>5. Reachable(receipt)'
    BY <1>0, <2>1, <2>3, <2>4 DEF Reachable
  <2>6. Reachable(held)'
    BY <1>0, <2>1, <2>3, <2>4 DEF Reachable
  <2>7. InstallAccounts'
    BY <1>0, <2>1, <2>2, <2>3 DEF InstallAccounts, Forward
  <2> QED
    BY <1>0, <1>50, <2>1, <2>3, <2>5, <2>6, <2>7, InstallGoesOnAccounted
<1>8. CASE Claim
  <2>1. command.step = "claim" /\ UNCHANGED <<stack, receipt, held>>
    BY <1>8 DEF Claim, At, records, rest, resources
  <2>2. /\ command'.op = command.op /\ command'.step \in {"health", "release"}
        /\ command'.credentials = command.credentials
    BY <1>8, MovesOn DEF Claim, Step
  <2>3. github'.installed = github.installed
    BY <1>0, <1>8, <2>1 DEF Claim, resources, Marked, GitHubType
  <2>4. Reachable(receipt)' /\ Reachable(held)'
    BY <1>0, <2>1, <2>3 DEF Reachable, InstallAccounts
  <2>5. InstallAccounts'
    BY <1>0, <2>1, <2>2, <2>3 DEF InstallAccounts, Forward
  <2> QED
    BY <1>0, <1>50, <2>1, <2>2, <2>4, <2>5, InstallGoesOnAccounted
<1>9. CASE CheckHealth
  <2>1. command.step = "health" /\ UNCHANGED <<stack, receipt, held>>
    BY <1>9 DEF CheckHealth, At, records, rest, resources
  <2>2. /\ command'.op = command.op /\ command'.step \in {"finish", "release"}
        /\ command'.credentials = command.credentials
    BY <1>9, MovesOn DEF CheckHealth, Step
  <2>3. github' = github
    BY <1>0, <1>9, <2>1 DEF CheckHealth, resources
  <2>4. Reachable(receipt)' /\ Reachable(held)'
    BY <1>0, <2>1, <2>3 DEF Reachable
  <2>5. InstallAccounts'
    BY <1>0, <2>1, <2>2, <2>3 DEF InstallAccounts, Forward
  <2> QED
    BY <1>0, <1>50, <2>1, <2>2, <2>4, <2>5, InstallGoesOnAccounted
<1>10. CASE FinishInstall
  <2>1. command.step = "finish" /\ UNCHANGED <<stack, github>>
    BY <1>10 DEF FinishInstall, At, resources
  <2>2. Settled("active") \in Receipt /\ Settled("active").installed = receipt.installed
    BY <1>0, SettledTyped DEF Phase
  <2>3. CASE Over(Settled("active"))
    BY <1>0, <1>50, <2>1, <2>2, <2>3, EndAccounts DEF Reachable
  <2>4. CASE receipt' \in {receipt, Settled("active")} /\ held' = held /\ Goto("release")
    <3>1. /\ command'.op = command.op /\ command'.step = "release"
          /\ command'.credentials = command.credentials
      BY <2>4, MovesOn DEF Step
    <3>2. receipt'.installed = receipt.installed
      BY <2>2, <2>4
    <3>3. Reachable(receipt)' /\ Reachable(held)'
      BY <1>0, <2>1, <2>4, <3>2 DEF Reachable
    <3>4. InstallAccounts'
      BY <1>0, <2>1, <2>4, <3>1 DEF InstallAccounts, Forward
    <3> QED
      BY <1>0, <1>50, <2>1, <3>1, <3>3, <3>4, InstallGoesOnAccounted
  <2> QED
    BY <1>10, <2>3, <2>4 DEF FinishInstall
<1>11. CASE Release
  <2>1. command.step = "release" /\ UNCHANGED stack
    BY <1>11 DEF Release, At
  <2>2. /\ github'.installed = github.installed
        /\ "own" \in github'.markers => "own" \in github.markers
    BY <1>0, <1>11 DEF Release, Released, GitHubType
  <2>3. CASE Over(receipt)
    BY <1>50, <1>51, <2>1, <2>2, <2>3
  <2>4. CASE /\ Goto("remove stack") /\ UNCHANGED records
             /\ github' = IF command.credentials THEN Released ELSE github
    <3>1. /\ command'.op = command.op /\ command'.step = "remove stack"
          /\ command'.credentials = command.credentials
      BY <2>4, MovesOn DEF Step
    <3>2. held.installed => "own" \notin github'.markers
      BY <1>0, <2>4 DEF InstallAccounts, Released, GitHubType
    <3>3. Reachable(receipt)' /\ Reachable(held)'
      BY <1>0, <2>1, <2>2, <2>4 DEF Reachable, records
    <3>4. InstallAccounts'
      BY <1>0, <2>1, <2>4, <3>1, <3>2 DEF InstallAccounts, Forward, records
    <3> QED
      BY <1>0, <1>50, <2>1, <3>1, <3>3, <3>4, InstallGoesOnAccounted
  <2> QED
    BY <1>11, <2>3, <2>4 DEF Release
<1>12. CASE RemoveStack
  <2>1. command.step = "remove stack" /\ UNCHANGED github
    BY <1>12 DEF RemoveStack, At
  <2>2. SecretsOfAWorker' /\ (stack'.secrets => stack.secrets)
    BY <1>12, RemovedSecrets DEF RemoveStack
  <2>3. CASE Over(receipt)
    BY <1>51, <2>1, <2>2, <2>3
  <2>4. CASE Removed /\ Goto("remove image") /\ UNCHANGED records
    <3>1. /\ command'.op = command.op /\ command'.step = "remove image"
          /\ command'.credentials = command.credentials
      BY <2>4, MovesOn DEF Step
    <3>2. Reachable(receipt)' /\ Reachable(held)'
      BY <1>0, <2>1, <2>2, <2>4 DEF Reachable, records
    <3>3. InstallAccounts'
      BY <1>0, <2>1, <2>4, <3>1 DEF InstallAccounts, Forward, records, Removed
    <3> QED
      BY <1>0, <2>2, <3>1, <3>2, <3>3, InstallGoesOnAccounted
  <2> QED
    BY <1>12, <2>3, <2>4 DEF RemoveStack
<1>13. CASE RemoveImage
  <2>1. command.step = "remove image" /\ UNCHANGED <<stack, github>>
    BY <1>13 DEF RemoveImage, At
  <2>2. CASE Over(receipt)
    BY <1>50, <1>51, <2>1, <2>2
  <2>3. CASE registry' = registry \ InstalledImage /\ Goto("delete app") /\ UNCHANGED records
    <3>1. /\ command'.op = command.op /\ command'.step = "delete app"
          /\ command'.credentials = command.credentials
      BY <2>3, MovesOn DEF Step
    <3>2. held.application => held.tags.current \notin registry'
      BY <2>3 DEF InstalledImage
    <3>3. Reachable(receipt)' /\ Reachable(held)'
      BY <1>0, <2>1, <2>3 DEF Reachable, records
    <3>4. InstallAccounts'
      BY <1>0, <2>1, <2>3, <3>1, <3>2 DEF InstallAccounts, Forward, records
    <3> QED
      BY <1>0, <1>50, <2>1, <3>1, <3>3, <3>4, InstallGoesOnAccounted
  <2> QED
    BY <1>13, <2>2, <2>3 DEF RemoveImage
<1>14. CASE DeletePartialApp
  <2>1. command.step = "delete app" /\ UNCHANGED <<stack, registry>> /\ stack = NoStack
    BY <1>0, <1>14 DEF DeletePartialApp, At, InstallAccounts
  <2>2. CASE Over(receipt) /\ UNCHANGED github
    BY <1>50, <1>51, <2>1, <2>2
  <2>3. CASE /\ Goto("delete receipt") /\ UNCHANGED records
             /\ github' = IF command.credentials THEN [NewApp EXCEPT !.app = FALSE] ELSE github
    <3>1. /\ command'.op = command.op /\ command'.step = "delete receipt"
          /\ command'.credentials = command.credentials
      BY <2>3, MovesOn DEF Step
    <3>2. /\ github'.markers = github.markers
          /\ command.credentials => ~github'.app /\ ~github'.installed
      BY <2>3 DEF NewApp
    <3>3. ~stack'.secrets
      BY <2>1 DEF NoStack
    <3>4. Reachable(receipt)' /\ Reachable(held)'
      BY <3>3 DEF Reachable
    <3>5. InstallAccounts'
      BY <1>0, <2>1, <2>3, <3>1, <3>2 DEF InstallAccounts, Forward, records
    <3> QED
      BY <1>0, <1>50, <2>1, <3>1, <3>4, <3>5, InstallGoesOnAccounted
  <2> QED
    BY <1>14, <2>2, <2>3 DEF DeletePartialApp
<1>15. CASE DeletePartialReceipt
  <2>1. UNCHANGED <<stack, github>>
    BY <1>15 DEF DeletePartialReceipt, resources
  <2>2. CASE Over(receipt)
    BY <1>50, <1>51, <2>1, <2>2
  <2>3. CASE Over(NoReceipt)
    BY <1>50, <2>1, <2>3, EndAccounts
  <2> QED
    BY <1>15, <2>2, <2>3 DEF DeletePartialReceipt
<1>16. CASE BeginInstall \/ BeginAdopt
  BY <1>0, <1>16 DEF BeginInstall, BeginAdopt, CanBegin
<1>17. CASE DeployOver \/ RecordAdopted \/ Inventory \/ ClaimMissing \/ FinishAdopt \/ LeaveInstalling
  BY <1>0, <1>17
  DEF DeployOver, RecordAdopted, Inventory, ClaimMissing, FinishAdopt, LeaveInstalling, At
<1> QED
  BY <1>1, <1>2, <1>3, <1>4, <1>5, <1>6, <1>7, <1>8, <1>9, <1>10, <1>11, <1>12, <1>13, <1>14,
     <1>15, <1>16, <1>17
  DEF InstallStep

LEMMA FreshAccounts ==
  ASSUME NEW v \in Version
  PROVE  /\ FreshReceipt(v) \in Receipt
         /\ [FreshReceipt(v) EXCEPT !.application = TRUE] \in Receipt
         /\ ~FreshReceipt(v).installed /\ ~[FreshReceipt(v) EXCEPT !.application = TRUE].installed
<1>1. FreshReceipt(v) \in Receipt
  BY DEF FreshReceipt, Receipt, Phase, Versions, Tags, Tag
<1> QED
  BY <1>1 DEF FreshReceipt, Receipt

\* An install or an adoption that makes a receipt.
LEMMA CreatedAccounts ==
  ASSUME Typed, Accounted, command = Idle, receipt = NoReceipt, UNCHANGED <<stack, github>>,
         NEW v \in Version,
         \/ Creates(FreshReceipt(v), "install", "bootstrap")
         \/ Creates([FreshReceipt(v) EXCEPT !.application = TRUE], "adopt", "deploy over")
  PROVE  Accounted'
<1>1. SecretsOfAWorker'
  BY DEF Accounted, SecretsOfAWorker
<1>2. CASE Creates(FreshReceipt(v), "install", "bootstrap")
  <2>1. CASE Over(receipt) \/ Over(FreshReceipt(v))
    BY <1>1, <2>1, FreshAccounts, EndAccounts
  <2>2. CASE /\ receipt' = FreshReceipt(v) /\ held' = FreshReceipt(v)
             /\ command' = [Idle EXCEPT !.op = "install", !.step = "bootstrap", !.target = v]
    <3>1. command'.op = "install" /\ command'.step = "bootstrap"
      BY <2>2 DEF Idle
    <3>2. Reachable(receipt)' /\ Reachable(held)'
      BY <2>2, FreshAccounts DEF Reachable
    <3>3. InstallAccounts'
      BY <2>2, <3>1 DEF InstallAccounts, FreshReceipt
    <3> QED
      BY <1>1, <3>1, <3>2, <3>3, InstallGoesOnAccounted
  <2> QED
    BY <1>2, <2>1, <2>2 DEF Creates, FreshReceipt
<1>3. CASE Creates([FreshReceipt(v) EXCEPT !.application = TRUE], "adopt", "deploy over")
  <2> DEFINE new == [FreshReceipt(v) EXCEPT !.application = TRUE]
  <2>1. CASE Over(receipt) \/ Over(new)
    BY <1>1, <2>1, FreshAccounts, EndAccounts
  <2>2. CASE receipt' = new /\ held' = new /\ ~(Over(receipt) \/ Over(new))
    <3>1. command'.op = "adopt" /\ command'.step = "deploy over"
      BY <1>3, <2>2 DEF Creates, Idle
    <3>2. Reachable(receipt)' /\ Reachable(held)'
      BY <2>2, FreshAccounts DEF Reachable
    <3> QED
      BY <1>1, <3>1, <3>2 DEF Accounted, InstallAccounts, AdoptAccounts, DestroyAccounts
  <2> QED
    BY <1>3, <2>1, <2>2 DEF Creates
<1> QED
  BY <1>2, <1>3

LEMMA BeginsAccounted ==
  ASSUME Typed, Accounted, BeginInstall \/ BeginAdopt
  PROVE  Accounted'
<1>1. UNCHANGED <<stack, github>> /\ command = Idle
  BY DEF BeginInstall, BeginAdopt, resources, CanBegin
<1>2. CASE BeginInstall
  BY <1>1, <1>2, CreatedAccounts DEF BeginInstall
<1>3. CASE BeginAdopt
  <2>1. PICK v \in Version :
          \/ /\ receipt = NoReceipt
             /\ Creates([FreshReceipt(v) EXCEPT !.application = TRUE], "adopt", "deploy over")
          \/ /\ CanBegin /\ Acquire("installing")
             /\ command' = [Idle EXCEPT !.op = "adopt", !.step = "deploy over", !.target = v]
    BY <1>3 DEF BeginAdopt
  <2>2. CASE CanBegin /\ Acquire("installing")
             /\ command' = [Idle EXCEPT !.op = "adopt", !.step = "deploy over", !.target = v]
    <3>1. command'.op = "adopt" /\ command'.step = "deploy over"
      BY <2>2 DEF Idle
    <3> QED
      BY <1>1, <2>2, <3>1, BeginAccounts DEF Phase, Operation
  <2> QED
    BY <1>1, <2>1, <2>2, CreatedAccounts
<1> QED
  BY <1>2, <1>3

\* finish, with or without effect.
LEMMA SettledAccounts ==
  ASSUME Typed, Accounted, NEW phase \in Phase, UNCHANGED <<stack, github>>,
         SettleAndEnd(phase) \/ Over(receipt) \/ (receipt # NoReceipt /\ Over(Settled(phase)))
  PROVE  Accounted'
<1>1. SecretsOfAWorker' /\ Reachable(receipt) /\ receipt \in Receipt \cup {NoReceipt}
  BY DEF Accounted, SecretsOfAWorker, Typed, RecordsOK
<1>2. Over(receipt) \/ (receipt # NoReceipt /\ Over(Settled(phase)))
  BY DEF SettleAndEnd, LeaseHeld
<1>3. CASE Over(receipt)
  BY <1>1, <1>3, EndAccounts DEF Reachable
<1>4. CASE receipt # NoReceipt /\ Over(Settled(phase))
  <2>1. Settled(phase) \in Receipt /\ Settled(phase).installed = receipt.installed
    BY <1>1, <1>4, SettledTyped
  <2> QED
    BY <1>1, <1>4, <2>1, EndAccounts DEF Reachable
<1> QED
  BY <1>2, <1>3, <1>4

LEMMA AdoptGoesOnAccounted ==
  ASSUME command'.op = "adopt", SecretsOfAWorker', Reachable(receipt)', Reachable(held)',
         AdoptAccounts'
  PROVE  Accounted'
BY DEF Accounted, InstallAccounts, DestroyAccounts

LEMMA AdoptStepAccounts ==
  ASSUME Typed, Accounted, command.op = "adopt", InstallStep
  PROVE  Accounted'
<1>0. /\ receipt \in Receipt /\ held \in Receipt /\ receipt # NoReceipt /\ held # NoReceipt
      /\ command.target \in Version /\ command.target # None /\ command \in CommandType
      /\ github \in GitHubType
      /\ AdoptAccounts /\ Reachable(receipt) /\ Reachable(held) /\ SecretsOfAWorker
      /\ command.op # "none" /\ Idle.op = "none"
  BY NamesDiffer, VersionsNamed, IdleTyped
  DEF Typed, CommandOK, RecordsOK, ResourcesOK, Accounted
<1>50. UNCHANGED stack => SecretsOfAWorker'
  BY <1>0 DEF SecretsOfAWorker
\* A step to another place than "ownership".
<1>51. ASSUME NEW s \in Step \ {"ownership"}, Goto(s), SecretsOfAWorker',
              Reachable(receipt)', Reachable(held)'
       PROVE  Accounted'
  <2>1. command'.op = "adopt" /\ command'.step = s
    BY <1>0, <1>51, MovesOn
  <2> QED
    BY <1>51, <2>1, AdoptGoesOnAccounted DEF AdoptAccounts
<1>1. CASE DeployOver
  <2>1. UNCHANGED <<github, receipt, held>>
    BY <1>1 DEF DeployOver, records
  <2>2. \/ DeployedTo(command.target, stack.secrets)
        \/ PartlyDeployedTo(command.target, stack.secrets)
    BY <1>1 DEF DeployOver
  <2>3. SecretsOfAWorker' /\ (stack'.secrets => stack.secrets)
    BY <1>0, <2>2, DeployedSecrets
  <2>4. Reachable(receipt)' /\ Reachable(held)'
    BY <1>0, <2>1, <2>3 DEF Reachable
  <2>5. Goto("record adopted") \/ Goto("leave installing")
    BY <1>1 DEF DeployOver
  <2> QED
    BY <1>51, <2>3, <2>4, <2>5 DEF Step
<1>2. CASE RecordAdopted
  <2> DEFINE new == [receipt EXCEPT !.application = TRUE,
                                    !.tags = [current |-> command.target, previous |-> None]]
  <2>1. UNCHANGED <<stack, github>> /\ Record(new, "inventory", "leave installing")
    BY <1>2 DEF RecordAdopted, resources
  <2>2. new.installed = receipt.installed
    BY <1>0 DEF Receipt
  <2> HIDE DEF new
  <2>3. /\ receipt' \in {receipt, new} /\ held' \in {held, receipt'}
        /\ Goto("inventory") \/ Goto("leave installing")
    BY <2>1 DEF Record
  <2>4. Reachable(receipt)' /\ Reachable(held)'
    <3>1. receipt'.installed = receipt.installed
      BY <2>2, <2>3
    <3>2. Reachable(receipt)'
      BY <1>0, <2>1, <3>1 DEF Reachable
    <3> QED
      BY <1>0, <2>1, <2>3, <3>2 DEF Reachable
  <2> QED
    BY <1>50, <1>51, <2>1, <2>3, <2>4 DEF Step
<1>3. CASE Inventory
  <2> DEFINE new == [receipt EXCEPT !.app = TRUE, !.installed = github.installed]
  <2>1. UNCHANGED <<stack, github>> /\ Record(new, "ownership", "leave installing")
    BY <1>3 DEF Inventory, resources
  <2>2. new.installed = github.installed
    BY <1>0 DEF Receipt
  <2> HIDE DEF new
  <2>3. CASE receipt' = new /\ held' = new /\ Goto("ownership")
    <3>1. command'.op = "adopt" /\ command'.step = "ownership"
      BY <1>0, <2>3, MovesOn DEF Step
    <3>2. Reachable(receipt)' /\ Reachable(held)'
      BY <2>1, <2>2, <2>3 DEF Reachable
    <3>3. AdoptAccounts'
      BY <2>1, <2>2, <2>3 DEF AdoptAccounts
    <3> QED
      BY <1>50, <2>1, <3>1, <3>2, <3>3, AdoptGoesOnAccounted
  <2>4. CASE receipt' \in {receipt, new} /\ held' = held /\ Goto("leave installing")
    <3>1. Reachable(receipt)'
      BY <1>0, <2>1, <2>2, <2>4 DEF Reachable
    <3>2. Reachable(held)'
      BY <1>0, <2>1, <2>4 DEF Reachable
    <3> QED
      BY <1>50, <1>51, <2>1, <2>4, <3>1, <3>2 DEF Step
  <2> QED
    BY <2>1, <2>3, <2>4 DEF Record
<1>4. CASE ClaimMissing
  <2>1. command.step = "ownership" /\ UNCHANGED <<stack, receipt, held>>
    BY <1>4 DEF ClaimMissing, At, records
  <2>2. github' \in {github, Marked} /\ (Goto("finish") \/ Goto("leave installing"))
    BY <1>4 DEF ClaimMissing
  <2>3. github'.installed = github.installed
    BY <1>0, <2>2 DEF Marked, GitHubType
  <2>4. receipt = held /\ (held.installed => github.installed)
    BY <1>0, <2>1 DEF AdoptAccounts
  <2>5. Reachable(receipt)' /\ Reachable(held)'
    BY <2>1, <2>3, <2>4 DEF Reachable
  <2> QED
    BY <1>50, <1>51, <2>1, <2>2, <2>5 DEF Step
<1>5. CASE FinishAdopt
  <2>1. UNCHANGED <<stack, github>>
    BY <1>5 DEF FinishAdopt, resources
  <2>2. Settled("active") \in Receipt /\ Settled("active").installed = receipt.installed
    BY <1>0, SettledTyped DEF Phase
  <2>3. CASE Over(Settled("active"))
    BY <1>0, <2>1, <2>3, SettledAccounts DEF Phase
  <2>4. CASE receipt' \in {receipt, Settled("active")} /\ held' = held /\ Goto("leave installing")
    <3>1. receipt'.installed = receipt.installed
      BY <2>2, <2>4
    <3>2. Reachable(receipt)' /\ Reachable(held)'
      BY <1>0, <2>1, <2>4, <3>1 DEF Reachable
    <3> QED
      BY <1>50, <1>51, <2>1, <2>4, <3>2 DEF Step
  <2> QED
    BY <1>5, <2>3, <2>4 DEF FinishAdopt
<1>6. CASE LeaveInstalling
  BY <1>6, SettledAccounts DEF LeaveInstalling, resources, Phase
<1>7. CASE BeginInstall \/ BeginAdopt
  BY <1>7, BeginsAccounted
<1>8. CASE ~(DeployOver \/ RecordAdopted \/ Inventory \/ ClaimMissing \/ FinishAdopt
             \/ LeaveInstalling \/ BeginInstall \/ BeginAdopt)
  BY <1>0, <1>8
  DEF InstallStep, Bootstrap, RecordStack, CreateApp, RecordApp, Configure, InstallApp,
      RecordInstallations, Claim, CheckHealth, FinishInstall, Release, RemoveStack, RemoveImage,
      DeletePartialApp, DeletePartialReceipt, At
<1> QED
  BY <1>1, <1>2, <1>3, <1>4, <1>5, <1>6, <1>7, <1>8

\* A plan to repair is made and dropped whatever command runs.
BesideStep == PlanRepair \/ DropPlan

LEMMA BesideAccounts ==
  ASSUME Accounted, BesideStep
  PROVE  Accounted'
<1>1. UNCHANGED <<stack, github, receipt, held, command>> /\ registry' = registry
  BY DEF BesideStep, PlanRepair, DropPlan, resources, records
<1> QED
  BY <1>1, AccountedKept

LEMMA DestroyGoesOnAccounted ==
  ASSUME command'.op = "destroy", SecretsOfAWorker', Reachable(receipt)', Reachable(held)',
         DestroyAccounts'
  PROVE  Accounted'
BY DEF Accounted, InstallAccounts, AdoptAccounts

LEMMA DestroyStepAccounts ==
  ASSUME Typed, Accounted, command.op = "destroy", TeardownStep
  PROVE  Accounted'
<1>0. /\ receipt \in Receipt \cup {NoReceipt} /\ held \in Receipt /\ held # NoReceipt
      /\ command.step # "give up" => receipt # NoReceipt
      /\ command \in CommandType /\ stack \in StackType
      /\ github \in GitHubType
      /\ DestroyAccounts /\ Reachable(receipt) /\ Reachable(held) /\ SecretsOfAWorker
      /\ command.op # "none" /\ Idle.op = "none"
  BY NamesDiffer, IdleTyped DEF Typed, CommandOK, RecordsOK, ResourcesOK, Accounted
<1>50. UNCHANGED stack => SecretsOfAWorker'
  BY <1>0 DEF SecretsOfAWorker
\* A step that gives up.
<1>51. ASSUME Goto("give up"), SecretsOfAWorker', UNCHANGED <<receipt, held>>, Reachable(held)'
       PROVE  Accounted'
  <2>1. command'.op = "destroy" /\ command'.step = "give up"
    BY <1>0, <1>51, MovesOn DEF Step
  <2>2. Reachable(receipt)'
    BY <1>0, <1>51 DEF Reachable, DestroyAccounts
  <2>3. DestroyAccounts'
    BY <1>0, <1>51, <2>1 DEF DestroyAccounts
  <2> QED
    BY <1>51, <2>1, <2>2, <2>3, DestroyGoesOnAccounted
\* A step that leaves the records alone and goes on.
<1>52. ASSUME command'.op = "destroy", SecretsOfAWorker', UNCHANGED <<receipt, held>>,
              Reachable(held)', DestroyAccounts'
       PROVE  Accounted'
  <2>1. Reachable(receipt)'
    BY <1>0, <1>52 DEF Reachable, DestroyAccounts
  <2> QED
    BY <1>52, <2>1, DestroyGoesOnAccounted
<1>1. CASE SuspendAll
  <2>1. command.step = "suspend" /\ UNCHANGED <<stack, receipt, held>>
        /\ github'.installed = github.installed /\ github'.markers = github.markers
    BY <1>0, <1>1, GitHubFields DEF SuspendAll, Locks, At, records
  <2>2. Reachable(held)'
    BY <1>0, <2>1 DEF Reachable
  <2>3. CASE Answers /\ Goto("drain")
    <3>1. command'.op = "destroy" /\ command'.step = "drain"
      BY <1>0, <2>3, MovesOn DEF Step
    <3>2. DestroyAccounts'
      BY <1>0, <2>1, <2>3, <3>1 DEF DestroyAccounts, Answers
    <3> QED
      BY <1>50, <1>52, <2>1, <2>2, <3>1, <3>2
  <2> QED
    BY <1>1, <1>50, <1>51, <2>1, <2>2, <2>3 DEF SuspendAll
<1>2. CASE DrainAll
  <2>1. command.step = "drain" /\ UNCHANGED <<stack, github, receipt, held>>
    BY <1>2 DEF DrainAll, At, records, resources
  <2>2. Reachable(held)'
    BY <1>0, <2>1 DEF Reachable
  <2>3. CASE Goto("delete ownership")
    <3>1. command'.op = "destroy" /\ command'.step = "delete ownership"
      BY <1>0, <2>3, MovesOn DEF Step
    <3>2. DestroyAccounts'
      BY <1>0, <2>1, <3>1 DEF DestroyAccounts, Answers
    <3> QED
      BY <1>50, <1>52, <2>1, <2>2, <3>1, <3>2
  <2> QED
    BY <1>2, <1>50, <1>51, <2>1, <2>2, <2>3 DEF DrainAll
<1>3. CASE DeleteOwnership
  <2> DEFINE after == {Unmarked, Locked(Unmarked), Unlocked(Unmarked)}
  <2>1. /\ command.step = "delete ownership" /\ UNCHANGED <<stack, receipt, held>> /\ Answers
        /\ github' \in {github, Unlocked(github)} \cup after
    BY <1>0, <1>3 DEF DeleteOwnership, At, records, DestroyAccounts
  <2>10. /\ Unmarked \in GitHubType /\ Unmarked.installed = github.installed
         /\ Unmarked.markers = IF github.installed THEN github.markers \ {"own"} ELSE github.markers
    BY <1>0 DEF Unmarked, GitHubType
  <2>11. \A g \in after : g.installed = github.installed /\ g.markers = Unmarked.markers
    BY <2>10, GitHubFields
  <2> HIDE DEF after
  <2>2. /\ github'.installed = github.installed
        /\ "own" \in github'.markers => "own" \in github.markers
    <3>1. Unlocked(github).installed = github.installed /\ Unlocked(github).markers = github.markers
      BY <1>0, GitHubFields
    <3> QED
      BY <2>1, <2>10, <2>11, <3>1
  <2>3. Reachable(held)'
    BY <1>0, <2>1, <2>2 DEF Reachable
  <2>4. CASE stack.worker # None /\ github' \in after /\ Goto("delete installations")
    <3>1. command'.op = "destroy" /\ command'.step = "delete installations"
      BY <1>0, <2>4, MovesOn DEF Step
    <3>2. held.installed => "own" \notin github'.markers
      <4>1. CASE github.installed
        BY <2>4, <2>10, <2>11, <4>1
      <4>2. CASE ~github.installed
        <5>1. stack.secrets
          BY <2>1, <2>4 DEF Answers
        <5>2. held.installed => "own" \notin github.markers
          BY <1>0, <4>2, <5>1 DEF Reachable
        <5> QED
          BY <2>2, <5>2
      <4> QED
        BY <4>1, <4>2
    <3>3. DestroyAccounts'
      BY <1>0, <2>1, <2>4, <3>1, <3>2 DEF DestroyAccounts
    <3> QED
      BY <1>50, <1>52, <2>1, <2>3, <3>1, <3>3
  <2>5. CASE stack.worker = None
             /\ command' = [command EXCEPT !.step = "delete installations", !.residue = {"marker"}]
    <3>1. /\ command'.op = "destroy" /\ command'.step = "delete installations"
          /\ command'.residue # {}
      BY <1>0, <2>5 DEF CommandType
    <3>2. DestroyAccounts'
      BY <1>0, <2>1, <2>5, <3>1 DEF DestroyAccounts
    <3> QED
      BY <1>50, <1>52, <2>1, <2>3, <3>1, <3>2
  <2>6. CASE Goto("give up")
    BY <1>50, <1>51, <2>1, <2>3, <2>6
  <2> QED
    BY <1>3, <2>4, <2>5, <2>6 DEF DeleteOwnership, after
<1>4. CASE DeleteInstallations
  <2>1. /\ command.step = "delete installations" /\ UNCHANGED <<stack, receipt, held>>
        /\ github' \in {github, Uninstalled}
    BY <1>4 DEF DeleteInstallations, At, records
  <2>2. /\ github'.markers = github.markers /\ github'.app = github.app
        /\ stack.worker = None => github' = github
        /\ stack.worker # None /\ github' = Uninstalled => ~github'.installed
    BY <1>0, <2>1, GitHubFields DEF Uninstalled
  <2>3. Reachable(held)'
    <3>1. CASE stack.worker = None
      BY <1>0, <2>1, <2>2, <3>1 DEF Reachable
    <3>2. CASE stack.worker # None
      BY <1>0, <2>1, <2>2, <3>2 DEF Reachable, DestroyAccounts
    <3> QED
      BY <3>1, <3>2
  <2>4. CASE github' = Uninstalled /\ Goto("delete app")
    <3>1. /\ command'.op = "destroy" /\ command'.step = "delete app"
          /\ command'.residue = command.residue
      BY <1>0, <2>4, MovesOn DEF Step
    <3>2. DestroyAccounts'
      BY <1>0, <2>1, <2>2, <2>4, <3>1 DEF DestroyAccounts
    <3> QED
      BY <1>50, <1>52, <2>1, <2>3, <3>1, <3>2
  <2>5. CASE Goto("give up")
    BY <1>50, <1>51, <2>1, <2>3, <2>5
  <2> QED
    BY <1>4, <2>4, <2>5 DEF DeleteInstallations
<1>5. CASE DeleteApp
  <2>1. command.step = "delete app" /\ UNCHANGED <<stack, receipt, held>>
    BY <1>5 DEF DeleteApp, At, records
  <2>2. CASE UNCHANGED github /\ Goto("give up")
    <3>1. Reachable(held)'
      BY <1>0, <2>1, <2>2 DEF Reachable
    <3> QED
      BY <1>50, <1>51, <2>1, <2>2, <3>1
  <2>3. CASE /\ Goto("destroy stack")
             /\ \/ ~held.app /\ UNCHANGED github
                \/ held.app /\ github' = [Gone(github) EXCEPT !.app = FALSE]
    <3>1. /\ command'.op = "destroy" /\ command'.step = "destroy stack"
          /\ command'.residue = command.residue
      BY <1>0, <2>3, MovesOn DEF Step
    <3>2. /\ github'.markers = github.markers /\ (github'.installed => github.installed)
          /\ held.app => ~github'.app
          /\ github'.installed = github.installed \/ ~github'.installed
      <4>1. /\ Gone(github) \in GitHubType /\ ~Gone(github).installed
            /\ Gone(github).markers = github.markers
        BY <1>0, GitHubFields
      <4>2. /\ ~[Gone(github) EXCEPT !.app = FALSE].app
            /\ ~[Gone(github) EXCEPT !.app = FALSE].installed
            /\ [Gone(github) EXCEPT !.app = FALSE].markers = github.markers
        BY <4>1 DEF GitHubType
      <4> QED
        BY <2>3, <4>2
    <3>3. Reachable(held)'
      <4>1. CASE github' = github
        BY <1>0, <2>1, <4>1 DEF Reachable
      <4>2. CASE github' # github
        <5>1. held.installed => ~stack.secrets \/ "own" \notin github.markers
          BY <1>0, <2>1 DEF DestroyAccounts, SecretsOfAWorker
        <5> QED
          BY <2>1, <3>2, <5>1 DEF Reachable
      <4> QED
        BY <4>1, <4>2
    <3>4. DestroyAccounts'
      BY <1>0, <2>1, <3>1, <3>2 DEF DestroyAccounts
    <3> QED
      BY <1>50, <1>52, <2>1, <3>1, <3>3, <3>4
  <2> QED
    BY <1>5, <2>2, <2>3 DEF DeleteApp
<1>6. CASE DestroyStack
  <2>1. command.step = "destroy stack" /\ UNCHANGED <<github, receipt, held>>
    BY <1>6 DEF DestroyStack, At, records
  <2>2. SecretsOfAWorker' /\ (stack'.secrets => stack.secrets)
    BY <1>6, RemovedSecrets DEF DestroyStack
  <2>3. Reachable(held)'
    BY <1>0, <2>1, <2>2 DEF Reachable
  <2>4. CASE Removed /\ Goto("prune")
    <3>1. /\ command'.op = "destroy" /\ command'.step = "prune"
          /\ command'.residue = command.residue
      BY <1>0, <2>4, MovesOn DEF Step
    <3>2. DestroyAccounts'
      BY <1>0, <2>1, <2>4, <3>1 DEF DestroyAccounts, Removed
    <3> QED
      BY <1>52, <2>1, <2>2, <2>3, <3>1, <3>2
  <2>5. CASE Goto("give up")
    BY <1>51, <2>1, <2>2, <2>3, <2>5
  <2> QED
    BY <1>6, <2>4, <2>5 DEF DestroyStack
<1>7. CASE PruneAll
  <2>1. command.step = "prune" /\ UNCHANGED <<stack, github, receipt, held>>
    BY <1>7 DEF PruneAll, At, records
  <2>2. Reachable(held)'
    BY <1>0, <2>1 DEF Reachable
  <2>3. CASE Goto("verify")
    <3>1. /\ command'.op = "destroy" /\ command'.step = "verify"
          /\ command'.residue = command.residue
      BY <1>0, <2>3, MovesOn DEF Step
    <3>2. DestroyAccounts'
      BY <1>0, <2>1, <3>1 DEF DestroyAccounts
    <3> QED
      BY <1>50, <1>52, <2>1, <2>2, <3>1, <3>2
  <2>4. CASE Goto("give up")
    BY <1>50, <1>51, <2>1, <2>2, <2>4
  <2> QED
    BY <1>7, <2>3, <2>4 DEF PruneAll
<1>8. CASE Verify
  <2>1. command.step = "verify" /\ UNCHANGED <<stack, registry, github, receipt, held>>
    BY <1>8 DEF Verify, At, records, resources
  <2>2. Reachable(held)'
    BY <1>0, <2>1 DEF Reachable
  <2>3. ASSUME NEW shown,
               command' = [command EXCEPT !.step = "settle", !.residue = ResidueSeen(shown)]
        PROVE  Accounted'
    <3>1. /\ command'.op = "destroy" /\ command'.step = "settle"
          /\ command'.residue = ResidueSeen(shown)
      BY <1>0, <2>3 DEF CommandType
    <3>2. ResidueSeen(shown) = {} =>
            command.residue = {} /\ RecordedTags(held.tags) \cap registry = {}
      BY DEF ResidueSeen
    <3>3. RecordedTags(held.tags)' = RecordedTags(held.tags)
      BY <2>1 DEF RecordedTags
    <3> HIDE DEF ResidueSeen
    <3>4. DestroyAccounts'
      BY <1>0, <2>1, <3>1, <3>2, <3>3 DEF DestroyAccounts
    <3> QED
      BY <1>50, <1>52, <2>1, <2>2, <3>1, <3>4
  <2>4. CASE Goto("give up")
    BY <1>50, <1>51, <2>1, <2>2, <2>4
  <2> QED
    BY <1>8, <2>3, <2>4 DEF Verify
<1>9. CASE Settle
  <2> DEFINE done == IF command.residue = {} THEN NoReceipt
                     ELSE [Settled("destroying") EXCEPT !.residue = command.residue]
  <2>1. /\ command.step = "settle" /\ UNCHANGED <<stack, github>> /\ receipt # NoReceipt
        /\ \/ Over(done)
           \/ receipt' \in {receipt, done} /\ held' = held /\ Goto("give up")
    BY <1>0, <1>9 DEF Settle, At, resources
  <2>2. /\ done \in Receipt \cup {NoReceipt}
        /\ done # NoReceipt => done.installed = receipt.installed
    <3>1. receipt \in Receipt /\ command.residue \in SUBSET Residue
      BY <1>0, <2>1 DEF CommandType
    <3>2. Settled("destroying") \in Receipt /\ Settled("destroying").installed = receipt.installed
      BY <3>1, SettledTyped DEF Phase
    <3> QED
      BY <3>1, <3>2 DEF Receipt
  <2> HIDE DEF done
  <2>3. CASE Over(done)
    BY <1>0, <1>50, <2>1, <2>2, <2>3, EndAccounts DEF Reachable
  <2>4. CASE receipt' \in {receipt, done} /\ held' = held /\ Goto("give up")
    <3>1. command'.op = "destroy" /\ command'.step = "give up"
      BY <1>0, <2>4, MovesOn DEF Step
    <3>2. receipt' # NoReceipt => receipt'.installed = receipt.installed
      BY <2>2, <2>4
    <3>3. Reachable(receipt)' /\ Reachable(held)'
      BY <1>0, <2>1, <2>4, <3>2 DEF Reachable
    <3>4. DestroyAccounts'
      BY <1>0, <2>1, <2>4, <3>1, <3>2 DEF DestroyAccounts
    <3> QED
      BY <1>50, <2>1, <3>1, <3>3, <3>4, DestroyGoesOnAccounted
  <2> QED
    BY <2>1, <2>3, <2>4
<1>10. CASE GiveUp
  BY <1>10, SettledAccounts DEF GiveUp, resources, Phase
<1>11. CASE BesideStep
  BY <1>11, BesideAccounts
<1>12. CASE ~(SuspendAll \/ DrainAll \/ DeleteOwnership \/ DeleteInstallations \/ DeleteApp
              \/ DestroyStack \/ PruneAll \/ Verify \/ Settle \/ GiveUp \/ BesideStep)
  BY <1>0, <1>12
  DEF TeardownStep, BesideStep, BeginDestroy, ReleaseExpired, BeginRepair, RecordApplication,
      RewriteOwnership, FinishRepair, GiveUpRepair, At, CanBegin
<1> QED
  BY <1>1, <1>2, <1>3, <1>4, <1>5, <1>6, <1>7, <1>8, <1>9, <1>10, <1>11, <1>12

LEMMA RepairStepAccounts ==
  ASSUME Typed, Accounted, command.op = "repair", TeardownStep
  PROVE  Accounted'
<1>0. /\ receipt \in Receipt /\ receipt # NoReceipt /\ command.op # "none" /\ Idle.op = "none"
      /\ github \in GitHubType
  BY NamesDiffer, IdleTyped DEF Typed, RecordsOK, ResourcesOK
<1>1. UNCHANGED stack => SecretsOfAWorker'
  BY DEF Accounted, SecretsOfAWorker
\* A step that writes what says the same of installations, or nothing.
<1>2. ASSUME NEW s \in Step, Goto(s), UNCHANGED <<stack, github>>, receipt' # NoReceipt,
             receipt'.installed = receipt.installed, held' \in {held, receipt'}
      PROVE  Accounted'
  <2>1. command'.op = "repair"
    BY <1>2, MovesOn
  <2> QED
    BY <1>0, <1>1, <1>2, <2>1, OtherAccounts
<1>3. CASE RecordApplication
  <2> DEFINE new == [receipt EXCEPT !.application = TRUE]
  <2>1. /\ UNCHANGED <<stack, github>>
        /\ Record(new, IF plan.ownership THEN "rewrite ownership" ELSE "finish", "give up")
    BY <1>3 DEF RecordApplication, resources
  <2>2. new \in Receipt /\ new.installed = receipt.installed
    BY <1>0 DEF Receipt
  <2> HIDE DEF new
  <2>3. /\ receipt' \in {receipt, new} /\ held' \in {held, receipt'}
        /\ \/ Goto("rewrite ownership") \/ Goto("finish") \/ Goto("give up")
    BY <2>1 DEF Record
  <2>4. receipt' # NoReceipt /\ receipt'.installed = receipt.installed
    BY <1>0, <2>2, <2>3, NamesDiffer
  <2> QED
    BY <1>2, <2>1, <2>3, <2>4 DEF Step
<1>4. CASE RewriteOwnership
  <2>1. UNCHANGED <<stack, receipt, held>> /\ github' \in {github, Rewritten}
        /\ \E s \in Step : Goto(s)
    BY <1>4 DEF RewriteOwnership, records, Step
  <2>2. /\ github'.installed = github.installed
        /\ "own" \in github'.markers => "own" \in github.markers \/ github'.installed
    BY <1>0, <2>1 DEF Rewritten, GitHubType
  <2>3. command'.op = "repair"
    BY <2>1, MovesOn
  <2> QED
    BY <1>0, <1>1, <2>1, <2>2, <2>3, OtherAccounts
<1>5. CASE FinishRepair
  <2>1. UNCHANGED <<stack, github>>
    BY <1>5 DEF FinishRepair, resources
  <2>2. CASE Over(Settled("active"))
    BY <1>0, <2>1, <2>2, SettledAccounts DEF Phase
  <2>3. CASE receipt' \in {receipt, Settled("active")} /\ held' = held /\ Goto("give up")
    <3>1. Settled("active") \in Receipt /\ Settled("active").installed = receipt.installed
      BY <1>0, SettledTyped DEF Phase
    <3>2. receipt' # NoReceipt /\ receipt'.installed = receipt.installed
      BY <1>0, <2>3, <3>1, NamesDiffer
    <3> QED
      BY <1>2, <2>1, <2>3, <3>2 DEF Step
  <2> QED
    BY <1>5, <2>2, <2>3 DEF FinishRepair
<1>6. CASE GiveUpRepair
  BY <1>6, SettledAccounts DEF GiveUpRepair, resources, Phase
<1>7. CASE BesideStep
  BY <1>7, BesideAccounts
<1>8. CASE ~(RecordApplication \/ RewriteOwnership \/ FinishRepair \/ GiveUpRepair \/ BesideStep)
  BY <1>0, <1>8
  DEF TeardownStep, BesideStep, BeginDestroy, SuspendAll, DrainAll, DeleteOwnership,
      DeleteInstallations, DeleteApp, DestroyStack, PruneAll, Verify, Settle, GiveUp,
      ReleaseExpired, BeginRepair, At, CanBegin
<1> QED
  BY <1>3, <1>4, <1>5, <1>6, <1>7, <1>8

LEMMA IdleTeardownAccounts ==
  ASSUME Typed, Accounted, command = Idle, TeardownStep
  PROVE  Accounted'
<1>1. CASE BeginDestroy
  <2>1. receipt \in Receipt /\ receipt # NoReceipt /\ UNCHANGED <<stack, github>>
    BY <1>1 DEF BeginDestroy, CanBegin, Typed, RecordsOK, resources
  <2>2. held' = receipt' /\ receipt'.installed = receipt.installed
    BY <1>1, <2>1 DEF BeginDestroy, Acquire, Receipt
  <2>3. /\ command'.op = "destroy"
        /\ \/ command'.step = "suspend" /\ receipt.installed
           \/ command'.step = "delete app" /\ ~receipt.installed
    BY <1>1 DEF BeginDestroy, Idle
  <2>4. SecretsOfAWorker' /\ Reachable(receipt)' /\ Reachable(held)'
    BY <2>1, <2>2 DEF Accounted, SecretsOfAWorker, Reachable
  <2>5. DestroyAccounts'
    BY <2>2, <2>3 DEF DestroyAccounts
  <2> QED
    BY <2>3, <2>4, <2>5, DestroyGoesOnAccounted
<1>2. CASE BeginRepair
  <2>1. command'.op = "repair" /\ UNCHANGED <<stack, github>>
    BY <1>2 DEF BeginRepair, Idle, resources
  <2> QED
    BY <1>2, <2>1, BeginAccounts DEF BeginRepair, Phase, Operation
<1>3. CASE ReleaseExpired
  <2>1. /\ receipt \in Receipt /\ receipt' = [receipt EXCEPT !.lease = "none"]
        /\ receipt # NoReceipt /\ UNCHANGED <<stack, github, held, command>>
    BY <1>3 DEF ReleaseExpired, Typed, RecordsOK, resources
  <2>2. receipt'.installed = receipt.installed
    BY <2>1 DEF Receipt
  <2>3. SecretsOfAWorker' /\ command'.op \notin {"install", "adopt", "destroy"}
    BY <2>1, IdleTyped DEF Accounted, SecretsOfAWorker
  <2> QED
    BY <2>1, <2>2, <2>3, OtherAccounts
<1>4. CASE BesideStep
  BY <1>4, BesideAccounts
<1>5. CASE ~(BeginDestroy \/ BeginRepair \/ ReleaseExpired \/ BesideStep)
  BY <1>5, IdleTyped
  DEF TeardownStep, BesideStep, SuspendAll, DrainAll, DeleteOwnership, DeleteInstallations,
      DeleteApp, DestroyStack, PruneAll, Verify, Settle, GiveUp, RecordApplication,
      RewriteOwnership, FinishRepair, GiveUpRepair, At
<1> QED
  BY <1>1, <1>2, <1>3, <1>4, <1>5

LEMMA AccountedStep ==
  ASSUME Typed, Accounted, [Next]_vars
  PROVE  Accounted'
<1>1. CASE ChangeStep
  BY <1>1, ChangeAccounts
<1>2. CASE InstallStep
  <2>1. CASE command.op = "install"
    BY <1>2, <2>1, InstallStepAccounts
  <2>2. CASE command.op = "adopt"
    BY <1>2, <2>2, AdoptStepAccounts
  <2>3. CASE command.op \notin {"install", "adopt"}
    <3>1. BeginInstall \/ BeginAdopt
      BY <1>2, <2>3
      DEF InstallStep, Bootstrap, RecordStack, CreateApp, RecordApp, Configure, InstallApp,
          RecordInstallations, Claim, CheckHealth, FinishInstall, Release, RemoveStack,
          RemoveImage, DeletePartialApp, DeletePartialReceipt, DeployOver, RecordAdopted,
          Inventory, ClaimMissing, FinishAdopt, LeaveInstalling, At
    <3> QED
      BY <3>1, BeginsAccounted
  <2> QED
    BY <2>1, <2>2, <2>3
<1>3. CASE TeardownStep
  <2>1. CASE command.op = "destroy"
    BY <1>3, <2>1, DestroyStepAccounts
  <2>2. CASE command.op = "repair"
    BY <1>3, <2>2, RepairStepAccounts
  <2>3. CASE command.op \notin {"destroy", "repair"}
    <3>1. CASE BesideStep
      BY <3>1, BesideAccounts
    <3>2. CASE ~BesideStep
      <4>1. command = Idle
        BY <1>3, <2>3, <3>2
        DEF TeardownStep, BesideStep, BeginDestroy, ReleaseExpired, BeginRepair, CanBegin,
            SuspendAll, DrainAll, DeleteOwnership, DeleteInstallations, DeleteApp, DestroyStack,
            PruneAll, Verify, Settle, GiveUp, RecordApplication, RewriteOwnership, FinishRepair,
            GiveUpRepair, At
      <4> QED
        BY <1>3, <4>1, IdleTeardownAccounts
    <3> QED
      BY <3>1, <3>2
  <2> QED
    BY <2>1, <2>2, <2>3
<1>4. CASE Crash
  BY <1>4, SettledAccounts DEF Crash, resources, Phase
<1>5. CASE UNCHANGED vars
  BY <1>5, AccountedKept DEF vars
<1> QED
  BY <1>1, <1>2, <1>3, <1>4, <1>5 DEF Next

LEMMA AccountedInit == ASSUME Init PROVE Accounted
<1>1. receipt = NoReceipt /\ held = NoReceipt /\ command.op = "none"
  BY IdleTyped DEF Init
<1>2. SecretsOfAWorker
  BY NamesDiffer DEF Init, NoStack, SecretsOfAWorker
<1> QED
  BY <1>1, <1>2 DEF Accounted, Reachable, InstallAccounts, AdoptAccounts, DestroyAccounts

\* The two steps that remove a receipt: the last one of an install that is undone, and the
\* last one of a destroy that has seen no residue.
Removing ==
  \/ At({"install"}, "delete receipt")
  \/ At({"destroy"}, "settle") /\ command.residue = {}

\* What every other step does with a receipt that is there.
LEMMA EndKeeps ==
  ASSUME receipt \in Receipt, NEW phase \in Phase,
         \/ SettleAndEnd(phase) \/ Over(receipt) \/ Over(Settled(phase)) \/ Acquire(phase)
         \/ receipt' = receipt
  PROVE  receipt' # NoReceipt
<1>1. Settled(phase) \in Receipt
  BY SettledTyped
<1>2. CASE Over(receipt) \/ Over(Settled(phase))
  BY <1>1, <1>2, Leaves, NamesDiffer
<1>3. CASE Acquire(phase)
  BY <1>3, NamesDiffer DEF Acquire, Receipt
<1> QED
  BY <1>1, <1>2, <1>3, NamesDiffer DEF SettleAndEnd

LEMMA RecordKeeps ==
  ASSUME Typed, Typed', command.op \in Operation \ {"destroy"}, \E s \in Step : Goto(s)
  PROVE  receipt' # NoReceipt
<1>1. command'.op = command.op
  BY MovesOn
<1> QED
  BY <1>1 DEF Typed, RecordsOK, Operation

LEMMA ChangeKeeps ==
  ASSUME Typed, Typed', receipt # NoReceipt, ChangeStep
  PROVE  receipt' # NoReceipt
<1>0. receipt \in Receipt
  BY DEF Typed, RecordsOK
<1>1. CASE BeginUpgrade \/ BeginRollback
  <2>1. Acquire("upgrading")
    BY <1>1 DEF BeginUpgrade, BeginRollback, BeginChange
  <2> QED
    BY <1>0, <2>1, EndKeeps DEF Phase
<1>2. CASE \/ RemoveCopiedTag \/ PrepareUpgrade \/ PrepareRollback \/ Suspend \/ Drain \/ Reopen
           \/ Activate \/ Prune \/ Resume
  BY <1>2
  DEF RemoveCopiedTag, PrepareUpgrade, PrepareRollback, Suspend, Drain, Reopen, Activate, Prune,
      Resume, records
<1>3. CASE UpgradeToSame \/ RecordDesired \/ FinishChange \/ Reactivate \/ ResumeOriginal \/ Restore
  <2>1. command.op \in Change
    BY <1>3
    DEF UpgradeToSame, RecordDesired, FinishChange, Reactivate, ResumeOriginal, Restore, At, Change
  <2>2. command.op \in Operation \ {"destroy"}
    BY <2>1 DEF Change, Operation
  <2>3. CASE \E s \in Step : Goto(s)
    BY <2>2, <2>3, RecordKeeps
  <2>4. CASE Over(receipt) \/ Over(Settled("active"))
    BY <1>0, <2>4, EndKeeps DEF Phase
  <2>5. CASE UpgradeToSame \/ RecordDesired \/ Reactivate \/ ResumeOriginal
    <3>1. \/ Over(receipt) \/ Over(Settled("active"))
          \/ Goto("restore") \/ Goto("suspend") \/ Goto("resume original")
      BY <2>5 DEF UpgradeToSame, RecordDesired, Record, Reactivate, ResumeOriginal
    <3> QED
      BY <2>3, <2>4, <3>1 DEF Step
  <2>6. Settled("active") \in Receipt
    BY <1>0, SettledTyped DEF Phase
  <2>7. command.versions \in Versions /\ command.tags \in Tags
    BY <2>1 DEF Typed, CommandOK
  <2>8. CASE FinishChange
    <3> DEFINE new == [Settled("active") EXCEPT !.versions = Desired.versions, !.tags = Desired.tags]
    <3>1. command.target \in Version /\ command.tag \in Tag
      BY <2>1, <2>8 DEF FinishChange, At, Typed, CommandOK, Moving
    <3>2. new \in Receipt
      BY <2>6, <2>7, <3>1 DEF Receipt, Desired, Versions, Tags
    <3> HIDE DEF new
    <3>3. Over(new) \/ Goto("reactivate")
      BY <2>8 DEF FinishChange, new
    <3>4. CASE Over(new)
      BY <3>2, <3>4, Leaves, NamesDiffer
    <3> QED
      BY <2>3, <3>3, <3>4 DEF Step
  <2>9. CASE Restore
    <3>1. OriginalReceipt \in Receipt
      BY <2>6, <2>7 DEF OriginalReceipt, Receipt
    <3>2. Over(receipt) \/ Over(OriginalReceipt)
      BY <2>9 DEF Restore
    <3> QED
      BY <2>4, <3>1, <3>2, Leaves, NamesDiffer
  <2> QED
    BY <1>3, <2>5, <2>8, <2>9
<1> QED
  BY <1>1, <1>2, <1>3 DEF ChangeStep

LEMMA InstallKeeps ==
  ASSUME Typed, Typed', receipt # NoReceipt, InstallStep, ~DeletePartialReceipt
  PROVE  receipt' # NoReceipt
<1>0. receipt \in Receipt
  BY DEF Typed, RecordsOK
<1>1. CASE BeginInstall \/ BeginAdopt
  <2>1. Acquire("installing")
    BY <1>1 DEF BeginInstall, BeginAdopt
  <2> QED
    BY <1>0, <2>1, EndKeeps DEF Phase
<1>2. CASE \/ Bootstrap \/ CreateApp \/ Configure \/ InstallApp \/ Claim \/ CheckHealth
           \/ DeployOver \/ ClaimMissing
  BY <1>2
  DEF Bootstrap, CreateApp, Configure, InstallApp, Claim, CheckHealth, DeployOver, ClaimMissing,
      records
<1>3. CASE \/ RecordStack \/ RecordApp \/ RecordInstallations \/ RecordAdopted \/ Inventory
  <2>1. command.op \in Operation \ {"destroy"}
    BY <1>3
    DEF RecordStack, RecordApp, RecordInstallations, RecordAdopted, Inventory, At, Operation
  <2>2. \/ Goto("create app") \/ Goto("configure") \/ Goto("claim") \/ Goto("inventory")
        \/ Goto("ownership") \/ Goto("release") \/ Goto("leave installing")
    BY <1>3 DEF RecordStack, RecordApp, RecordInstallations, RecordAdopted, Inventory, Record
  <2> QED
    BY <2>1, <2>2, RecordKeeps DEF Step
<1>4. CASE FinishInstall \/ FinishAdopt
  <2>1. command.op \in Operation \ {"destroy"}
    BY <1>4 DEF FinishInstall, FinishAdopt, At, Operation
  <2>2. Over(Settled("active")) \/ Goto("release") \/ Goto("leave installing")
    BY <1>4 DEF FinishInstall, FinishAdopt
  <2>3. CASE Over(Settled("active"))
    BY <1>0, <2>3, EndKeeps DEF Phase
  <2> QED
    BY <2>1, <2>2, <2>3, RecordKeeps DEF Step
<1>5. CASE Release \/ RemoveStack \/ RemoveImage \/ DeletePartialApp \/ LeaveInstalling
  <2>1. receipt' = receipt \/ Over(receipt) \/ SettleAndEnd("installing")
    BY <1>5
    DEF Release, RemoveStack, RemoveImage, DeletePartialApp, LeaveInstalling, records
  <2> QED
    BY <1>0, <2>1, EndKeeps DEF Phase
<1> QED
  BY <1>1, <1>2, <1>3, <1>4, <1>5 DEF InstallStep

LEMMA TeardownKeeps ==
  ASSUME Typed, Typed', receipt # NoReceipt, TeardownStep, ~(Settle /\ command.residue = {})
  PROVE  receipt' # NoReceipt
<1>0. receipt \in Receipt
  BY DEF Typed, RecordsOK
<1>1. CASE BeginDestroy \/ BeginRepair
  <2>1. Acquire("destroying") \/ Acquire("repairing")
    BY <1>1 DEF BeginDestroy, BeginRepair
  <2> QED
    BY <1>0, <2>1, EndKeeps DEF Phase
<1>2. CASE \/ SuspendAll \/ DrainAll \/ DeleteOwnership \/ DeleteInstallations \/ DeleteApp
           \/ DestroyStack \/ PruneAll \/ Verify \/ PlanRepair \/ DropPlan \/ RewriteOwnership
  BY <1>2
  DEF SuspendAll, DrainAll, DeleteOwnership, DeleteInstallations, DeleteApp, DestroyStack,
      PruneAll, Verify, PlanRepair, DropPlan, RewriteOwnership, records
<1>3. CASE GiveUp \/ GiveUpRepair
  <2>1. SettleAndEnd("destroying") \/ SettleAndEnd("active")
    BY <1>3 DEF GiveUp, GiveUpRepair
  <2> QED
    BY <1>0, <2>1, EndKeeps DEF Phase
<1>4. CASE ReleaseExpired
  BY <1>0, <1>4, NamesDiffer DEF ReleaseExpired, Receipt
<1>5. CASE RecordApplication \/ FinishRepair
  <2>1. command.op \in Operation \ {"destroy"}
    BY <1>5 DEF RecordApplication, FinishRepair, At, Operation
  <2>2. \/ Goto("rewrite ownership") \/ Goto("finish") \/ Goto("give up")
        \/ Over(Settled("active"))
    BY <1>5 DEF RecordApplication, Record, FinishRepair
  <2>3. CASE Over(Settled("active"))
    BY <1>0, <2>3, EndKeeps DEF Phase
  <2> QED
    BY <2>1, <2>2, <2>3, RecordKeeps DEF Step
<1>6. CASE Settle /\ command.residue # {}
  <2> DEFINE done == [Settled("destroying") EXCEPT !.residue = command.residue]
  <2>1. done \in Receipt
    <3>1. Settled("destroying") \in Receipt
      BY <1>0, SettledTyped DEF Phase
    <3>2. command.residue \in SUBSET Residue
      BY DEF Typed, CommandOK, CommandType
    <3> QED
      BY <3>1, <3>2 DEF Receipt
  <2> HIDE DEF done
  <2>2. Over(done) \/ receipt' \in {receipt, done}
    BY <1>6 DEF Settle, done
  <2> QED
    BY <1>0, <2>1, <2>2, Leaves, NamesDiffer
<1> QED
  BY <1>1, <1>2, <1>3, <1>4, <1>5, <1>6 DEF TeardownStep

LEMMA OnlyTheseRemove ==
  ASSUME Typed, [Next]_vars, receipt # NoReceipt, receipt' = NoReceipt
  PROVE  Removing /\ UNCHANGED resources
<1>0. receipt \in Receipt /\ Typed'
  BY TypedStep DEF Typed, RecordsOK
<1>1. ~Crash
  BY <1>0, EndKeeps DEF Crash, Phase
<1>2. ~ChangeStep
  BY <1>0, ChangeKeeps
<1>3. ~(UNCHANGED vars)
  BY DEF vars
<1>4. DeletePartialReceipt \/ (Settle /\ command.residue = {})
  BY <1>0, <1>1, <1>2, <1>3, InstallKeeps, TeardownKeeps DEF Next
<1> QED
  BY <1>4 DEF DeletePartialReceipt, Settle, Removing

LEMMA RemovesLast ==
  ASSUME Typed, Accounted, [Next]_vars, receipt # NoReceipt, receipt' = NoReceipt
  PROVE  /\ stack' = NoStack
         /\ held.app => ~github'.app
         /\ held.installed => ~github'.installed /\ "own" \notin github'.markers
         /\ RecordedTags(held.tags) \cap registry' \subseteq Shared
<1>1. Removing /\ UNCHANGED <<stack, registry, github>>
  BY OnlyTheseRemove DEF resources
<1>2. CASE At({"install"}, "delete receipt")
  <2>1. command.op = "install" /\ command.step = "delete receipt"
    BY <1>2 DEF At
  <2>2. /\ stack = NoStack /\ held.tags.previous = None
        /\ held.application => held.tags.current \notin registry
        /\ ~held.application => held.tags.current = Unpushed
        /\ held.installed => held.app /\ "own" \notin github.markers
        /\ held.app => ~github.app /\ ~github.installed
    BY <2>1 DEF Accounted, InstallAccounts
  <2>3. Unpushed \notin registry
    BY NamesDiffer DEF Typed, ResourcesOK
  <2>4. RecordedTags(held.tags) \cap registry = {}
    BY <2>2, <2>3 DEF RecordedTags
  <2> QED
    BY <1>1, <2>2, <2>4
<1>3. CASE At({"destroy"}, "settle") /\ command.residue = {}
  <2>1. command.op = "destroy" /\ command.step = "settle" /\ command.residue = {}
    BY <1>3 DEF At
  <2>2. /\ stack = NoStack /\ (held.app => ~github.app)
        /\ held.installed => ~github.installed /\ "own" \notin github.markers
        /\ RecordedTags(held.tags) \cap registry = {}
    BY <2>1 DEF Accounted, DestroyAccounts
  <2> QED
    BY <1>1, <2>2
<1> QED
  BY <1>1, <1>2, <1>3 DEF Removing

LEMMA AccountedAlways == Spec => [](Typed /\ Accounted)
<1>1. Init => Typed /\ Accounted
  BY TypedInit, AccountedInit
<1>2. Typed /\ Accounted /\ [Next]_vars => (Typed /\ Accounted)'
  BY TypedStep, AccountedStep
<1> QED
  BY <1>1, <1>2, PTL DEF Spec

\* The receipt is removed, by an install that is undone or by a destroy, only after the
\* Worker, the application, the App, its installations, the markers of this deployment and
\* the image tags the command knows of are gone, whatever failed and whoever died before.
THEOREM RemovedOnlyWhenGone == Spec => RemovedWithResources
<1>1. Typed /\ Accounted /\ [Next]_vars =>
        [receipt # NoReceipt /\ receipt' = NoReceipt =>
           /\ stack' = NoStack
           /\ held.app => ~github'.app
           /\ held.installed => ~github'.installed /\ "own" \notin github'.markers
           /\ RecordedTags(held.tags) \cap registry' \subseteq Shared]_vars
  BY RemovesLast
<1> QED
  BY <1>1, AccountedAlways, PTL DEF Spec, RemovedWithResources

-----------------------------------------------------------------------------
(* An installation that is suspended belongs to a receipt that records it, until *)
(* a destroy deletes it or notes that it may be there.                           *)

Suspension ==
  /\ github.suspended => receipt # NoReceipt /\ receipt.phase # "installing" /\ receipt.installed
  /\ command.op \in {"install", "adopt"} => ~github.suspended
  /\ command.op = "destroy" =>
       /\ command.step \in {"suspend", "drain", "delete ownership", "delete installations"} =>
            receipt # NoReceipt /\ receipt.installed
       /\ command.step = "delete installations" /\ stack.worker = None => command.residue # {}
       /\ command.step \in {"delete app", "destroy stack", "prune", "verify", "settle"}
            /\ github.suspended => command.residue # {}

LEMMA SuspensionKept ==
  ASSUME Suspension, UNCHANGED <<stack, github, receipt, command>>
  PROVE  Suspension'
BY DEF Suspension

LEMMA NothingSuspended ==
  ASSUME ~github'.suspended, command'.op # "destroy"
  PROVE  Suspension'
BY DEF Suspension

\* A change or a repair, or none, under the receipt that was there.
LEMMA StillRecorded ==
  ASSUME Suspension, github'.suspended = github.suspended,
         github.suspended => /\ receipt' # NoReceipt /\ receipt'.installed = receipt.installed
                             /\ receipt'.phase = "installing" => receipt.phase = "installing",
         command'.op \notin {"install", "adopt", "destroy"}
  PROVE  Suspension'
BY DEF Suspension

\* A command ends with the receipt it has, or that receipt settled.
LEMMA EndRecorded ==
  ASSUME Typed, Suspension, github'.suspended = github.suspended,
         NEW phase \in Phase \ {"installing"}, Over(receipt) \/ (LeaseHeld /\ Over(Settled(phase)))
  PROVE  Suspension'
<1>1. PICK r \in {receipt, Settled(phase)} :
        Over(r) /\ (r = receipt \/ (LeaseHeld /\ r = Settled(phase)))
  OBVIOUS
<1>2. receipt \in Receipt \cup {NoReceipt}
  BY DEF Typed, RecordsOK
<1>3. r # receipt => /\ r \in Receipt /\ r.phase = phase /\ r.installed = receipt.installed
                     /\ receipt # NoReceipt
  BY <1>1, <1>2, SettledTyped DEF LeaseHeld
<1>4. r \in Receipt \cup {NoReceipt}
  BY <1>2, <1>3
<1>5. /\ command'.op = "none"
      /\ r = NoReceipt => receipt' = NoReceipt
      /\ r # NoReceipt => receipt'.phase = r.phase /\ receipt'.installed = r.installed
      /\ r # NoReceipt => receipt' # NoReceipt
  BY <1>1, <1>4, LeavesInstalled, Leaves
<1> QED
  BY <1>1, <1>3, <1>5, StillRecorded, NamesDiffer DEF Suspension

LEMMA ChangeSuspension ==
  ASSUME Typed, Suspension, ChangeStep
  PROVE  Suspension'
<1>1. CASE RemoveCopiedTag
  BY <1>1, SuspensionKept DEF RemoveCopiedTag, records
<1>2. CASE BeginUpgrade \/ BeginRollback
  <2>1. PICK op \in Change, v \in Version \cup {None} : BeginChange(op, v)
    BY <1>2 DEF BeginUpgrade, BeginRollback, Change
  <2>2. command'.op = op /\ receipt \in Receipt /\ github' = github
    BY <2>1 DEF BeginChange, Idle, Typed, RecordsOK, CanBegin, resources
  <2>3. /\ receipt' \in Receipt /\ receipt'.phase = "upgrading"
        /\ receipt'.installed = receipt.installed
    BY <2>1, <2>2 DEF BeginChange, Acquire, Receipt, Phase
  <2> QED
    BY <2>2, <2>3, StillRecorded, NamesDiffer DEF Change
<1> SUFFICES ASSUME \/ UpgradeToSame \/ PrepareUpgrade \/ PrepareRollback \/ RecordDesired
                    \/ Suspend \/ Drain \/ Reopen \/ Activate \/ Prune \/ Resume
                    \/ FinishChange \/ Reactivate \/ ResumeOriginal \/ Restore
             PROVE  Suspension'
  BY <1>1, <1>2 DEF ChangeStep
<1>0. /\ command.op \in Change /\ github' = github /\ command \in CommandType
  <2>1. command.op \in Change /\ github' = github
    BY DEF UpgradeToSame, PrepareUpgrade, PrepareRollback, RecordDesired, Suspend, Drain, Reopen,
        Activate, Prune, Resume, FinishChange, Reactivate, ResumeOriginal, Restore, At, Change,
        resources
  <2> QED
    BY <2>1 DEF Typed, CommandOK
<1>3. receipt \in Receipt /\ receipt # NoReceipt
  BY <1>0, NamesDiffer DEF Typed, RecordsOK, Change
<1>4. /\ Settled("active") \in Receipt /\ Settled("active").phase = "active"
      /\ Settled("active").installed = receipt.installed
  BY <1>3, SettledTyped DEF Phase
<1>5. ASSUME NEW r \in Receipt, r.installed = receipt.installed,
             r.phase \in {receipt.phase, "active"}, Over(r)
      PROVE  Suspension'
  <2>1. /\ command'.op = "none" /\ receipt' # NoReceipt
        /\ receipt'.phase = r.phase /\ receipt'.installed = r.installed
    BY <1>5, LeavesInstalled, Leaves, NamesDiffer
  <2> QED
    BY <1>0, <1>5, <2>1, StillRecorded
<1>6. ASSUME NEW r \in Receipt, r.installed = receipt.installed,
             r.phase \in {receipt.phase, "active"}, receipt' \in {receipt, r}, command'.op = command.op
      PROVE  Suspension'
  BY <1>0, <1>3, <1>6, StillRecorded, NamesDiffer DEF Change
<1>7. ASSUME \E s \in Step : Goto(s) PROVE command'.op = command.op
  BY <1>7, MovesOn
<1>8. CASE UpgradeToSame
  <2>1. Over(Settled("active")) \/ (receipt' \in {receipt, Settled("active")} /\ Goto("restore"))
    BY <1>8 DEF UpgradeToSame
  <2> QED
    BY <1>4, <1>5, <1>6, <1>7, <2>1 DEF Step
<1>9. CASE PrepareUpgrade \/ PrepareRollback \/ Drain
  <2>1. command'.op = command.op
    BY <1>0, <1>9, ChangeGoesOnAs DEF Change
  <2> QED
    BY <1>3, <1>6, <1>9, <2>1 DEF PrepareUpgrade, PrepareRollback, Drain, records
<1>10. CASE RecordDesired \/ FinishChange
  <2> DEFINE new == [receipt EXCEPT !.versions = Desired.versions, !.tags = Desired.tags]
             done == [Settled("active") EXCEPT !.versions = Desired.versions, !.tags = Desired.tags]
  <2>1. command.target \in Version /\ command.tag \in Tag
        /\ command.versions \in Versions /\ command.tags \in Tags
    BY <1>0, <1>10 DEF RecordDesired, FinishChange, At, Typed, CommandOK, Moving
  <2>2. /\ new \in Receipt /\ new.installed = receipt.installed /\ new.phase = receipt.phase
        /\ done \in Receipt /\ done.installed = receipt.installed /\ done.phase = "active"
    BY <1>3, <1>4, <2>1 DEF Receipt, Desired, Versions, Tags
  <2>3. \/ Over(done)
        \/ (\E s \in Step : Goto(s)) /\ receipt' \in {receipt, new}
        \/ (\E s \in Step : Goto(s)) /\ receipt' \in {receipt, done}
    BY <1>10 DEF RecordDesired, Record, FinishChange, Step
  <2> HIDE DEF new, done
  <2> QED
    BY <1>5, <1>6, <1>7, <2>2, <2>3
<1>11. CASE Suspend \/ Reopen \/ Activate \/ Prune \/ Resume
  <2>1. receipt' = receipt /\ \E s \in Step : Goto(s)
    BY <1>11 DEF Suspend, Reopen, Activate, Prune, Resume, records, Step
  <2> QED
    BY <1>3, <1>6, <1>7, <2>1
<1>12. CASE Reactivate \/ ResumeOriginal
  <2>1. Over(receipt) \/ (receipt' = receipt /\ \E s \in Step : Goto(s))
    BY <1>12 DEF Reactivate, ResumeOriginal, records, Step
  <2> QED
    BY <1>3, <1>5, <1>6, <1>7, <2>1
<1>13. CASE Restore
  <2>1. command.versions \in Versions /\ command.tags \in Tags
    BY <1>0 DEF Typed, CommandOK
  <2>2. /\ OriginalReceipt \in Receipt /\ OriginalReceipt.installed = receipt.installed
        /\ OriginalReceipt.phase = "active"
    BY <1>4, <2>1 DEF OriginalReceipt, Receipt
  <2>3. Over(receipt) \/ Over(OriginalReceipt)
    BY <1>13 DEF Restore
  <2> QED
    BY <1>3, <1>5, <2>2, <2>3
<1> QED
  BY <1>8, <1>9, <1>10, <1>11, <1>12, <1>13

\* Nothing is suspended while a deployment is installed or adopted.
LEMMA InstallSuspension ==
  ASSUME Typed, Typed', Serving, Suspension, InstallStep
  PROVE  Suspension'
<1>0. github \in GitHubType
  BY DEF Typed, ResourcesOK
<1>1. CASE BeginInstall \/ BeginAdopt
  <2>1. ~github'.suspended
    BY <1>1 DEF BeginInstall, BeginAdopt, Suspension, resources
  <2>2. command'.op \in {"install", "adopt", "none"}
    BY <1>1, IdleTyped DEF BeginInstall, BeginAdopt, Creates, Idle, Over
  <2> QED
    BY <2>1, <2>2, NothingSuspended
<1>2. CASE ~(BeginInstall \/ BeginAdopt)
  <2>1. command.op \in {"install", "adopt"} /\ command \in CommandType
    BY <1>2
    DEF Bootstrap, RecordStack, CreateApp, RecordApp, Configure, InstallApp, RecordInstallations,
        Claim, CheckHealth, FinishInstall, Release, RemoveStack, RemoveImage, DeletePartialApp,
        DeletePartialReceipt, DeployOver, RecordAdopted, Inventory, ClaimMissing, FinishAdopt,
        LeaveInstalling, InstallStep, At, Typed, CommandOK
  <2>2. ~github.suspended
    BY <2>1 DEF Suspension
  <2>3. github' \in {github, NewApp, [NewApp EXCEPT !.app = FALSE],
                     [github EXCEPT !.installed = TRUE], Marked,
                     [github EXCEPT !.markers = @ \ {"own"}]}
    BY <1>2
    DEF Bootstrap, RecordStack, CreateApp, RecordApp, Configure, InstallApp, RecordInstallations,
        Claim, CheckHealth, FinishInstall, Release, RemoveStack, RemoveImage, DeletePartialApp,
        DeletePartialReceipt, DeployOver, RecordAdopted, Inventory, ClaimMissing, FinishAdopt,
        LeaveInstalling, InstallStep, Released, resources
  <2>4. ~NewApp.suspended /\ ~[NewApp EXCEPT !.app = FALSE].suspended
    BY DEF NewApp
  <2>5. /\ [github EXCEPT !.installed = TRUE].suspended = github.suspended
        /\ Marked.suspended = github.suspended
        /\ [github EXCEPT !.markers = @ \ {"own"}].suspended = github.suspended
    BY <1>0 DEF Marked, GitHubType
  <2>6. ~github'.suspended
    BY <2>2, <2>3, <2>4, <2>5
  <2>7. command'.op # "destroy"
    <3>1. CASE \E s \in Step : Goto(s)
      BY <2>1, <3>1, MovesOn
    <3>2. CASE \E r \in {receipt, NoReceipt, Settled("active"), Settled("installing")} : Over(r)
      BY <3>2, IdleTyped DEF Over
    <3>3. CASE command' = [command EXCEPT !.step = "record app", !.credentials = TRUE]
      BY <2>1, <3>3 DEF CommandType
    <3> QED
      BY <1>2, <3>1, <3>2, <3>3
      DEF Bootstrap, RecordStack, CreateApp, RecordApp, Configure, InstallApp, RecordInstallations,
          Claim, CheckHealth, FinishInstall, Release, RemoveStack, RemoveImage, DeletePartialApp,
          DeletePartialReceipt, DeployOver, RecordAdopted, Inventory, ClaimMissing, FinishAdopt,
          LeaveInstalling, InstallStep, Record, SettleAndEnd, Step
  <2> QED
    BY <2>6, <2>7, NothingSuspended
<1> QED
  BY <1>1, <1>2

LEMMA GoneUnsuspended ==
  ASSUME NEW g \in GitHubType
  PROVE  ~Gone(g).suspended /\ ~[Gone(g) EXCEPT !.app = FALSE].suspended
<1>1. Unlocked(g) \in GitHubType /\ ~Unlocked(g).suspended
  BY GitHubFields DEF Unlocked, GitHubType
<1>2. Gone(g) \in GitHubType /\ ~Gone(g).suspended
  BY <1>1, GitHubFields DEF Gone, GitHubType
<1> QED
  BY <1>2 DEF GitHubType

\* A destroy goes on to step s under the receipt it has.
LEMMA DestroyGoesOnSuspended ==
  ASSUME Serving, Suspension, command.op = "destroy", command'.op = "destroy", receipt' = receipt,
         NEW s \in Step, command'.step = s,
         s \in {"suspend", "drain", "delete ownership", "delete installations"} =>
           receipt # NoReceipt /\ receipt.installed,
         github'.suspended => github.suspended \/ (receipt # NoReceipt /\ receipt.installed),
         s = "delete installations" /\ stack'.worker = None => command'.residue # {},
         s \in {"delete app", "destroy stack", "prune", "verify", "settle"} /\ github'.suspended =>
           command'.residue # {}
  PROVE  Suspension'
<1>1. github'.suspended => receipt # NoReceipt /\ receipt.phase # "installing" /\ receipt.installed
  BY DEF Suspension, Serving, TeardownServes
<1> QED
  BY <1>1 DEF Suspension

LEMMA DestroySuspension ==
  ASSUME Typed, Serving, Suspension,
         \/ BeginDestroy \/ SuspendAll \/ DrainAll \/ DeleteOwnership \/ DeleteInstallations
         \/ DeleteApp \/ DestroyStack \/ PruneAll \/ Verify \/ Settle \/ GiveUp
  PROVE  Suspension'
<1>0. github \in GitHubType /\ command \in CommandType /\ receipt \in Receipt \cup {NoReceipt}
  BY DEF Typed, ResourcesOK, CommandOK, RecordsOK
<1>1. CASE BeginDestroy
  <2>1. /\ receipt \in Receipt /\ github' = github /\ command'.op = "destroy"
        /\ command'.step = IF receipt.installed THEN "suspend" ELSE "delete app"
    BY <1>0, <1>1 DEF BeginDestroy, CanBegin, Idle, resources
  <2>2. /\ receipt' \in Receipt /\ receipt'.phase = "destroying"
        /\ receipt'.installed = receipt.installed
    BY <1>1, <2>1 DEF BeginDestroy, Acquire, Receipt, Phase
  <2> QED
    BY <2>1, <2>2, NamesDiffer DEF Suspension
<1>2. CASE SuspendAll \/ DrainAll
  <2>1. /\ command.op = "destroy" /\ UNCHANGED <<stack, records>>
        /\ command.step \in {"suspend", "drain"}
        /\ \/ Goto("drain") \/ Goto("give up") \/ Goto("delete ownership")
        /\ github' \in {github, Locked(github)}
    BY <1>2 DEF SuspendAll, DrainAll, At, resources, Locks
  <2>2. \E s \in {"drain", "give up", "delete ownership"} : command'.op = "destroy" /\ command'.step = s
    BY <2>1, MovesOn DEF Step
  <2>3. receipt # NoReceipt /\ receipt.installed
    BY <2>1 DEF Suspension
  <2> QED
    BY <2>1, <2>2, <2>3, DestroyGoesOnSuspended DEF Step, records
<1>3. CASE DeleteOwnership
  <2>1. /\ command.op = "destroy" /\ UNCHANGED <<stack, records>>
        /\ command.step = "delete ownership"
        /\ \/ stack.worker # None /\ Goto("delete installations")
           \/ command' = [command EXCEPT !.step = "delete installations", !.residue = {"marker"}]
           \/ Goto("give up")
    BY <1>3 DEF DeleteOwnership, At
  <2>2. receipt # NoReceipt /\ receipt.installed
    BY <2>1 DEF Suspension
  <2>3. CASE Goto("give up")
    <3>1. command'.op = "destroy" /\ command'.step = "give up"
      BY <2>1, <2>3, MovesOn DEF Step
    <3> QED
      BY <2>1, <2>2, <3>1, DestroyGoesOnSuspended DEF Step, records
  <2>4. CASE stack.worker # None /\ Goto("delete installations")
    <3>1. command'.op = "destroy" /\ command'.step = "delete installations"
      BY <2>1, <2>4, MovesOn DEF Step
    <3> QED
      BY <2>1, <2>2, <2>4, <3>1, DestroyGoesOnSuspended DEF Step, records
  <2>5. CASE command' = [command EXCEPT !.step = "delete installations", !.residue = {"marker"}]
    <3>1. /\ command'.op = "destroy" /\ command'.step = "delete installations"
          /\ command'.residue = {"marker"}
      BY <1>0, <2>1, <2>5 DEF CommandType
    <3> QED
      BY <2>1, <2>2, <3>1, DestroyGoesOnSuspended DEF Step, records
  <2> QED
    BY <2>1, <2>3, <2>4, <2>5
<1>4. CASE DeleteInstallations
  <2>1. /\ command.op = "destroy" /\ UNCHANGED <<stack, records>>
        /\ command.step = "delete installations"
        /\ \/ Goto("delete app") /\ github' = Uninstalled
           \/ Goto("give up")
        /\ github' \in {github, Uninstalled}
    BY <1>4 DEF DeleteInstallations, At
  <2>2. receipt # NoReceipt /\ receipt.installed
    BY <2>1 DEF Suspension
  <2>3. CASE Goto("give up")
    <3>1. command'.op = "destroy" /\ command'.step = "give up"
      BY <2>1, <2>3, MovesOn DEF Step
    <3> QED
      BY <2>1, <2>2, <3>1, DestroyGoesOnSuspended DEF Step, records
  <2>4. CASE Goto("delete app") /\ github' = Uninstalled
    <3>1. /\ command'.op = "destroy" /\ command'.step = "delete app"
          /\ command'.residue = command.residue
      BY <2>1, <2>4, MovesOn DEF Step
    <3>2. github'.suspended => command.residue # {}
      BY <1>0, <2>1, <2>4, GoneUnsuspended DEF Uninstalled, Suspension
    <3> QED
      BY <2>1, <2>2, <3>1, <3>2, DestroyGoesOnSuspended DEF Step, records
  <2> QED
    BY <2>1, <2>3, <2>4
<1>5. CASE DeleteApp \/ DestroyStack \/ PruneAll
  <2>1. /\ command.op = "destroy" /\ UNCHANGED <<records>>
        /\ command.step \in {"delete app", "destroy stack", "prune"}
        /\ \/ Goto("destroy stack") \/ Goto("prune") \/ Goto("verify") \/ Goto("give up")
        /\ github' \in {github, [Gone(github) EXCEPT !.app = FALSE]}
    BY <1>5 DEF DeleteApp, DestroyStack, PruneAll, At
  <2>2. github'.suspended => github.suspended /\ command.residue # {}
    BY <1>0, <2>1, GoneUnsuspended DEF Suspension
  <2>3. \E s \in {"destroy stack", "prune", "verify", "give up"} :
          command'.op = "destroy" /\ command'.step = s /\ command'.residue = command.residue
    BY <2>1, MovesOn DEF Step
  <2> QED
    BY <2>1, <2>2, <2>3, DestroyGoesOnSuspended DEF Step, records
<1>6. CASE Verify
  <2>1. /\ command.op = "destroy" /\ command.step = "verify" /\ UNCHANGED <<github, records>>
        /\ \/ \E shown \in SUBSET Residue :
                command' = [command EXCEPT !.step = "settle", !.residue = ResidueSeen(shown)]
           \/ Goto("give up")
    BY <1>6 DEF Verify, At, resources, Residue
  <2>2. CASE Goto("give up")
    <3>1. command'.op = "destroy" /\ command'.step = "give up"
      BY <2>1, <2>2, MovesOn DEF Step
    <3> QED
      BY <2>1, <3>1, DestroyGoesOnSuspended DEF Step, records
  <2>3. ASSUME NEW shown,
               command' = [command EXCEPT !.step = "settle", !.residue = ResidueSeen(shown)]
        PROVE  Suspension'
    <3>1. /\ command'.op = "destroy" /\ command'.step = "settle"
          /\ command.residue \subseteq command'.residue
      BY <1>0, <2>1, <2>3 DEF CommandType, ResidueSeen
    <3>2. github'.suspended => github.suspended /\ command'.residue # {}
      BY <2>1, <3>1 DEF Suspension
    <3> QED
      BY <2>1, <3>1, <3>2, DestroyGoesOnSuspended DEF Step, records
  <2> QED
    BY <2>1, <2>2, <2>3
<1>7. CASE Settle
  <2> DEFINE kept == [Settled("destroying") EXCEPT !.residue = command.residue]
             done == IF command.residue = {} THEN NoReceipt ELSE kept
  <2>1. /\ command.op = "destroy" /\ command.step = "settle" /\ github' = github
        /\ \/ LeaseHeld /\ Over(done)
           \/ receipt' \in {receipt, done} /\ Goto("give up")
    BY <1>7 DEF Settle, At, resources
  <2>2. github.suspended => /\ command.residue # {} /\ receipt \in Receipt /\ receipt.installed
                            /\ receipt.phase = "destroying" /\ done = kept
    BY <1>0, <2>1 DEF Suspension, Serving, TeardownServes
  <2>3. ASSUME receipt \in Receipt
        PROVE  kept \in Receipt /\ kept.phase = "destroying" /\ kept.installed = receipt.installed
    <3>1. /\ Settled("destroying") \in Receipt /\ Settled("destroying").phase = "destroying"
          /\ Settled("destroying").installed = receipt.installed
      BY <2>3, SettledTyped DEF Phase
    <3>2. command.residue \in SUBSET Residue
      BY <1>0 DEF CommandType
    <3> QED
      BY <3>1, <3>2 DEF Receipt
  <2> HIDE DEF kept
  <2>4. CASE LeaseHeld /\ Over(done)
    <3>1. done \in Receipt \cup {NoReceipt}
      BY <1>0, <2>3, <2>4 DEF LeaseHeld
    <3>2. command'.op = "none"
      BY <2>4, <3>1, Leaves
    <3>3. github.suspended => receipt' # NoReceipt /\ receipt'.phase = "destroying" /\ receipt'.installed
      BY <2>2, <2>3, <2>4, <3>1, Leaves, LeavesInstalled, NamesDiffer
    <3> QED
      BY <2>1, <3>2, <3>3 DEF Suspension
  <2>5. CASE receipt' \in {receipt, done} /\ Goto("give up")
    <3>1. command'.op = "destroy" /\ command'.step = "give up"
      BY <2>1, <2>5, MovesOn DEF Step
    <3>2. github.suspended => receipt' # NoReceipt /\ receipt'.phase = "destroying" /\ receipt'.installed
      BY <2>2, <2>3, <2>5, NamesDiffer
    <3> QED
      BY <2>1, <3>1, <3>2 DEF Suspension
  <2> QED
    BY <2>1, <2>4, <2>5
<1>8. CASE GiveUp
  <2>1. Over(receipt) \/ (LeaseHeld /\ Over(Settled("destroying")))
    BY <1>8 DEF GiveUp, SettleAndEnd
  <2> QED
    BY <1>8, <2>1, EndRecorded DEF GiveUp, Phase, resources
<1> QED
  BY <1>1, <1>2, <1>3, <1>4, <1>5, <1>6, <1>7, <1>8

LEMMA RepairSuspension ==
  ASSUME Typed, Serving, Suspension,
         \/ PlanRepair \/ DropPlan \/ ReleaseExpired \/ BeginRepair \/ RecordApplication
         \/ RewriteOwnership \/ FinishRepair \/ GiveUpRepair
  PROVE  Suspension'
<1>0. github \in GitHubType /\ command \in CommandType /\ receipt \in Receipt \cup {NoReceipt}
  BY DEF Typed, ResourcesOK, CommandOK, RecordsOK
<1>1. CASE PlanRepair \/ DropPlan
  BY <1>1, SuspensionKept DEF PlanRepair, DropPlan, resources, records
<1>2. CASE ReleaseExpired
  <2>1. /\ receipt \in Receipt /\ receipt' = [receipt EXCEPT !.lease = "none"]
        /\ command'.op = "none" /\ github' = github
    BY <1>0, <1>2, IdleTyped DEF ReleaseExpired, resources
  <2>2. receipt' \in Receipt /\ receipt'.phase = receipt.phase /\ receipt'.installed = receipt.installed
    BY <2>1 DEF Receipt
  <2> QED
    BY <2>1, <2>2, StillRecorded, NamesDiffer
<1>3. CASE BeginRepair
  <2>1. receipt \in Receipt /\ github' = github /\ command'.op = "repair"
    BY <1>0, <1>3 DEF BeginRepair, CanBegin, Idle, resources
  <2>2. /\ receipt' \in Receipt /\ receipt'.phase = "repairing"
        /\ receipt'.installed = receipt.installed
    BY <1>3, <2>1 DEF BeginRepair, Acquire, Receipt, Phase
  <2> QED
    BY <2>1, <2>2, StillRecorded, NamesDiffer
<1>4. CASE RecordApplication
  <2> DEFINE new == [receipt EXCEPT !.application = TRUE]
  <2>1. /\ command.op = "repair" /\ github' = github
        /\ receipt' \in {receipt, new}
        /\ \/ Goto("rewrite ownership") \/ Goto("finish") \/ Goto("give up")
    BY <1>4 DEF RecordApplication, Record, At, resources
  <2>2. command'.op = "repair"
    BY <2>1, MovesOn DEF Step
  <2>3. receipt \in Receipt =>
          new \in Receipt /\ new.phase = receipt.phase /\ new.installed = receipt.installed
    BY DEF Receipt
  <2> HIDE DEF new
  <2>4. github.suspended => receipt \in Receipt /\ receipt # NoReceipt
    BY <1>0 DEF Suspension
  <2> QED
    BY <2>1, <2>2, <2>3, <2>4, StillRecorded, NamesDiffer
<1>5. CASE RewriteOwnership
  <2>1. /\ command.op = "repair" /\ github' \in {github, Rewritten} /\ receipt' = receipt
        /\ Goto("finish") \/ Goto("give up")
    BY <1>5 DEF RewriteOwnership, At, records
  <2>2. command'.op = "repair"
    BY <2>1, MovesOn DEF Step
  <2>3. Rewritten.suspended = github.suspended
    BY <1>0 DEF Rewritten, GitHubType
  <2> QED
    BY <2>1, <2>2, <2>3, StillRecorded DEF Suspension
<1>6. CASE FinishRepair
  <2>1. /\ command.op = "repair" /\ github' = github
        /\ \/ LeaseHeld /\ Over(Settled("active"))
           \/ receipt' \in {receipt, Settled("active")} /\ Goto("give up")
    BY <1>6 DEF FinishRepair, At, resources
  <2>2. CASE LeaseHeld /\ Over(Settled("active"))
    BY <2>1, <2>2, EndRecorded DEF Phase
  <2>3. CASE receipt' \in {receipt, Settled("active")} /\ Goto("give up")
    <3>1. command'.op = "repair"
      BY <2>1, <2>3, MovesOn DEF Step
    <3>2. github.suspended =>
            /\ Settled("active") \in Receipt /\ Settled("active").phase = "active"
            /\ Settled("active").installed = receipt.installed /\ receipt # NoReceipt
      BY <1>0, SettledTyped DEF Suspension, Phase
    <3> QED
      BY <2>1, <2>3, <3>1, <3>2, StillRecorded, NamesDiffer
  <2> QED
    BY <2>1, <2>2, <2>3
<1>7. CASE GiveUpRepair
  <2>1. Over(receipt) \/ (LeaseHeld /\ Over(Settled("active")))
    BY <1>7 DEF GiveUpRepair, SettleAndEnd
  <2> QED
    BY <1>7, <2>1, EndRecorded DEF GiveUpRepair, Phase, resources
<1> QED
  BY <1>1, <1>2, <1>3, <1>4, <1>5, <1>6, <1>7

LEMMA SuspensionStep ==
  Typed /\ Typed' /\ Serving /\ Suspension /\ [Next]_vars => Suspension'
<1> SUFFICES ASSUME Typed, Typed', Serving, Suspension, [Next]_vars PROVE Suspension'
  OBVIOUS
<1>1. CASE ChangeStep
  BY <1>1, ChangeSuspension
<1>2. CASE InstallStep
  BY <1>2, InstallSuspension
<1>3. CASE TeardownStep
  BY <1>3, DestroySuspension, RepairSuspension DEF TeardownStep
<1>4. CASE Crash
  BY <1>4, EndRecorded DEF Crash, Phase, resources
<1>5. CASE UNCHANGED vars
  BY <1>5, SuspensionKept DEF vars
<1> QED
  BY <1>1, <1>2, <1>3, <1>4, <1>5 DEF Next

LEMMA SuspensionInit == Init => Suspension
<1> SUFFICES ASSUME Init PROVE Suspension
  OBVIOUS
<1>1. ~github.suspended
  BY DEF Init, NoGitHub
<1>2. command.op = "none"
  BY IdleTyped DEF Init
<1> QED
  BY <1>1, <1>2 DEF Suspension

LEMMA SuspensionAlways == Spec => []Suspension
<1>1. Init => Typed /\ Serving /\ Suspension
  BY TypedInit, ServingInit, SuspensionInit
<1>2. Typed /\ Serving /\ Suspension /\ [Next]_vars => (Typed /\ Serving /\ Suspension)'
  BY TypedStep, ServingStep, SuspensionStep
<1> QED
  BY <1>1, <1>2, PTL DEF Spec

-----------------------------------------------------------------------------
(* NothingLeftOver. While nothing fails, each step of a command knows where   *)
(* the tags of the registry are accounted for.                                *)

\* No tag of the registry is left over but those in tags.
Only(tags) == registry \subseteq abandoned \cup Shared \cup cleanup \cup tags
OnlyAfter(tags) == registry' \subseteq abandoned' \cup Shared \cup cleanup' \cup tags

\* To deploy one of the versions again pushes no tag but the one recorded beside it.
Named(versions, tags) ==
  /\ versions.current \in abandoned \cup {tags.current}
  /\ versions.previous \in abandoned \cup {tags.previous, None}
NamedAfter(versions, tags) ==
  /\ versions.current \in abandoned' \cup {tags.current}
  /\ versions.previous \in abandoned' \cup {tags.previous, None}

\* The Worker has its secrets and the App is there: the health gate passes, unless an
\* installation is suspended.
Reaches == stack.secrets /\ github.app

HeldInStep == command.op # "none" => LeaseHeld /\ held = receipt

\* What an adoption that was left had pushed is nobody's to remove, so that the next one may
\* record another tag.  A deployment that is complete is still the first one.
Adoptable ==
  /\ Only({})
  /\ receipt.versions.previous = None
  /\ Reaches => cleanup = {} /\ receipt.versions.current \in abandoned

RestingPush ==
  command.op = "none" =>
    /\ receipt = NoReceipt => Only({}) /\ (Reaches => cleanup = {})
    /\ receipt # NoReceipt /\ receipt.phase = "installing" => Adoptable

ReceiptPush ==
  receipt # NoReceipt /\ command.op \in {"none", "destroy", "repair"} =>
    /\ Only(RecordedTags(receipt.tags))
    /\ Reaches => Named(receipt.versions, receipt.tags)

\* Where a change goes is what it copied, or what the receipt had before.
Aimed ==
  /\ command.op = "upgrade" =>
       command.copied = command.target /\ command.tag = command.target
  /\ command.op = "rollback" =>
       /\ command.target = command.versions.previous /\ command.tag = command.tags.previous
       /\ command.copied = None

BeforeDeploy == {"prepare", "record", "suspend", "drain", "activate", "prune", "reopen", "restore"}

ChangePush ==
  command.op \in Change =>
    /\ receipt.phase = "upgrading"
    /\ Reaches => Named(command.versions, command.tags) /\ Named(receipt.versions, receipt.tags)
    /\ command.step = "prepare" =>
         /\ receipt.versions = command.versions /\ receipt.tags = command.tags
         /\ command.copied = None
    /\ command.step \in Moving => Aimed
    /\ command.step \in BeforeDeploy => Only(RecordedTags(command.tags) \cup {command.copied})
    /\ command.step = "prune" => command.op = "upgrade"
    /\ command.step \in {"resume", "finish"} => Only(RecordedTags(Desired.tags))
    /\ command.step = "reactivate" => ~PassesHealthGate
    /\ command.step # "resume original"

InstallPush ==
  command.op = "install" =>
    /\ receipt.versions.current = command.target /\ receipt.versions.previous = None
    /\ Only({command.target})
    /\ command.step \in {"bootstrap", "delete app", "delete receipt"} => Only({})
    /\ command.step \notin {"bootstrap", "record stack"} =>
         receipt.application /\ receipt.tags.current = command.target
    /\ command.step \in {"remove image", "delete app", "delete receipt"} => ~Reaches

AdoptPush ==
  command.op = "adopt" =>
    /\ receipt.versions.previous = None
    /\ command.step = "deploy over" => Only({})
    /\ command.step \in {"record adopted", "inventory", "ownership", "finish"} =>
         Reaches /\ command.target \in registry /\ Only({command.target})
    /\ command.step \in {"inventory", "ownership", "finish"} =>
         receipt.tags.current = command.target
    /\ Reaches =>
         /\ cleanup = {}
         /\ receipt.versions.current \in abandoned \cup {command.target}
         /\ command.step = "leave installing" => receipt.versions.current \in abandoned \cup registry

DestroyPush ==
  command.op = "destroy" =>
    /\ receipt.phase = "destroying"
    /\ command.step \in {"prune", "verify", "settle"} => ~Reaches
    /\ command.step \in {"verify", "settle"} => Only({})

RepairPush == command.op = "repair" => receipt.phase = "repairing"

Pushed ==
  /\ HeldInStep /\ RestingPush /\ ReceiptPush /\ ChangePush
  /\ InstallPush /\ AdoptPush /\ DestroyPush /\ RepairPush

\* A command that ends leaves r.
LEMMA EndPush ==
  ASSUME NEW r \in Receipt \cup {NoReceipt}, Over(r),
         r = NoReceipt => OnlyAfter({}) /\ (Reaches' => cleanup' = {}),
         r # NoReceipt => OnlyAfter(RecordedTags(r.tags))
                          /\ (Reaches' => NamedAfter(r.versions, r.tags)),
         r # NoReceipt /\ r.phase = "installing" =>
           /\ OnlyAfter({}) /\ r.versions.previous = None
           /\ Reaches' => cleanup' = {} /\ r.versions.current \in abandoned'
  PROVE  Pushed'
<1>1. /\ command'.op = "none"
      /\ r = NoReceipt => receipt' = NoReceipt
      /\ r # NoReceipt =>
           /\ receipt' # NoReceipt /\ receipt'.phase = r.phase
           /\ receipt'.versions = r.versions /\ receipt'.tags = r.tags
  BY Leaves
<1>2. RestingPush'
  BY <1>1 DEF RestingPush, Adoptable, Only, OnlyAfter
<1>3. ReceiptPush'
  BY <1>1 DEF ReceiptPush, Only, OnlyAfter, Named, NamedAfter
<1> QED
  BY <1>1, <1>2, <1>3
  DEF Pushed, HeldInStep, ChangePush, InstallPush, AdoptPush, DestroyPush, RepairPush, Change

\* A command that runs keeps the lease and the copy of what it recorded.
LEMMA HeldKept ==
  ASSUME Typed, Pushed, command.op # "none"
  PROVE  /\ receipt \in Receipt /\ receipt # NoReceipt /\ held = receipt /\ LeaseHeld
         /\ UNCHANGED records => HeldInStep'
<1>1. LeaseHeld /\ held = receipt
  BY DEF Pushed, HeldInStep
<1> QED
  BY <1>1 DEF LeaseHeld, Typed, RecordsOK, records, HeldInStep

\* Registry and cleanup as they were, or a tag of both less.
LEMMA OnlyKept ==
  ASSUME NEW tags, NEW more, Only(tags), registry' \subseteq registry \cup more,
         abandoned \subseteq abandoned', UNCHANGED cleanup
  PROVE  OnlyAfter(tags \cup more) 
BY DEF Only, OnlyAfter

LEMMA NamedKept ==
  ASSUME NEW versions, NEW tags, Named(versions, tags), abandoned \subseteq abandoned'
  PROVE  NamedAfter(versions, tags)
BY DEF Named, NamedAfter

LEMMA ChangePushes ==
  ASSUME command'.op \in Change, HeldInStep', ChangePush'
  PROVE  Pushed'
BY DEF Pushed, RestingPush, ReceiptPush, InstallPush, AdoptPush, DestroyPush, RepairPush, Change

\* A command goes on to another step and keeps where it goes and what it found.
GoesTo(s) ==
  /\ command'.op = command.op /\ command'.step = s
  /\ command'.target = command.target /\ command'.tag = command.tag
  /\ command'.versions = command.versions /\ command'.tags = command.tags
  /\ command'.copied = command.copied

LEMMA GotoGoes ==
  ASSUME Typed, NEW s \in Step,
         Goto(s) \/ command' = [command EXCEPT !.step = s, !.drained = TRUE]
  PROVE  GoesTo(s)
<1>1. command \in CommandType
  BY DEF Typed, CommandOK
<1>2. CASE Goto(s)
  BY <1>1, <1>2 DEF Goto, CommandType, GoesTo
<1>3. CASE command' = [command EXCEPT !.step = s, !.drained = TRUE]
  BY <1>1, <1>3 DEF CommandType, GoesTo
<1> QED
  BY <1>2, <1>3

\* An upgrade or a rollback goes on to step s.
LEMMA ChangeGoesOnPushing ==
  ASSUME Typed, Pushed, command.op \in Change, NEW s \in Step \ {"prepare", "resume original"},
         GoesTo(s), HeldInStep', receipt'.phase = "upgrading",
         Reaches' => Reaches, UNCHANGED <<abandoned, cleanup>>,
         Reaches' => NamedAfter(receipt'.versions, receipt'.tags),
         s \in Moving => command.step \in Moving,
         s \in BeforeDeploy => OnlyAfter(RecordedTags(command.tags) \cup {command.copied}),
         s = "prune" => command.op = "upgrade",
         s \in {"resume", "finish"} => OnlyAfter(RecordedTags(Desired.tags)),
         s = "reactivate" => ~PassesHealthGate'
  PROVE  Pushed'
<1>1. /\ command'.op = command.op /\ command'.step = s
      /\ command'.target = command.target /\ command'.tag = command.tag
      /\ command'.versions = command.versions /\ command'.tags = command.tags
      /\ command'.copied = command.copied
  BY DEF GoesTo
<1>2. Desired' = Desired
  BY <1>1 DEF Desired
<1>3. Reaches' => Named(command.versions, command.tags)' /\ Named(receipt.versions, receipt.tags)'
  BY <1>1 DEF Pushed, ChangePush, Named, NamedAfter
<1>4. s \in Moving => Aimed'
  BY <1>1 DEF Pushed, ChangePush, Aimed
<1>5. s \in BeforeDeploy => Only(RecordedTags(command.tags) \cup {command.copied})'
  BY <1>1 DEF Only, OnlyAfter
<1>6. s \in {"resume", "finish"} => Only(RecordedTags(Desired.tags))'
  BY <1>2 DEF Only, OnlyAfter
<1>7. ChangePush'
  BY <1>1, <1>3, <1>4, <1>5, <1>6 DEF ChangePush
<1> QED
  BY <1>1, <1>7, ChangePushes

\* The same for a step that touches nothing the invariant speaks of.
LEMMA ChangeMovesOnPushing ==
  ASSUME Typed, Pushed, command.op \in Change, NEW s \in Step \ {"prepare", "resume original"},
         GoesTo(s), UNCHANGED <<records, registry, abandoned, cleanup>>,
         Reaches' => Reaches,
         s \in Moving => command.step \in Moving,
         s \in BeforeDeploy => command.step \in BeforeDeploy,
         s \notin {"prune", "reactivate"},
         s \in {"resume", "finish"} => command.step \in {"resume", "finish"}
  PROVE  Pushed'
<1>1. HeldInStep' /\ receipt'.phase = "upgrading"
  BY HeldKept DEF Pushed, ChangePush, records, Change
<1>2. s \in BeforeDeploy => OnlyAfter(RecordedTags(command.tags) \cup {command.copied})
  BY DEF Pushed, ChangePush, Only, OnlyAfter
<1>3. s \in {"resume", "finish"} => OnlyAfter(RecordedTags(Desired.tags))
  BY DEF Pushed, ChangePush, Only, OnlyAfter
<1>4. Reaches' => NamedAfter(receipt'.versions, receipt'.tags)
  BY DEF Pushed, ChangePush, Named, NamedAfter, records
<1> QED
  BY <1>1, <1>2, <1>3, <1>4, ChangeGoesOnPushing

LEMMA BeginChangePushes ==
  ASSUME Typed, Pushed, NEW op \in Change, NEW v \in Version \cup {None}, BeginChange(op, v)
  PROVE  Pushed'
<1>1. /\ receipt \in Receipt /\ receipt # NoReceipt /\ command.op = "none"
      /\ UNCHANGED <<resources, cleanup, abandoned>>
  BY IdleTyped DEF Typed, RecordsOK, BeginChange, CanBegin
<1>2. /\ command'.op = op /\ command'.step = "prepare" /\ command'.copied = None
      /\ command'.versions = receipt.versions /\ command'.tags = receipt.tags
  <2>1. op \in Operation /\ "prepare" \in Step /\ receipt.versions \in Versions /\ receipt.tags \in Tags
    BY <1>1 DEF Change, Operation, Receipt, Step
  <2> QED
    BY <2>1 DEF BeginChange, Idle
<1>3. /\ receipt' # NoReceipt /\ receipt'.phase = "upgrading" /\ receipt'.lease = "held"
      /\ receipt'.versions = receipt.versions /\ receipt'.tags = receipt.tags /\ held' = receipt'
  <2>1. receipt' \in Receipt
    BY <1>1 DEF BeginChange, Acquire, Receipt, Phase
  <2> QED
    BY <1>1, <2>1, NamesDiffer DEF BeginChange, Acquire, Receipt
<1>4. /\ Only(RecordedTags(receipt.tags))
      /\ Reaches => Named(receipt.versions, receipt.tags)
  BY <1>1 DEF Pushed, ReceiptPush
<1>5. HeldInStep'
  BY <1>3 DEF HeldInStep, LeaseHeld
<1>6. Only(RecordedTags(command.tags) \cup {command.copied})'
  BY <1>1, <1>2, <1>4 DEF Only, resources
<1>7. Reaches' => Named(command.versions, command.tags)' /\ Named(receipt.versions, receipt.tags)'
  BY <1>1, <1>2, <1>3, <1>4 DEF Named, resources, Reaches
<1>8. ChangePush'
  BY <1>2, <1>3, <1>6, <1>7 DEF ChangePush, Moving
<1> QED
  BY <1>2, <1>5, <1>8, ChangePushes

\* A deploy that keeps the secrets leaves the health gate as it is.
LEMMA GateKept ==
  ASSUME Typed, NEW v, UNCHANGED github,
         DeployedTo(v, stack.secrets) \/ PartlyDeployedTo(v, stack.secrets)
  PROVE  UNCHANGED <<PassesHealthGate, Reaches>>
<1>1. stack \in StackType
  BY DEF Typed, ResourcesOK
<1>2. /\ [stack EXCEPT !.worker = v, !.secrets = stack.secrets].secrets = stack.secrets
      /\ [stack EXCEPT !.application = v].secrets = stack.secrets
      /\ [worker |-> v, application |-> v, secrets |-> stack.secrets].secrets = stack.secrets
  BY <1>1 DEF StackType
<1>3. stack' \in {stack, [stack EXCEPT !.worker = v, !.secrets = stack.secrets],
                 [stack EXCEPT !.application = v],
                 [worker |-> v, application |-> v, secrets |-> stack.secrets]}
  BY DEF DeployedTo, PartlyDeployedTo
<1>4. stack'.secrets = stack.secrets
  BY <1>2, <1>3, Zenon
<1> QED
  BY <1>4 DEF PassesHealthGate, Reaches

\* A copied tag that is removed is accounted for no longer, and need not be.
LEMMA RemoveCopiedPushes ==
  ASSUME Typed, Pushed, RemoveCopiedTag, ~Fails
  PROVE  Pushed'
<1> PICK tag \in cleanup : cleanup' = cleanup \ {tag} /\ registry' = Pruned({tag})
  BY DEF RemoveCopiedTag
<1>1. UNCHANGED <<stack, github, records, command, abandoned>>
  BY DEF RemoveCopiedTag
<1>2. ASSUME NEW tags, Only(tags)
      PROVE  OnlyAfter(tags)
  BY <1>1, <1>2 DEF Only, OnlyAfter, Pruned
<1>3. UNCHANGED <<PassesHealthGate, Reaches, Desired, receipt, held>> /\ cleanup' \subseteq cleanup
  BY <1>1 DEF PassesHealthGate, Reaches, Desired, records
<1>4. HeldInStep'
  BY <1>1, <1>3 DEF Pushed, HeldInStep, LeaseHeld
<1>5. RestingPush'
  BY <1>1, <1>2, <1>3 DEF Pushed, RestingPush, Adoptable, Only, OnlyAfter
<1>6. ReceiptPush'
  BY <1>1, <1>2, <1>3 DEF Pushed, ReceiptPush, Only, OnlyAfter, Named
<1>7. ChangePush'
  BY <1>1, <1>2, <1>3 DEF Pushed, ChangePush, Only, OnlyAfter, Named, Aimed
<1>8. InstallPush'
  BY <1>1, <1>2, <1>3 DEF Pushed, InstallPush, Only, OnlyAfter
<1>9. AdoptPush'
  BY <1>1, <1>2, <1>3 DEF Pushed, AdoptPush, Only, OnlyAfter, Pruned
<1>10. DestroyPush' /\ RepairPush'
  BY <1>1, <1>2, <1>3 DEF Pushed, DestroyPush, RepairPush, Only, OnlyAfter
<1> QED
  BY <1>4, <1>5, <1>6, <1>7, <1>8, <1>9, <1>10 DEF Pushed

LEMMA ChangeStepPushes ==
  ASSUME Typed, Pushed, ChangeStep, ~Fails
  PROVE  Pushed'
<1> DEFINE Before == RecordedTags(command.tags) \cup {command.copied}
<1>0. ASSUME command.op \in Change
      PROVE  /\ receipt \in Receipt /\ receipt # NoReceipt /\ held = receipt /\ LeaseHeld
             /\ UNCHANGED records => HeldInStep'
             /\ receipt.phase = "upgrading" /\ ChangePush
  BY <1>0, HeldKept DEF Change, Pushed, ChangePush
<1>a. ASSUME command.op \in Change, UNCHANGED <<records, abandoned>>, Reaches' => Reaches
      PROVE  Reaches' => NamedAfter(receipt'.versions, receipt'.tags)
  BY <1>0, <1>a DEF ChangePush, Named, NamedAfter, records
<1>b. ASSUME command.op \in Change, command.step \in Moving, UNCHANGED abandoned, Reaches
      PROVE  NamedAfter(Desired.versions, Desired.tags)
  <2>1. Aimed /\ Named(command.versions, command.tags) /\ command.target \in Version
    BY <1>0, <1>b DEF ChangePush, Typed, CommandOK
  <2> QED
    BY <1>b, <2>1, NamesDiffer DEF Named, NamedAfter, Desired, Aimed, Change
<1>1. CASE BeginUpgrade
  BY <1>1, BeginChangePushes DEF BeginUpgrade, Change
<1>2. CASE BeginRollback
  BY <1>2, BeginChangePushes DEF BeginRollback, Change
<1>3. CASE UpgradeToSame
  <2>1. /\ command.op = "upgrade" /\ command.step = "prepare" /\ command.op \in Change
        /\ Over(Settled("active")) /\ UNCHANGED <<resources, cleanup, abandoned>>
    BY <1>3 DEF UpgradeToSame, At, rest, Change
  <2>2. /\ Settled("active") \in Receipt /\ Settled("active").phase = "active"
        /\ Settled("active").versions = receipt.versions /\ Settled("active").tags = receipt.tags
    BY <1>0, <2>1, SettledTyped DEF Phase
  <2>3. /\ receipt.versions = command.versions /\ receipt.tags = command.tags
        /\ Only(RecordedTags(command.tags) \cup {None})
        /\ Reaches => Named(command.versions, command.tags)
    BY <1>0, <2>1 DEF ChangePush, BeforeDeploy
  <2>4. registry \subseteq Version
    BY DEF Typed, ResourcesOK
  <2>5. OnlyAfter(RecordedTags(receipt.tags))
    BY <2>1, <2>3, <2>4, NamesDiffer DEF Only, OnlyAfter, resources
  <2>6. Reaches' => NamedAfter(receipt.versions, receipt.tags)
    BY <2>1, <2>3 DEF Named, NamedAfter, resources, Reaches
  <2> QED
    BY <2>1, <2>2, <2>5, <2>6, EndPush, NamesDiffer
<1>4. CASE PrepareUpgrade
  <2>1. /\ command.op = "upgrade" /\ command.step = "prepare" /\ command.op \in Change
        /\ command \in CommandType /\ UNCHANGED <<stack, github, records, cleanup, abandoned>>
        /\ registry' = registry \cup {command.target}
        /\ command' = [command EXCEPT !.step = "record", !.tag = command.target,
                                      !.copied = command.target]
    BY <1>4 DEF PrepareUpgrade, At, rest, Change, Typed, CommandOK
  <2>2. /\ command'.op = "upgrade" /\ command'.step = "record" /\ command'.tag = command'.target
        /\ command'.target = command.target /\ command'.copied = command.target
        /\ command'.versions = command.versions /\ command'.tags = command.tags
    BY <2>1 DEF CommandType
  <2>3. /\ Only(RecordedTags(command.tags) \cup {None})
        /\ Reaches => Named(command.versions, command.tags)
    BY <1>0, <2>1 DEF ChangePush, BeforeDeploy
  <2>4. registry \subseteq Version
    BY DEF Typed, ResourcesOK
  <2>5. Only(RecordedTags(command.tags) \cup {command.copied})'
    BY <2>1, <2>2, <2>3, <2>4, NamesDiffer DEF Only
  <2>6. Reaches' => Named(command.versions, command.tags)' /\ Named(receipt.versions, receipt.tags)'
    BY <1>0, <2>1, <2>2, <2>3 DEF ChangePush, Named, Reaches, records
  <2>7. receipt'.phase = "upgrading" /\ HeldInStep'
    BY <1>0, <2>1 DEF records
  <2>8. ChangePush'
    BY <2>2, <2>5, <2>6, <2>7 DEF ChangePush, Aimed
  <2> QED
    BY <2>2, <2>7, <2>8, ChangePushes DEF Change
<1>5. CASE PrepareRollback
  <2>1. /\ command.op = "rollback" /\ command.step = "prepare" /\ command.op \in Change
        /\ command \in CommandType
        /\ UNCHANGED <<stack, github, registry, records, cleanup, abandoned>>
        /\ \/ command' = [command EXCEPT !.step = "record",
                                         !.target = command.versions.previous,
                                         !.tag = command.tags.previous]
           \/ Goto("restore")
    BY <1>5 DEF PrepareRollback, At, rest, resources, Change, Typed, CommandOK
  <2>2. CASE Goto("restore")
    <3>1. GoesTo("restore")
      BY <2>2, GotoGoes DEF Step
    <3> QED
      BY <2>1, <3>1, ChangeMovesOnPushing DEF Step, Moving, BeforeDeploy, Reaches
  <2>3. CASE command' = [command EXCEPT !.step = "record",
                                        !.target = command.versions.previous,
                                        !.tag = command.tags.previous]
    <3>1. /\ command'.op = "rollback" /\ command'.step = "record"
          /\ command'.target = command.versions.previous /\ command'.tag = command.tags.previous
          /\ command'.versions = command.versions /\ command'.tags = command.tags
          /\ command'.copied = None
      BY <1>0, <2>1, <2>3 DEF CommandType, ChangePush
    <3>2. Only(RecordedTags(command.tags) \cup {command.copied})'
      BY <1>0, <2>1, <3>1 DEF ChangePush, BeforeDeploy, Only
    <3>3. Reaches' => Named(command.versions, command.tags)' /\ Named(receipt.versions, receipt.tags)'
      BY <1>0, <2>1, <3>1 DEF ChangePush, Named, Reaches, records
    <3>4. receipt'.phase = "upgrading" /\ HeldInStep'
      BY <1>0, <2>1 DEF records
    <3>5. ChangePush'
      BY <3>1, <3>2, <3>3, <3>4 DEF ChangePush, Aimed
    <3> QED
      BY <3>1, <3>4, <3>5, ChangePushes DEF Change
  <2> QED
    BY <2>1, <2>2, <2>3
<1>6. CASE RecordDesired
  <2> DEFINE new == [receipt EXCEPT !.versions = Desired.versions, !.tags = Desired.tags]
  <2>1. /\ command.op \in Change /\ command.step = "record"
        /\ UNCHANGED <<resources, cleanup, abandoned>>
        /\ receipt' = new /\ held' = new /\ Goto("suspend")
    BY <1>6 DEF RecordDesired, At, Record, rest
  <2>2. receipt'.phase = "upgrading" /\ HeldInStep'
    <3>1. receipt.phase = "upgrading" /\ receipt.lease = "held" /\ receipt \in Receipt
      BY <1>0, <2>1 DEF LeaseHeld
    <3>2. Desired.versions \in Versions /\ Desired.tags \in Tags
      BY <2>1 DEF Typed, CommandOK, Moving, Desired, Versions, Tags
    <3>3. new.phase = "upgrading" /\ new.lease = "held" /\ new \in Receipt
      BY <3>1, <3>2 DEF Receipt
    <3> HIDE DEF new
    <3> QED
      BY <2>1, <3>3, NamesDiffer DEF HeldInStep, LeaseHeld
  <2>3. GoesTo("suspend")
    BY <2>1, GotoGoes DEF Step
  <2>4. OnlyAfter(RecordedTags(command.tags) \cup {command.copied})
    BY <1>0, <2>1 DEF ChangePush, BeforeDeploy, Only, OnlyAfter, resources
  <2>5. new.versions = Desired.versions /\ new.tags = Desired.tags
    BY <1>0, <2>1 DEF Receipt
  <2>6. Reaches' => NamedAfter(Desired.versions, Desired.tags)
    BY <1>0, <1>b, <2>1 DEF Moving, resources, Reaches
  <2> HIDE DEF new
  <2> QED
    BY <2>1, <2>2, <2>3, <2>4, <2>5, <2>6, ChangeGoesOnPushing
    DEF Step, Moving, BeforeDeploy, Reaches, resources
<1>7. CASE Suspend
  <2>1. /\ command.op \in Change /\ command.step = "suspend"
        /\ UNCHANGED <<stack, github, registry, records, cleanup, abandoned>>
        /\ Goto("drain") \/ Goto("reopen")
    BY <1>7 DEF Suspend, At, rest
  <2>2. GoesTo("drain") \/ GoesTo("reopen")
    BY <2>1, GotoGoes DEF Step
  <2> QED
    BY <2>1, <2>2, ChangeMovesOnPushing DEF Step, Moving, BeforeDeploy, Reaches
<1>8. CASE Drain
  <2>1. /\ command.op \in Change /\ command.step = "drain"
        /\ UNCHANGED <<stack, github, registry, records, cleanup, abandoned>>
        /\ \/ command' = [command EXCEPT !.step = "activate", !.drained = TRUE]
           \/ Goto("reopen")
    BY <1>8 DEF Drain, At, rest, resources
  <2>2. GoesTo("activate") \/ GoesTo("reopen")
    BY <2>1, GotoGoes DEF Step
  <2> QED
    BY <2>1, <2>2, ChangeMovesOnPushing DEF Step, Moving, BeforeDeploy, Reaches
<1>9. CASE Reopen
  <2>1. /\ command.op \in Change /\ command.step = "reopen"
        /\ UNCHANGED <<stack, github, registry, records, cleanup, abandoned>> /\ Goto("restore")
    BY <1>9 DEF Reopen, At
  <2>2. GoesTo("restore")
    BY <2>1, GotoGoes DEF Step
  <2> QED
    BY <2>1, <2>2, ChangeMovesOnPushing DEF Step, Moving, BeforeDeploy, Reaches
<1>10. CASE Activate
  <2>1. /\ command.op \in Change /\ command.step = "activate"
        /\ UNCHANGED <<github, records, cleanup, abandoned>>
        /\ \/ /\ PassesHealthGate /\ DeployedTo(command.target, stack.secrets)
              /\ Goto(IF command.op = "upgrade" /\ command.tags.previous # None
                      THEN "prune" ELSE "resume")
           \/ /\ ~PassesHealthGate /\ PartlyDeployedTo(command.target, stack.secrets)
              /\ Goto("reactivate")
    BY <1>10 DEF Activate, At, rest
  <2>2. /\ UNCHANGED <<PassesHealthGate, Reaches>> /\ receipt'.phase = "upgrading" /\ HeldInStep'
        /\ Reaches' => NamedAfter(receipt'.versions, receipt'.tags)
    BY <1>0, <1>a, <2>1, GateKept DEF records
  <2>3. CASE ~PassesHealthGate
    <3>1. GoesTo("reactivate")
      BY <2>1, <2>3, GotoGoes DEF Step
    <3> QED
      BY <2>1, <2>2, <2>3, <3>1, ChangeGoesOnPushing DEF Step, Moving, BeforeDeploy
  <2>4. CASE PassesHealthGate
    <3>1. /\ registry' = registry \cup {command.target} /\ Aimed
          /\ Only(RecordedTags(command.tags) \cup {command.copied})
          /\ Named(command.versions, command.tags)
      BY <1>0, <2>1, <2>4 DEF DeployedTo, ChangePush, Moving, BeforeDeploy, PassesHealthGate, Reaches
    <3>2. registry \subseteq Version /\ command.target \in Version
      BY <2>1 DEF Typed, ResourcesOK, CommandOK, Moving
    <3>3. CASE command.op = "upgrade" /\ command.tags.previous # None
      <4>1. OnlyAfter(RecordedTags(command.tags) \cup {command.copied})
        BY <2>1, <3>1, <3>3 DEF Only, OnlyAfter, Aimed
      <4>2. GoesTo("prune")
        BY <2>1, <2>4, <3>3, GotoGoes DEF Step
      <4> QED
        BY <2>1, <2>2, <2>4, <3>3, <4>1, <4>2, ChangeGoesOnPushing DEF Step, Moving, BeforeDeploy
    <3>4. CASE ~(command.op = "upgrade" /\ command.tags.previous # None)
      <4>1. GoesTo("resume")
        BY <2>1, <2>4, <3>4, GotoGoes DEF Step
      <4>2. CASE command.op = "upgrade"
        <5>1. /\ command.tags.previous = None /\ command.copied = command.target
              /\ command.tag = command.target
          BY <3>1, <3>4, <4>2 DEF Aimed
        <5>2. OnlyAfter(RecordedTags(Desired.tags))
          BY <2>1, <3>1, <3>2, <5>1, NamesDiffer DEF Only, OnlyAfter, Desired, RecordedTags
        <5> QED
          BY <2>1, <2>2, <2>4, <4>1, <5>2, ChangeGoesOnPushing DEF Step, Moving, BeforeDeploy
      <4>3. CASE command.op = "rollback"
        <5>1. /\ command.copied = None /\ command.tag = command.tags.previous
              /\ command.target \in abandoned \cup {command.tags.previous}
          BY <3>1, <3>2, <4>3, NamesDiffer DEF Aimed, Named
        <5>2. OnlyAfter(RecordedTags(Desired.tags))
          BY <2>1, <3>1, <3>2, <5>1, NamesDiffer DEF Only, OnlyAfter, Desired, RecordedTags
        <5> QED
          BY <2>1, <2>2, <2>4, <4>1, <5>2, ChangeGoesOnPushing DEF Step, Moving, BeforeDeploy
      <4> QED
        BY <2>1, <4>2, <4>3 DEF Change
    <3> QED
      BY <3>3, <3>4
  <2> QED
    BY <2>3, <2>4
<1>11. CASE Prune
  <2>1. /\ command.op = "upgrade" /\ command.op \in Change /\ command.step = "prune"
        /\ UNCHANGED <<stack, github, records, cleanup, abandoned>>
        /\ registry' = Pruned({command.tags.previous}) /\ Goto("resume")
    BY <1>11 DEF Prune, At, rest, Change
  <2>2. /\ Only(RecordedTags(command.tags) \cup {command.copied}) /\ command.tag = command.copied
        /\ registry \subseteq Version
    BY <1>0, <2>1 DEF ChangePush, BeforeDeploy, Moving, Aimed, Typed, ResourcesOK
  <2>3. OnlyAfter(RecordedTags(Desired.tags))
    BY <2>1, <2>2, NamesDiffer DEF Only, OnlyAfter, Desired, RecordedTags, Pruned
  <2>4. GoesTo("resume") /\ receipt'.phase = "upgrading" /\ HeldInStep'
    BY <1>0, <2>1, GotoGoes DEF Step, records
  <2>5. Reaches' = Reaches /\ (Reaches' => NamedAfter(receipt'.versions, receipt'.tags))
    BY <1>a, <2>1 DEF Reaches
  <2> QED
    BY <2>1, <2>3, <2>4, <2>5, ChangeGoesOnPushing DEF Step, Moving, BeforeDeploy
<1>12. CASE Resume
  <2>1. /\ command.op \in Change /\ command.step = "resume" /\ Goto("finish")
        /\ UNCHANGED <<stack, github, registry, records, cleanup, abandoned>>
    BY <1>12 DEF Resume, At, rest
  <2>2. GoesTo("finish")
    BY <2>1, GotoGoes DEF Step
  <2> QED
    BY <2>1, <2>2, ChangeMovesOnPushing DEF Step, Moving, BeforeDeploy, Reaches
<1>13. CASE FinishChange
  <2> DEFINE done == [Settled("active") EXCEPT !.versions = Desired.versions,
                                               !.tags = Desired.tags]
  <2>1. /\ command.op \in Change /\ command.step = "finish" /\ Over(done)
        /\ UNCHANGED <<stack, github, registry, cleanup, abandoned>>
    BY <1>13 DEF FinishChange, At, resources
  <2>2. done \in Receipt /\ done.phase = "active" /\ done.versions = Desired.versions
        /\ done.tags = Desired.tags
    <3>1. Settled("active") \in Receipt /\ Settled("active").phase = "active"
      BY <1>0, <2>1, SettledTyped DEF Phase
    <3>2. Desired.versions \in Versions /\ Desired.tags \in Tags
      BY <2>1 DEF Typed, CommandOK, Moving, Desired, Versions, Tags
    <3> QED
      BY <3>1, <3>2 DEF Receipt
  <2>3. Only(RecordedTags(Desired.tags))
    BY <1>0, <2>1 DEF ChangePush
  <2>4. OnlyAfter(RecordedTags(Desired.tags))
    BY <2>1, <2>3 DEF Only, OnlyAfter
  <2>5. Reaches' => NamedAfter(Desired.versions, Desired.tags)
    BY <1>b, <2>1 DEF Moving, Reaches
  <2> HIDE DEF done
  <2> QED
    BY <2>1, <2>2, <2>4, <2>5, EndPush, NamesDiffer
<1>14. CASE Reactivate
  <2>1. /\ command.op \in Change /\ command.step = "reactivate" /\ UNCHANGED <<github, cleanup>>
    BY <1>14 DEF Reactivate, At
  <2>2. /\ PartlyDeployedTo(command.versions.current, stack.secrets) /\ Over(receipt)
        /\ abandoned' = abandoned \cup registry'
    BY <1>0, <1>14, <2>1 DEF Reactivate, ChangePush
  <2>3. Reaches' = Reaches /\ (Reaches => Named(receipt.versions, receipt.tags))
    BY <1>0, <2>1, <2>2, GateKept DEF ChangePush
  <2>4. /\ OnlyAfter(RecordedTags(receipt.tags))
        /\ Reaches' => NamedAfter(receipt.versions, receipt.tags)
    BY <2>2, <2>3 DEF OnlyAfter, Named, NamedAfter
  <2> QED
    BY <1>0, <2>1, <2>4, <2>2, EndPush
<1>15. CASE ResumeOriginal
  BY <1>0, <1>15 DEF ResumeOriginal, At, ChangePush
<1>16. CASE Restore
  <2>1. /\ command.op \in Change /\ command.step = "restore" /\ Over(OriginalReceipt)
        /\ UNCHANGED <<stack, github, registry, abandoned>> /\ cleanup' = cleanup \cup CopiedTag
    BY <1>0, <1>16 DEF Restore, At, resources
  <2>2. /\ OriginalReceipt \in Receipt /\ OriginalReceipt.phase = "active"
        /\ OriginalReceipt.versions = command.versions /\ OriginalReceipt.tags = command.tags
    <3>1. Settled("active") \in Receipt /\ Settled("active").phase = "active"
      BY <1>0, <2>1, SettledTyped DEF Phase
    <3>2. command.versions \in Versions /\ command.tags \in Tags
      BY <2>1 DEF Typed, CommandOK
    <3> QED
      BY <3>1, <3>2 DEF Receipt, OriginalReceipt
  <2>3. /\ Only(RecordedTags(command.tags) \cup {command.copied}) /\ registry \subseteq Version
        /\ Reaches => Named(command.versions, command.tags)
    BY <1>0, <2>1 DEF ChangePush, BeforeDeploy, Typed, ResourcesOK
  <2>4. OnlyAfter(RecordedTags(command.tags))
    BY <2>1, <2>3, NamesDiffer DEF Only, OnlyAfter, CopiedTag
  <2>5. Reaches' => NamedAfter(command.versions, command.tags)
    BY <2>1, <2>3 DEF Named, NamedAfter, Reaches
  <2> QED
    BY <2>1, <2>2, <2>4, <2>5, EndPush, NamesDiffer
<1>17. CASE RemoveCopiedTag
  BY <1>17, RemoveCopiedPushes
<1> QED
  BY <1>1, <1>2, <1>3, <1>4, <1>5, <1>6, <1>7, <1>8, <1>9, <1>10, <1>11, <1>12, <1>13, <1>14,
     <1>15, <1>16, <1>17
  DEF ChangeStep

\* An install goes on to step s.
LEMMA InstallGoesOnPushing ==
  ASSUME Pushed, command.op = "install", NEW s, s # "bootstrap", GoesTo(s), HeldInStep',
         receipt'.versions = receipt.versions, OnlyAfter({command.target}),
         s # "record stack" => receipt'.application /\ receipt'.tags.current = command.target,
         s \in {"delete app", "delete receipt"} => OnlyAfter({}),
         s \in {"remove image", "delete app", "delete receipt"} => ~Reaches'
  PROVE  Pushed'
<1>1. InstallPush'
  BY DEF Pushed, InstallPush, GoesTo, Only, OnlyAfter
<1> QED
  BY <1>1
  DEF GoesTo, Pushed, RestingPush, ReceiptPush, ChangePush, AdoptPush, DestroyPush, RepairPush, Change

\* Once the stack is recorded, an install that goes on moves from step to step.
LEMMA InstallMovesOnPushing ==
  ASSUME Typed, Pushed, command.op = "install",
         command.step \notin {"bootstrap", "record stack"},
         NEW s, s \notin {"bootstrap", "remove image", "delete app", "delete receipt"}, GoesTo(s),
         UNCHANGED <<records, abandoned, cleanup>>,
         registry' \subseteq registry \cup {command.target}
  PROVE  Pushed'
<1>1. /\ HeldInStep' /\ receipt'.versions = receipt.versions
      /\ receipt'.application /\ receipt'.tags.current = command.target
      /\ OnlyAfter({command.target})
  BY HeldKept DEF Pushed, InstallPush, records, Only, OnlyAfter
<1> QED
  BY <1>1, InstallGoesOnPushing

LEMMA CreatesPushes ==
  ASSUME Typed, Pushed, NEW v \in Version, NEW new \in Receipt, ~Fails,
         NEW op \in {"install", "adopt"}, NEW s \in {"bootstrap", "deploy over"},
         op = "install" => s = "bootstrap", op = "adopt" => s = "deploy over",
         Creates(new, op, s), receipt = NoReceipt, command = Idle,
         new.versions.current = v, new.versions.previous = None, new.lease = "held",
         UNCHANGED <<resources, cleanup, abandoned>>
  PROVE  Pushed'
<1>1. command.op = "none"
  BY IdleTyped
<1>2. receipt' = new /\ held' = new /\ receipt' # NoReceipt
  BY NamesDiffer DEF Creates
<1>3. command'.op = op /\ command'.step = s /\ command'.target = v
  BY <1>1 DEF Creates, Idle
<1>4. HeldInStep'
  BY <1>2 DEF HeldInStep, LeaseHeld
<1>5. Only({}) /\ (Reaches => cleanup = {})
  BY <1>1 DEF Pushed, RestingPush
<1>6. Only({})' /\ (Reaches' => cleanup' = {})
  BY <1>5 DEF Only, Reaches, resources
<1>7. InstallPush'
  BY <1>1, <1>2, <1>3, <1>6 DEF InstallPush, Only
<1>8. AdoptPush'
  BY <1>1, <1>2, <1>3, <1>6 DEF AdoptPush, Only
<1> QED
  BY <1>3, <1>4, <1>7, <1>8
  DEF Pushed, RestingPush, ReceiptPush, ChangePush, DestroyPush, RepairPush, Change

LEMMA InstallStepPushes ==
  ASSUME Typed, Pushed, ~Fails,
         \/ BeginInstall \/ Bootstrap \/ RecordStack \/ CreateApp \/ RecordApp \/ Configure
         \/ InstallApp \/ RecordInstallations \/ Claim \/ CheckHealth \/ FinishInstall
         \/ Release \/ RemoveStack \/ RemoveImage \/ DeletePartialApp \/ DeletePartialReceipt
  PROVE  Pushed'
<1>0. ASSUME command.op = "install"
      PROVE  /\ receipt \in Receipt /\ receipt # NoReceipt /\ held = receipt /\ LeaseHeld
             /\ receipt.lease = "held"
             /\ UNCHANGED records => HeldInStep'
             /\ InstallPush /\ command.target \in Version
             /\ receipt.versions.current = command.target /\ receipt.versions.previous = None
             /\ Only({command.target})
  BY <1>0, HeldKept DEF Pushed, InstallPush, LeaseHeld, Typed, CommandOK
<1>1. CASE BeginInstall
  <2> PICK v \in Version : Creates(FreshReceipt(v), "install", "bootstrap")
    BY <1>1 DEF BeginInstall
  <2>1. /\ FreshReceipt(v) \in Receipt /\ FreshReceipt(v).lease = "held"
        /\ FreshReceipt(v).versions.current = v /\ FreshReceipt(v).versions.previous = None
    BY FreshTyped DEF FreshReceipt
  <2> QED
    BY <1>1, <2>1, CreatesPushes DEF BeginInstall
<1>2. CASE Bootstrap
  <2>1. /\ command.op = "install" /\ command.step = "bootstrap" /\ Goto("record stack")
        /\ registry' = registry \cup {command.target}
        /\ UNCHANGED <<records, cleanup, abandoned>>
    BY <1>2 DEF Bootstrap, At, rest, DeployedTo
  <2>2. GoesTo("record stack") /\ HeldInStep' /\ receipt'.versions = receipt.versions
    BY <1>0, <2>1, GotoGoes DEF Step, records
  <2>3. OnlyAfter({command.target})
    BY <1>0, <2>1 DEF Only, OnlyAfter
  <2> QED
    BY <2>1, <2>2, <2>3, InstallGoesOnPushing
<1>3. CASE RecordStack
  <2> DEFINE new == [receipt EXCEPT !.application = TRUE, !.tags.current = command.target]
  <2>1. /\ command.op = "install" /\ command.step = "record stack" /\ Goto("create app")
        /\ receipt' = new /\ held' = new
        /\ UNCHANGED <<registry, cleanup, abandoned>>
    BY <1>3 DEF RecordStack, At, rest, resources, Record
  <2>2. /\ new.application /\ new.tags.current = command.target /\ new.lease = "held"
        /\ new.versions = receipt.versions /\ new \in Receipt
    <3>1. receipt \in Receipt /\ command.target \in Tag /\ receipt.lease = "held"
      BY <1>0, <2>1 DEF Tag
    <3> QED
      BY <3>1 DEF Receipt, Tags
  <2> HIDE DEF new
  <2>3. GoesTo("create app") /\ HeldInStep'
    BY <2>1, <2>2, GotoGoes, NamesDiffer DEF Step, HeldInStep, LeaseHeld
  <2>4. OnlyAfter({command.target})
    BY <1>0, <2>1 DEF Only, OnlyAfter
  <2> QED
    BY <2>1, <2>2, <2>3, <2>4, InstallGoesOnPushing
<1>4. CASE CreateApp
  <2>1. /\ command.op = "install" /\ command.step = "create app" /\ command \in CommandType
        /\ command' = [command EXCEPT !.step = "record app", !.credentials = TRUE]
        /\ UNCHANGED <<registry, records, cleanup, abandoned>>
    BY <1>4 DEF CreateApp, At, rest, Typed, CommandOK
  <2>2. GoesTo("record app")
    BY <2>1 DEF GoesTo, CommandType
  <2> QED
    BY <2>1, <2>2, InstallMovesOnPushing
<1>5. CASE RecordApp \/ RecordInstallations
  <2> DEFINE made == [receipt EXCEPT !.app = TRUE]
             installed == [receipt EXCEPT !.installed = TRUE]
  <2>1. /\ command.op = "install" /\ command.step \in {"record app", "record installations"}
        /\ Goto("configure") \/ Goto("claim")
        /\ receipt' \in {made, installed} /\ held' = receipt'
        /\ UNCHANGED <<registry, cleanup, abandoned>>
    BY <1>5 DEF RecordApp, RecordInstallations, At, rest, resources, Record
  <2>2. \A new \in {made, installed} :
          /\ new.application = receipt.application /\ new.tags = receipt.tags
          /\ new.lease = "held" /\ new.versions = receipt.versions /\ new \in Receipt
    <3>1. receipt \in Receipt /\ receipt.lease = "held"
      BY <1>0, <2>1
    <3> QED
      BY <3>1 DEF Receipt
  <2> HIDE DEF made, installed
  <2>3. GoesTo("configure") \/ GoesTo("claim")
    BY <2>1, GotoGoes DEF Step
  <2>4. HeldInStep'
    BY <2>1, <2>2, NamesDiffer DEF HeldInStep, LeaseHeld
  <2>5. OnlyAfter({command.target})
    BY <1>0, <2>1 DEF Only, OnlyAfter
  <2>6. receipt'.application /\ receipt'.tags.current = command.target
        /\ receipt'.versions = receipt.versions
    BY <1>0, <2>1, <2>2 DEF InstallPush
  <2> QED
    BY <2>1, <2>3, <2>4, <2>5, <2>6, InstallGoesOnPushing
<1>6. CASE Configure
  <2>1. /\ command.op = "install" /\ command.step = "configure" /\ Goto("install app")
        /\ registry' = registry \cup {command.target}
        /\ UNCHANGED <<records, cleanup, abandoned>>
    BY <1>6 DEF Configure, At, rest, DeployedTo
  <2>2. GoesTo("install app")
    BY <2>1, GotoGoes DEF Step
  <2> QED
    BY <2>1, <2>2, InstallMovesOnPushing
<1>7. CASE InstallApp \/ Claim \/ CheckHealth
  <2>1. /\ command.op = "install" /\ command.step \in {"install app", "claim", "health"}
        /\ \/ Goto("record installations") \/ Goto("release") \/ Goto("health") \/ Goto("finish")
        /\ UNCHANGED <<registry, records, cleanup, abandoned>>
    BY <1>7 DEF InstallApp, Claim, CheckHealth, At, rest, resources
  <2>2. \E s \in {"record installations", "release", "health", "finish"} : GoesTo(s)
    BY <2>1, GotoGoes DEF Step
  <2> QED
    BY <2>1, <2>2, InstallMovesOnPushing
<1>8. CASE FinishInstall
  <2>1. /\ command.op = "install" /\ command.step = "finish" /\ Over(Settled("active"))
        /\ UNCHANGED <<registry, cleanup, abandoned>>
    BY <1>8 DEF FinishInstall, At, resources
  <2>2. /\ Settled("active") \in Receipt /\ Settled("active").phase = "active"
        /\ Settled("active").versions = receipt.versions /\ Settled("active").tags = receipt.tags
    BY <1>0, <2>1, SettledTyped DEF Phase
  <2>3. receipt.tags.current = command.target
    BY <1>0, <2>1 DEF InstallPush
  <2>4. OnlyAfter(RecordedTags(receipt.tags))
    BY <1>0, <2>1, <2>3, NamesDiffer DEF Only, OnlyAfter, RecordedTags
  <2>5. NamedAfter(receipt.versions, receipt.tags)
    BY <1>0, <2>1, <2>3 DEF NamedAfter
  <2> QED
    BY <2>1, <2>2, <2>4, <2>5, EndPush, NamesDiffer
<1>9. CASE Release
  <2>1. /\ command.op = "install" /\ command.step = "release" /\ Goto("remove stack")
        /\ UNCHANGED <<registry, records, cleanup, abandoned>>
    BY <1>9 DEF Release, At, rest
  <2>2. GoesTo("remove stack")
    BY <2>1, GotoGoes DEF Step
  <2> QED
    BY <2>1, <2>2, InstallMovesOnPushing
<1>10. CASE RemoveStack
  <2>1. /\ command.op = "install" /\ command.step = "remove stack" /\ Goto("remove image")
        /\ UNCHANGED <<registry, records, cleanup, abandoned>> /\ Removed
    BY <1>10 DEF RemoveStack, At, rest
  <2>2. GoesTo("remove image") /\ ~Reaches'
    BY <2>1, GotoGoes DEF Step, Removed, NoStack, Reaches
  <2>3. /\ HeldInStep' /\ receipt'.versions = receipt.versions
        /\ receipt'.application /\ receipt'.tags.current = command.target
        /\ OnlyAfter({command.target})
    BY <1>0, <2>1 DEF InstallPush, records, Only, OnlyAfter
  <2> QED
    BY <2>1, <2>2, <2>3, InstallGoesOnPushing
<1>11. CASE RemoveImage
  <2>1. /\ command.op = "install" /\ command.step = "remove image" /\ Goto("delete app")
        /\ UNCHANGED <<stack, github, records, cleanup, abandoned>>
        /\ registry' = registry \ InstalledImage
    BY <1>11 DEF RemoveImage, At, rest
  <2>2. /\ receipt.application /\ receipt.tags.current = command.target /\ ~Reaches
        /\ InstalledImage = {command.target}
    BY <1>0, <2>1 DEF InstallPush, InstalledImage
  <2>3. OnlyAfter({}) /\ OnlyAfter({command.target})
    BY <1>0, <2>1, <2>2 DEF Only, OnlyAfter
  <2>4. GoesTo("delete app") /\ HeldInStep' /\ receipt' = receipt /\ ~Reaches'
    BY <1>0, <2>1, <2>2, GotoGoes DEF Step, records, Reaches
  <2> QED
    BY <2>1, <2>2, <2>3, <2>4, InstallGoesOnPushing
<1>12. CASE DeletePartialApp
  <2>1. /\ command.op = "install" /\ command.step = "delete app"
        /\ UNCHANGED <<stack, registry, cleanup, abandoned>>
        /\ github' \in {github, [NewApp EXCEPT !.app = FALSE]}
        /\ \/ Goto("delete receipt") /\ UNCHANGED records
           \/ Over(receipt)
    BY <1>12 DEF DeletePartialApp, At, rest
  <2>2. /\ ~Reaches /\ Only({})
        /\ receipt.application /\ receipt.tags.current = command.target
    BY <1>0, <2>1 DEF InstallPush
  <2>3. ~Reaches'
    <3>1. ~[NewApp EXCEPT !.app = FALSE].app
      BY DEF NewApp
    <3> QED
      BY <2>1, <2>2, <3>1 DEF Reaches
  <2>4. OnlyAfter({}) /\ OnlyAfter({command.target}) /\ OnlyAfter(RecordedTags(receipt.tags))
    BY <2>1, <2>2 DEF Only, OnlyAfter
  <2>5. CASE Over(receipt)
    BY <1>0, <2>1, <2>3, <2>4, <2>5, EndPush
  <2>6. CASE Goto("delete receipt") /\ UNCHANGED records
    <3>1. GoesTo("delete receipt") /\ HeldInStep' /\ receipt' = receipt
      BY <1>0, <2>1, <2>6, GotoGoes DEF Step, records
    <3> QED
      BY <2>1, <2>2, <2>3, <2>4, <3>1, InstallGoesOnPushing
  <2> QED
    BY <2>1, <2>5, <2>6
<1>13. CASE DeletePartialReceipt
  <2>1. /\ command.op = "install" /\ command.step = "delete receipt"
        /\ UNCHANGED <<stack, github, registry, cleanup, abandoned>>
        /\ Over(NoReceipt)
    BY <1>0, <1>13 DEF DeletePartialReceipt, At, rest, resources
  <2>2. OnlyAfter({}) /\ ~Reaches'
    BY <1>0, <2>1 DEF InstallPush, Only, OnlyAfter, Reaches
  <2> QED
    BY <2>1, <2>2, EndPush
<1> QED
  BY <1>1, <1>2, <1>3, <1>4, <1>5, <1>6, <1>7, <1>8, <1>9, <1>10, <1>11, <1>12, <1>13

\* An adoption goes on to step s.
LEMMA AdoptGoesOnPushing ==
  ASSUME Pushed, command.op = "adopt", NEW s, s # "deploy over", GoesTo(s), HeldInStep',
         receipt'.versions = receipt.versions, UNCHANGED <<abandoned, cleanup>>,
         Reaches' => Reaches,
         s \in {"record adopted", "inventory", "ownership", "finish"} =>
           Reaches' /\ command.target \in registry' /\ OnlyAfter({command.target}),
         s \in {"inventory", "ownership", "finish"} => receipt'.tags.current = command.target,
         s = "leave installing" /\ Reaches' =>
           receipt.versions.current \in abandoned \cup registry'
  PROVE  Pushed'
<1>1. AdoptPush'
  BY DEF Pushed, AdoptPush, GoesTo, Only, OnlyAfter
<1> QED
  BY <1>1
  DEF GoesTo, Pushed, RestingPush, ReceiptPush, ChangePush, InstallPush, DestroyPush, RepairPush,
      Change

\* Once it has deployed, an adoption moves on or is left.
LEMMA AdoptMovesOnPushing ==
  ASSUME Typed, Pushed, command.op = "adopt",
         command.step \in {"record adopted", "inventory", "ownership"},
         NEW s \in {"inventory", "ownership", "finish", "leave installing"}, GoesTo(s),
         HeldInStep', receipt'.versions = receipt.versions,
         s # "leave installing" => receipt'.tags.current = command.target,
         UNCHANGED <<registry, abandoned, cleanup>>, Reaches' = Reaches
  PROVE  Pushed'
<1>1. /\ Reaches' /\ command.target \in registry' /\ OnlyAfter({command.target})
      /\ receipt.versions.current \in abandoned \cup registry'
  BY DEF Pushed, AdoptPush, Only, OnlyAfter
<1> QED
  BY <1>1, AdoptGoesOnPushing

LEMMA BeginAdoptPushes ==
  ASSUME Typed, Pushed, BeginAdopt, ~Fails
  PROVE  Pushed'
<1>1. UNCHANGED <<resources, cleanup, abandoned>> /\ command = Idle
  BY DEF BeginAdopt
<1> PICK v \in Version :
       \/ /\ receipt = NoReceipt
          /\ Creates([FreshReceipt(v) EXCEPT !.application = TRUE], "adopt", "deploy over")
       \/ /\ CanBegin /\ receipt.phase = "installing" /\ Acquire("installing")
          /\ command' = [Idle EXCEPT !.op = "adopt", !.step = "deploy over", !.target = v]
  BY DEF BeginAdopt
<1>2. CASE /\ receipt = NoReceipt
           /\ Creates([FreshReceipt(v) EXCEPT !.application = TRUE], "adopt", "deploy over")
  <2>1. /\ [FreshReceipt(v) EXCEPT !.application = TRUE] \in Receipt
        /\ [FreshReceipt(v) EXCEPT !.application = TRUE].lease = "held"
        /\ [FreshReceipt(v) EXCEPT !.application = TRUE].versions.current = v
        /\ [FreshReceipt(v) EXCEPT !.application = TRUE].versions.previous = None
    BY FreshTyped DEF FreshReceipt
  <2> QED
    BY <1>1, <1>2, <2>1, CreatesPushes
<1>3. CASE /\ CanBegin /\ receipt.phase = "installing" /\ Acquire("installing")
           /\ command' = [Idle EXCEPT !.op = "adopt", !.step = "deploy over", !.target = v]
  <2>1. receipt \in Receipt /\ command.op = "none" /\ receipt # NoReceipt
    BY <1>1, <1>3, IdleTyped DEF CanBegin, Typed, RecordsOK
  <2>2. Adoptable
    BY <1>3, <2>1 DEF Pushed, RestingPush
  <2>3. /\ receipt' # NoReceipt /\ receipt'.lease = "held" /\ held' = receipt'
        /\ receipt'.versions = receipt.versions
    <3>1. receipt' \in Receipt
      BY <1>3, <2>1 DEF Acquire, Receipt, Phase
    <3> QED
      BY <1>3, <2>1, <3>1, NamesDiffer DEF Acquire, Receipt
  <2>4. command'.op = "adopt" /\ command'.step = "deploy over" /\ command'.target = v
    BY <1>3 DEF Idle
  <2>5. HeldInStep'
    BY <2>3 DEF HeldInStep, LeaseHeld
  <2>6. AdoptPush'
    BY <1>1, <2>2, <2>3, <2>4 DEF AdoptPush, Adoptable, Only, Reaches, resources
  <2> QED
    BY <2>4, <2>5, <2>6
    DEF Pushed, RestingPush, ReceiptPush, ChangePush, InstallPush, DestroyPush, RepairPush, Change
<1> QED
  BY <1>2, <1>3

LEMMA AdoptStepPushes ==
  ASSUME Typed, Pushed, Suspension, ~Fails,
         \/ BeginAdopt \/ DeployOver \/ RecordAdopted \/ Inventory \/ ClaimMissing
         \/ FinishAdopt \/ LeaveInstalling
  PROVE  Pushed'
<1>0. ASSUME command.op = "adopt"
      PROVE  /\ receipt \in Receipt /\ receipt # NoReceipt /\ held = receipt /\ LeaseHeld
             /\ receipt.lease = "held"
             /\ UNCHANGED records => HeldInStep'
             /\ AdoptPush /\ command.target \in Version /\ receipt.versions.previous = None
  BY <1>0, HeldKept DEF Pushed, AdoptPush, LeaseHeld, Typed, CommandOK
<1>1. CASE BeginAdopt
  BY <1>1, BeginAdoptPushes
<1>2. CASE DeployOver
  <2>1. /\ command.op = "adopt" /\ command.step = "deploy over"
        /\ UNCHANGED <<github, records, cleanup, abandoned>>
        /\ \/ /\ PassesHealthGate /\ DeployedTo(command.target, stack.secrets)
              /\ Goto("record adopted")
           \/ /\ ~PassesHealthGate /\ PartlyDeployedTo(command.target, stack.secrets)
              /\ Goto("leave installing")
    BY <1>2 DEF DeployOver, At, rest
  <2>a. PassesHealthGate = Reaches
    BY <2>1 DEF Suspension, PassesHealthGate, Reaches
  <2>2. Reaches' = Reaches /\ HeldInStep' /\ receipt' = receipt
    BY <1>0, <2>1, GateKept DEF records
  <2>3. CASE Reaches
    <3>1. registry' = registry \cup {command.target} /\ GoesTo("record adopted") /\ Only({})
      BY <1>0, <2>1, <2>a, <2>3, GotoGoes DEF Step, DeployedTo, AdoptPush
    <3>2. OnlyAfter({command.target}) /\ command.target \in registry'
      BY <2>1, <3>1 DEF Only, OnlyAfter
    <3> QED
      BY <2>1, <2>2, <2>3, <3>1, <3>2, AdoptGoesOnPushing
  <2>4. CASE ~Reaches
    <3>1. GoesTo("leave installing")
      BY <2>1, <2>a, <2>4, GotoGoes DEF Step
    <3> QED
      BY <2>1, <2>2, <2>4, <3>1, AdoptGoesOnPushing
  <2> QED
    BY <2>3, <2>4
<1>3. CASE RecordAdopted
  <2> DEFINE new == [receipt EXCEPT !.application = TRUE,
                                    !.tags = [current |-> command.target, previous |-> None]]
  <2>1. /\ command.op = "adopt" /\ command.step = "record adopted" /\ Goto("inventory")
        /\ receipt' = new /\ held' = new
        /\ UNCHANGED <<stack, registry, github, cleanup, abandoned>>
    BY <1>3 DEF RecordAdopted, At, rest, resources, Record
  <2>2. /\ new.tags.current = command.target /\ new.lease = "held"
        /\ new.versions = receipt.versions /\ new \in Receipt
    <3>1. /\ receipt \in Receipt /\ receipt.lease = "held"
          /\ [current |-> command.target, previous |-> None] \in Tags
      BY <1>0, <2>1 DEF Tags, Tag
    <3> QED
      BY <3>1 DEF Receipt
  <2> HIDE DEF new
  <2>3. GoesTo("inventory") /\ HeldInStep'
    BY <2>1, <2>2, GotoGoes, NamesDiffer DEF Step, HeldInStep, LeaseHeld
  <2> QED
    BY <2>1, <2>2, <2>3, AdoptMovesOnPushing DEF Reaches
<1>4. CASE Inventory
  <2> DEFINE new == [receipt EXCEPT !.app = TRUE, !.installed = github.installed]
  <2>1. /\ command.op = "adopt" /\ command.step = "inventory" /\ Goto("ownership")
        /\ receipt' = new /\ held' = new
        /\ UNCHANGED <<stack, registry, github, cleanup, abandoned>>
    BY <1>4 DEF Inventory, At, rest, resources, Record
  <2>2. /\ new.tags = receipt.tags /\ new.lease = "held"
        /\ new.versions = receipt.versions /\ new \in Receipt
    <3>1. /\ receipt \in Receipt /\ receipt.lease = "held" /\ github.installed \in BOOLEAN
      BY <1>0, <2>1 DEF Typed, ResourcesOK, GitHubType
    <3> QED
      BY <3>1 DEF Receipt
  <2> HIDE DEF new
  <2>3. GoesTo("ownership") /\ HeldInStep'
    BY <2>1, <2>2, GotoGoes, NamesDiffer DEF Step, HeldInStep, LeaseHeld
  <2>4. receipt.tags.current = command.target
    BY <1>0, <2>1 DEF AdoptPush
  <2> QED
    BY <2>1, <2>2, <2>3, <2>4, AdoptMovesOnPushing DEF Reaches
<1>5. CASE ClaimMissing
  <2>1. /\ command.op = "adopt" /\ command.step = "ownership"
        /\ UNCHANGED <<stack, registry, records, cleanup, abandoned>>
        /\ Goto("finish") \/ Goto("leave installing")
        /\ github' \in {github, Marked}
    BY <1>5 DEF ClaimMissing, At, rest
  <2>2. Reaches' = Reaches
    <3>1. Marked.app = github.app
      BY DEF Marked, Typed, ResourcesOK, GitHubType
    <3> QED
      BY <2>1, <3>1 DEF Reaches
  <2>3. /\ GoesTo("finish") \/ GoesTo("leave installing")
        /\ HeldInStep' /\ receipt' = receipt /\ receipt.tags.current = command.target
    BY <1>0, <2>1, GotoGoes DEF Step, records, AdoptPush
  <2> QED
    BY <2>1, <2>2, <2>3, AdoptMovesOnPushing
<1>6. CASE FinishAdopt
  <2>1. /\ command.op = "adopt" /\ command.step = "finish" /\ Over(Settled("active"))
        /\ UNCHANGED <<registry, cleanup, abandoned>>
    BY <1>6 DEF FinishAdopt, At, resources, rest
  <2>2. /\ Settled("active") \in Receipt /\ Settled("active").phase = "active"
        /\ Settled("active").versions = receipt.versions /\ Settled("active").tags = receipt.tags
    BY <1>0, <2>1, SettledTyped DEF Phase
  <2>3. /\ receipt.tags.current = command.target /\ Only({command.target})
        /\ receipt.versions.current \in abandoned \cup {command.target}
    BY <1>0, <2>1 DEF AdoptPush
  <2>4. OnlyAfter(RecordedTags(receipt.tags))
    BY <1>0, <2>1, <2>3, NamesDiffer DEF Only, OnlyAfter, RecordedTags
  <2>5. NamedAfter(receipt.versions, receipt.tags)
    BY <1>0, <2>1, <2>3 DEF NamedAfter
  <2> QED
    BY <2>1, <2>2, <2>4, <2>5, EndPush, NamesDiffer
<1>7. CASE LeaveInstalling
  <2>1. /\ command.op = "adopt" /\ command.step = "leave installing"
        /\ SettleAndEnd("installing")
        /\ abandoned' = abandoned \cup registry /\ UNCHANGED <<stack, registry, github, cleanup>>
    BY <1>7 DEF LeaveInstalling, At, resources
  <2>2. Over(Settled("installing"))
    BY <1>0, <2>1 DEF SettleAndEnd
  <2>3. /\ Settled("installing") \in Receipt
        /\ Settled("installing").versions = receipt.versions
        /\ Settled("installing").tags = receipt.tags
    BY <1>0, <2>1, SettledTyped DEF Phase
  <2>4. OnlyAfter({}) /\ OnlyAfter(RecordedTags(receipt.tags))
    BY <2>1 DEF OnlyAfter
  <2>5. /\ receipt.versions.previous = None
        /\ Reaches' => cleanup' = {} /\ receipt.versions.current \in abandoned'
    BY <1>0, <2>1 DEF AdoptPush, Reaches
  <2>6. Reaches' => NamedAfter(receipt.versions, receipt.tags)
    BY <2>5 DEF NamedAfter
  <2> QED
    BY <2>2, <2>3, <2>4, <2>5, <2>6, EndPush, NamesDiffer
<1> QED
  BY <1>1, <1>2, <1>3, <1>4, <1>5, <1>6, <1>7

\* A destroy or a repair goes on with the receipt it holds, or with one that differs in what
\* the registry has nothing to do with.
LEMMA TeardownGoesOnPushing ==
  ASSUME Pushed, command.op \in {"destroy", "repair"}, NEW s, GoesTo(s), HeldInStep',
         receipt'.versions = receipt.versions, receipt'.tags = receipt.tags,
         receipt'.phase = receipt.phase, receipt # NoReceipt,
         UNCHANGED <<abandoned, cleanup>>, registry' \subseteq registry,
         Reaches' => Reaches,
         command.op = "destroy" /\ s \in {"prune", "verify", "settle"} => ~Reaches',
         command.op = "destroy" /\ s \in {"verify", "settle"} => OnlyAfter({})
  PROVE  Pushed'
<1>1. /\ command'.op = command.op /\ command'.step = s
  BY DEF GoesTo
<1>2. ReceiptPush'
  BY <1>1 DEF Pushed, ReceiptPush, Only, Named
<1>3. DestroyPush' /\ RepairPush'
  BY <1>1 DEF Pushed, DestroyPush, RepairPush, Only, OnlyAfter
<1> QED
  BY <1>1, <1>2, <1>3
  DEF Pushed, RestingPush, ChangePush, InstallPush, AdoptPush, Change

LEMMA BeginTeardownPushes ==
  ASSUME Typed, Pushed, ~Fails, NEW op \in {"destroy", "repair"}, NEW phase \in Phase,
         op = "destroy" => phase = "destroying", op = "repair" => phase = "repairing",
         CanBegin, Acquire(phase), UNCHANGED <<resources, cleanup, abandoned>>,
         command'.op = op, command'.step \notin {"prune", "verify", "settle"}
  PROVE  Pushed'
<1>1. receipt \in Receipt /\ command.op = "none" /\ receipt # NoReceipt
  BY IdleTyped DEF CanBegin, Typed, RecordsOK
<1>2. /\ receipt' # NoReceipt /\ receipt'.lease = "held" /\ held' = receipt'
      /\ receipt'.versions = receipt.versions /\ receipt'.tags = receipt.tags
      /\ receipt'.phase = phase
  <2>1. receipt' \in Receipt
    BY <1>1 DEF Acquire, Receipt
  <2> QED
    BY <1>1, <2>1, NamesDiffer DEF Acquire, Receipt
<1>3. HeldInStep'
  BY <1>2 DEF HeldInStep, LeaseHeld
<1>4. ReceiptPush'
  BY <1>1, <1>2 DEF Pushed, ReceiptPush, Only, Named, Reaches, resources
<1>5. DestroyPush' /\ RepairPush'
  BY <1>2 DEF DestroyPush, RepairPush
<1> QED
  BY <1>3, <1>4, <1>5 DEF Pushed, RestingPush, ChangePush, InstallPush, AdoptPush, Change

\* A destroy or a repair ends with a receipt that has its tags.
LEMMA EndTeardownPushes ==
  ASSUME Typed, Pushed, command.op \in {"destroy", "repair"}, NEW r \in Receipt, Over(r),
         r.versions = receipt.versions, r.tags = receipt.tags, r.phase # "installing",
         UNCHANGED <<stack, registry, github, cleanup, abandoned>>
  PROVE  Pushed'
<1>1. receipt # NoReceipt /\ r # NoReceipt
  BY HeldKept, NamesDiffer
<1>2. /\ Only(RecordedTags(receipt.tags))
      /\ Reaches => Named(receipt.versions, receipt.tags)
  BY <1>1 DEF Pushed, ReceiptPush
<1>3. /\ OnlyAfter(RecordedTags(receipt.tags))
      /\ Reaches' => NamedAfter(receipt.versions, receipt.tags)
  BY <1>2 DEF Only, OnlyAfter, Named, NamedAfter, Reaches
<1> QED
  BY <1>1, <1>3, EndPush

LEMMA DestroyStepPushes ==
  ASSUME Typed, Pushed, ~Fails,
         \/ BeginDestroy \/ SuspendAll \/ DrainAll \/ DeleteOwnership \/ DeleteInstallations
         \/ DeleteApp \/ DestroyStack \/ PruneAll \/ Verify \/ Settle \/ GiveUp
  PROVE  Pushed'
<1>0. ASSUME command.op = "destroy"
      PROVE  /\ receipt \in Receipt /\ receipt # NoReceipt /\ held = receipt /\ LeaseHeld
             /\ UNCHANGED records => (HeldInStep' /\ receipt' = receipt)
             /\ DestroyPush /\ Only(RecordedTags(receipt.tags))
  BY <1>0, HeldKept DEF Pushed, ReceiptPush, records
<1>1. CASE BeginDestroy
  <2>1. command'.op = "destroy" /\ command'.step \in {"suspend", "delete app"}
    BY <1>1 DEF BeginDestroy, Idle
  <2> QED
    BY <1>1, <2>1, BeginTeardownPushes DEF BeginDestroy, Phase
<1>2. CASE SuspendAll \/ DrainAll
  <2>1. /\ command.op = "destroy"
        /\ UNCHANGED <<stack, registry, records, cleanup, abandoned>>
        /\ \/ Goto("drain") \/ Goto("give up") \/ Goto("delete ownership")
        /\ github' \in {github, [github EXCEPT !.suspended = TRUE]}
    BY <1>2 DEF SuspendAll, DrainAll, At, rest, resources, Locks, Locked
  <2>2. \E s \in {"drain", "give up", "delete ownership"} : GoesTo(s)
    BY <2>1, GotoGoes DEF Step
  <2>3. UNCHANGED Reaches
    <3>1. [github EXCEPT !.suspended = TRUE].app = github.app
      BY DEF Typed, ResourcesOK, GitHubType
    <3> QED
      BY <2>1, <3>1 DEF Reaches
  <2> QED
    BY <1>0, <2>1, <2>2, <2>3, TeardownGoesOnPushing
<1>3. CASE DeleteOwnership \/ DeleteInstallations \/ DeleteApp
  <2>1. /\ command.op = "destroy" /\ command \in CommandType
        /\ UNCHANGED <<stack, registry, records, cleanup, abandoned>>
        /\ \/ Goto("delete installations") \/ Goto("delete app") \/ Goto("destroy stack")
           \/ Goto("give up")
           \/ command' = [command EXCEPT !.step = "delete installations", !.residue = {"marker"}]
    BY <1>3 DEF DeleteOwnership, DeleteInstallations, DeleteApp, At, rest, Typed, CommandOK
  <2>2. github' \in {github, Unlocked(github), Locked(Unmarked), Unlocked(Unmarked), Gone(github),
                    [Gone(github) EXCEPT !.app = FALSE]}
    BY <1>3 DEF DeleteOwnership, DeleteInstallations, DeleteApp, Uninstalled
  <2>3. \E s \in {"delete installations", "delete app", "destroy stack", "give up"} : GoesTo(s)
    <3>1. CASE command' = [command EXCEPT !.step = "delete installations", !.residue = {"marker"}]
      <4>1. GoesTo("delete installations")
        BY <2>1, <3>1 DEF GoesTo, CommandType
      <4> QED
        BY <4>1
    <3> QED
      BY <2>1, <3>1, GotoGoes DEF Step
  <2>4. Reaches' => Reaches
    <3>1. github \in GitHubType
      BY DEF Typed, ResourcesOK
    <3>2. Unmarked \in GitHubType /\ Unmarked.app = github.app
      BY <3>1 DEF Unmarked, GitHubType
    <3>3. /\ Unlocked(github).app = github.app /\ Unlocked(Unmarked).app = github.app
          /\ Locked(Unmarked).app = github.app
      BY <3>1, <3>2 DEF Unlocked, Locked, GitHubType
    <3>4. Gone(github) \in GitHubType /\ Gone(github).app = github.app
      BY <3>1 DEF Gone, Unlocked, GitHubType
    <3>5. ~[Gone(github) EXCEPT !.app = FALSE].app
      BY <3>4 DEF GitHubType
    <3>6. github'.app => github.app
      BY <2>2, <3>3, <3>4, <3>5, Zenon
    <3> QED
      BY <2>1, <3>6 DEF Reaches
  <2> QED
    BY <1>0, <2>1, <2>3, <2>4, TeardownGoesOnPushing
<1>4. CASE DestroyStack
  <2>1. /\ command.op = "destroy" /\ Goto("prune") /\ Removed
        /\ UNCHANGED <<registry, github, records, cleanup, abandoned>>
    BY <1>4 DEF DestroyStack, At, rest
  <2>2. GoesTo("prune") /\ ~Reaches'
    BY <2>1, GotoGoes DEF Step, Removed, NoStack, Reaches
  <2> QED
    BY <1>0, <2>1, <2>2, TeardownGoesOnPushing
<1>5. CASE PruneAll
  <2>1. /\ command.op = "destroy" /\ command.step = "prune" /\ Goto("verify")
        /\ registry' = Pruned(RecordedTags(held.tags))
        /\ UNCHANGED <<stack, github, records, cleanup, abandoned>>
    BY <1>5 DEF PruneAll, At, rest
  <2>2. GoesTo("verify") /\ ~Reaches'
    BY <1>0, <2>1, GotoGoes DEF Step, DestroyPush, Reaches
  <2>3. OnlyAfter({}) /\ registry' \subseteq registry
    BY <1>0, <2>1 DEF Only, OnlyAfter, Pruned
  <2> QED
    BY <1>0, <2>1, <2>2, <2>3, TeardownGoesOnPushing
<1>6. CASE Verify
  <2>1. /\ command.op = "destroy" /\ command.step = "verify" /\ command \in CommandType
        /\ command' = [command EXCEPT !.step = "settle", !.residue = ResidueSeen({})]
        /\ UNCHANGED <<stack, registry, github, records, cleanup, abandoned>>
    BY <1>6 DEF Verify, At, rest, resources, Typed, CommandOK
  <2>2. GoesTo("settle") /\ ~Reaches'
    BY <1>0, <2>1 DEF GoesTo, CommandType, DestroyPush, Reaches
  <2>3. OnlyAfter({})
    BY <1>0, <2>1 DEF DestroyPush, Only, OnlyAfter
  <2> QED
    BY <1>0, <2>1, <2>2, <2>3, TeardownGoesOnPushing
<1>7. CASE Settle
  <2> DEFINE kept == [Settled("destroying") EXCEPT !.residue = command.residue]
  <2>1. /\ command.op = "destroy" /\ command.step = "settle"
        /\ Over(NoReceipt) \/ Over(kept)
        /\ UNCHANGED <<stack, registry, github, cleanup, abandoned>>
    BY <1>7 DEF Settle, At, rest, resources
  <2>2. OnlyAfter({}) /\ ~Reaches'
    BY <1>0, <2>1 DEF DestroyPush, Only, OnlyAfter, Reaches
  <2>3. /\ kept \in Receipt /\ kept.phase = "destroying"
        /\ kept.versions = receipt.versions /\ kept.tags = receipt.tags
    <3>1. /\ Settled("destroying") \in Receipt /\ Settled("destroying").phase = "destroying"
          /\ Settled("destroying").versions = receipt.versions
          /\ Settled("destroying").tags = receipt.tags
      BY <1>0, <2>1, SettledTyped DEF Phase
    <3>2. command.residue \in SUBSET Residue
      BY DEF Typed, CommandOK, CommandType
    <3> QED
      BY <3>1, <3>2 DEF Receipt
  <2> HIDE DEF kept
  <2>4. CASE Over(NoReceipt)
    BY <2>2, <2>4, EndPush
  <2>5. CASE Over(kept)
    BY <2>1, <2>3, <2>5, EndTeardownPushes
  <2> QED
    BY <2>1, <2>4, <2>5
<1>8. CASE GiveUp
  <2>1. /\ command.op = "destroy" /\ SettleAndEnd("destroying")
        /\ UNCHANGED <<stack, registry, github, cleanup, abandoned>>
    BY <1>8 DEF GiveUp, At, rest, resources
  <2>2. Over(Settled("destroying"))
    BY <1>0, <2>1 DEF SettleAndEnd
  <2>3. /\ Settled("destroying") \in Receipt /\ Settled("destroying").phase = "destroying"
        /\ Settled("destroying").versions = receipt.versions
        /\ Settled("destroying").tags = receipt.tags
    BY <1>0, <2>1, SettledTyped DEF Phase
  <2> QED
    BY <2>1, <2>2, <2>3, EndTeardownPushes
<1> QED
  BY <1>1, <1>2, <1>3, <1>4, <1>5, <1>6, <1>7, <1>8

LEMMA RepairStepPushes ==
  ASSUME Typed, Pushed, ~Fails,
         \/ BeginRepair \/ RecordApplication \/ RewriteOwnership \/ FinishRepair \/ GiveUpRepair
  PROVE  Pushed'
<1>0. ASSUME command.op = "repair"
      PROVE  /\ receipt \in Receipt /\ receipt # NoReceipt /\ held = receipt /\ LeaseHeld
             /\ receipt.lease = "held"
             /\ UNCHANGED records => (HeldInStep' /\ receipt' = receipt)
             /\ Settled("active") \in Receipt /\ Settled("active").phase = "active"
             /\ Settled("active").versions = receipt.versions
             /\ Settled("active").tags = receipt.tags
  BY <1>0, HeldKept, SettledTyped DEF records, LeaseHeld, Phase
<1>1. CASE BeginRepair
  <2>1. command'.op = "repair" /\ command'.step \in {"record application", "rewrite ownership"}
    BY <1>1 DEF BeginRepair, Idle
  <2> QED
    BY <1>1, <2>1, BeginTeardownPushes DEF BeginRepair, Phase
<1>2. CASE RecordApplication
  <2> DEFINE new == [receipt EXCEPT !.application = TRUE]
  <2>1. /\ command.op = "repair" /\ receipt' = new /\ held' = new
        /\ Goto("rewrite ownership") \/ Goto("finish")
        /\ UNCHANGED <<stack, registry, github, cleanup, abandoned>>
    BY <1>2 DEF RecordApplication, Record, At, rest, resources
  <2>2. /\ new \in Receipt /\ new.lease = "held" /\ new.phase = receipt.phase
        /\ new.versions = receipt.versions /\ new.tags = receipt.tags
    <3>1. receipt \in Receipt /\ receipt.lease = "held"
      BY <1>0, <2>1
    <3> QED
      BY <3>1 DEF Receipt
  <2> HIDE DEF new
  <2>3. HeldInStep'
    BY <2>1, <2>2, NamesDiffer DEF HeldInStep, LeaseHeld
  <2>4. GoesTo("rewrite ownership") \/ GoesTo("finish")
    BY <2>1, GotoGoes DEF Step
  <2>5. UNCHANGED Reaches
    BY <2>1 DEF Reaches
  <2> QED
    BY <1>0, <2>1, <2>2, <2>3, <2>4, <2>5, TeardownGoesOnPushing
<1>3. CASE RewriteOwnership
  <2>1. /\ command.op = "repair" /\ github' \in {github, Rewritten}
        /\ Goto("finish") \/ Goto("give up")
        /\ UNCHANGED <<stack, registry, records, cleanup, abandoned>>
    BY <1>3 DEF RewriteOwnership, At, rest
  <2>2. UNCHANGED Reaches
    <3>1. Rewritten.app = github.app
      BY DEF Rewritten, Typed, ResourcesOK, GitHubType
    <3> QED
      BY <2>1, <3>1 DEF Reaches
  <2>3. GoesTo("finish") \/ GoesTo("give up")
    BY <2>1, GotoGoes DEF Step
  <2> QED
    BY <1>0, <2>1, <2>2, <2>3, TeardownGoesOnPushing
<1>4. CASE FinishRepair \/ GiveUpRepair
  <2>1. /\ command.op = "repair"
        /\ UNCHANGED <<stack, registry, github, cleanup, abandoned>>
    BY <1>4 DEF FinishRepair, GiveUpRepair, At, resources
  <2>2. Over(Settled("active"))
    BY <1>0, <1>4, <2>1 DEF FinishRepair, GiveUpRepair, SettleAndEnd
  <2> QED
    BY <1>0, <2>1, <2>2, EndTeardownPushes
<1> QED
  BY <1>1, <1>2, <1>3, <1>4

\* Steps of no command: a plan is made or dropped, a dead lease released.
LEMMA IdleStepPushes ==
  ASSUME Typed, Pushed,
         \/ PlanRepair \/ DropPlan \/ ReleaseExpired
         \/ UNCHANGED <<stack, registry, github, records, command, cleanup, abandoned>>
  PROVE  Pushed'
<1>1. CASE ReleaseExpired
  <2>1. /\ receipt \in Receipt /\ receipt' = [receipt EXCEPT !.lease = "none"]
        /\ command.op = "none" /\ UNCHANGED <<stack, registry, github, command, cleanup, abandoned>>
    BY <1>1, IdleTyped DEF ReleaseExpired, Typed, RecordsOK, resources
  <2>2. /\ receipt' # NoReceipt /\ receipt # NoReceipt /\ receipt'.phase = receipt.phase
        /\ receipt'.versions = receipt.versions /\ receipt'.tags = receipt.tags
    BY <2>1, NamesDiffer DEF Receipt
  <2>3. UNCHANGED Reaches
    BY <2>1 DEF Reaches
  <2>4. RestingPush'
    BY <2>1, <2>2, <2>3 DEF Pushed, RestingPush, Adoptable, Only
  <2>5. ReceiptPush'
    BY <2>1, <2>2, <2>3 DEF Pushed, ReceiptPush, Only, Named
  <2> QED
    BY <2>1, <2>4, <2>5
    DEF Pushed, HeldInStep, ChangePush, InstallPush, AdoptPush, DestroyPush, RepairPush, Change
<1>2. CASE UNCHANGED <<stack, registry, github, records, command, cleanup, abandoned>>
  <2>1. UNCHANGED <<PassesHealthGate, Reaches, Desired, receipt, held>>
    BY <1>2 DEF PassesHealthGate, Reaches, Desired, records
  <2>2. HeldInStep' /\ RestingPush' /\ ReceiptPush'
    BY <1>2, <2>1 DEF Pushed, HeldInStep, LeaseHeld, RestingPush, Adoptable, ReceiptPush, Only, Named
  <2>3. ChangePush'
    BY <1>2, <2>1 DEF Pushed, ChangePush, Only, Named, Aimed
  <2>4. InstallPush' /\ AdoptPush' /\ DestroyPush' /\ RepairPush'
    BY <1>2, <2>1 DEF Pushed, InstallPush, AdoptPush, DestroyPush, RepairPush, Only
  <2> QED
    BY <2>2, <2>3, <2>4 DEF Pushed
<1>3. CASE PlanRepair \/ DropPlan
  BY <1>2, <1>3 DEF PlanRepair, DropPlan, resources
<1> QED
  BY <1>1, <1>2, <1>3

\* No request has failed and no command has died.
Undisturbed == faults = 0 /\ crashes = 0

LEMMA PushedStep ==
  ASSUME Typed, Suspension, Undisturbed => Pushed, [Next]_vars, Undisturbed'
  PROVE  Pushed'
<1>1. Undisturbed /\ ~Fails /\ ~Crash
  <2>1. faults \in Nat /\ crashes \in Nat
    BY DeploymentConstants DEF Typed, CountsOK
  <2>2. /\ UNCHANGED faults \/ Works \/ Fails
        /\ UNCHANGED crashes \/ (crashes < MaxCrashes /\ crashes' = crashes + 1)
    BY CountsMove
  <2> QED
    BY <2>1, <2>2 DEF Undisturbed, Works, Fails, Crash
<1>2. Pushed
  BY <1>1
<1>3. CASE ChangeStep
  BY <1>1, <1>2, <1>3, ChangeStepPushes
<1>4. CASE InstallStep
  BY <1>1, <1>2, <1>4, InstallStepPushes, AdoptStepPushes DEF InstallStep
<1>5. CASE TeardownStep
  BY <1>1, <1>2, <1>5, DestroyStepPushes, RepairStepPushes, IdleStepPushes DEF TeardownStep
<1>6. CASE UNCHANGED vars
  BY <1>2, <1>6, IdleStepPushes DEF vars, records
<1> QED
  BY <1>1, <1>3, <1>4, <1>5, <1>6 DEF Next

LEMMA PushedInit == Init => Pushed
<1> SUFFICES ASSUME Init PROVE Pushed
  OBVIOUS
<1>1. command.op = "none" /\ receipt = NoReceipt /\ abandoned = registry /\ cleanup = {}
  BY IdleTyped DEF Init
<1> QED
  BY <1>1
  DEF Pushed, HeldInStep, RestingPush, ReceiptPush, ChangePush, InstallPush, AdoptPush, DestroyPush,
      RepairPush, Only, Change

LEMMA PushedAlways == Spec => [](Typed /\ (Undisturbed => Pushed))
<1>1. Init => Typed /\ (Undisturbed => Pushed)
  BY TypedInit, PushedInit
<1>2. Typed /\ Suspension /\ (Undisturbed => Pushed) /\ [Next]_vars
        => (Typed /\ (Undisturbed => Pushed))'
  BY TypedStep, PushedStep
<1> QED
  BY <1>1, <1>2, SuspensionAlways, PTL DEF Spec

\* While nothing fails and no command dies, a command that is over leaves no image behind that
\* neither the receipt records nor a cleanup still removes: whichever commands run one after
\* the other, with removals of copied tags in between, and whatever other deployments record.
THEOREM NothingEverLeftOver == Spec => []NothingLeftOver
<1>1. Typed /\ (Undisturbed => Pushed) => NothingLeftOver
  BY IdleTyped
  DEF NothingLeftOver, Undisturbed, Pushed, RestingPush, ReceiptPush, Only
<1> QED
  BY <1>1, PushedAlways, PTL
=============================================================================
