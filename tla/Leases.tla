------------------------------- MODULE Leases -------------------------------
(***************************************************************************)
(* The receipt of one deployment and the Operation Lease inside it:        *)
(* cli/src/receipts/store.ts and cli/src/receipts/leased-operation.ts.     *)
(*                                                                         *)
(* The receipt is one value of an eventually consistent key-value store:   *)
(* a write replaces it, and for a while (staleness ticks) a read may still  *)
(* be served the value that was replaced.  A command is two fibers,        *)
(* the operation and the heartbeat, which share the receipt the command    *)
(* holds (the Ref `held`) and nothing else.  Every call of the store is    *)
(* the sequence of its backend requests: a read, then a write computed     *)
(* from what was read, then a read-back; anything may happen in between.   *)
(*                                                                         *)
(* Time is the number of ticks that have passed (Ttl, Heartbeat, staleness *)
(* and PollLimit are counted in them).  Instants within a tick are told    *)
(* apart by stamps: every call of the store takes the next one, and        *)
(* updatedAt holds the stamp of the call that wrote the receipt.           *)
(***************************************************************************)
EXTENDS Integers, Sequences, FiniteSets

CONSTANTS
    Command,        \* the commands that may be run against the deployment
    NoReceipt,      \* the key is absent
    NoLease,        \* the lease of a receipt no command holds
    NoCommand,      \* a command that is over before the behaviour starts
    Ttl,            \* lifetime of a lease (15 minutes)
    Heartbeat,      \* the pause between two renewals (5 minutes)
    PollLimit,      \* how long a read waits for a fresh value (44 retries of 2 s)
    HistoryLimit,   \* history entries kept (20)
    Records,        \* bound: the progress updates a command of each role makes
    Scenarios       \* bound: the receipts and roles a behaviour may start from, the
                    \* staleness of its store (up to a minute) and its length in ticks

\* What a command is: deploy creates the receipt; upgrade, rollback and destroy
\* take the lease of one that exists; repair frees an expired lease and takes it,
\* or only frees it when the interrupted command has to be run again.
Role == {"install", "change", "destroy", "repair", "free"}

Fiber == Command \X {"operation", "heartbeat"}
Other(f) == <<f[1], IF f[2] = "operation" THEN "heartbeat" ELSE "operation">>

Outcome == {"open", "completed", "interrupted"}   \* completed: succeeded or failed
Entry == [by : Command \cup {NoCommand}, outcome : Outcome]
Lease == [by : Command \cup {NoCommand}, stamp : Nat, until : Nat]

\* DeploymentReceipt: id is the command that created it, progress the updates
\* recorded in the inventory, each named by its command and its number.
Receipt == [id : Command \cup {NoCommand},
            lease : Lease \cup {NoLease},
            updatedAt : Nat,
            progress : SUBSET (Command \X Nat),
            history : Seq(Entry)]

\* The history of a receipt has an open entry exactly while it carries a lease:
\* the last one, which the lease's command opened.
HistoryFits(r) ==
    /\ r.lease # NoLease =>
          r.history # << >> /\ r.history[Len(r.history)] = [by |-> r.lease.by, outcome |-> "open"]
    /\ \A i \in DOMAIN r.history :
          r.history[i].outcome = "open" => r.lease # NoLease /\ i = Len(r.history)

\* The commands of a behaviour are new to the receipt it starts from: the lease and
\* the entries found there are of a command that is over.
Earlier(r) ==
    /\ r.lease # NoLease => r.lease.by = NoCommand
    /\ \A i \in DOMAIN r.history : r.history[i].by = NoCommand

ASSUME LeaseConstants ==
    /\ NoCommand \notin Command
    /\ NoLease \notin Lease
    /\ NoReceipt \notin Receipt
    /\ {Ttl, Heartbeat, PollLimit, HistoryLimit} \subseteq Nat
    /\ HistoryLimit > 0
    /\ Records \in [Role -> Nat]
    /\ Scenarios \subseteq [receipt : Receipt \cup {NoReceipt}, role : [Command -> Role],
                      staleness : Nat, ticks : Nat]
    /\ \A s \in Scenarios : s.receipt # NoReceipt => HistoryFits(s.receipt) /\ Earlier(s.receipt)

-----------------------------------------------------------------------------
VARIABLES
    kv,         \* the receipt under the deployment's name, or NoReceipt
    replaced,   \* the values replaced a short while ago, still served to some
    clock,      \* the ticks that have passed
    stamp,      \* the number of store calls begun
    stage,      \* how far each command is
    held,       \* the Ref of each command: its copy of the receipt
    call,       \* the store call each fiber is in
    due,        \* when each heartbeat wakes up
    made,       \* the progress updates each command has begun
    undoing,    \* whether each command's operation has failed and is compensating
    role,       \* what each command is, which never changes
    staleness,  \* how long the store may serve a replaced value, which never changes
    lost        \* when each command's lease last went from the store (for the properties)

vars == <<kv, replaced, clock, stamp, stage, held, call, due, made, undoing, role, staleness, lost>>

Stage == {"new", "acquiring", "released", "fencing", "running", "settled", "ended"}
Kind == {"none", "create", "acquire", "release", "renew", "record", "finish", "delete"}
Step == {"idle", "read", "write", "confirm"}

\* A store call in flight: the context it was given (now, the stamp of now, the
\* receipt the command held), the receipt it writes, and when its step began.
Call == [kind : Kind, step : Step, now : Nat, stamp : Nat, began : Nat,
         from : Receipt \cup {NoReceipt}, next : Receipt \cup {NoReceipt}]

Idle == [kind |-> "none", step |-> "idle", now |-> 0, stamp |-> 0, began |-> 0,
         from |-> NoReceipt, next |-> NoReceipt]

Init ==
    /\ \E s \in Scenarios : kv = s.receipt /\ role = s.role /\ staleness = s.staleness
    /\ replaced = {}
    /\ clock = 0
    /\ stamp = 0
    /\ stage = [c \in Command |-> "new"]
    /\ held = [c \in Command |-> NoReceipt]
    /\ call = [f \in Fiber |-> Idle]
    /\ due = [c \in Command |-> 0]
    /\ made = [c \in Command |-> 0]
    /\ undoing = [c \in Command |-> FALSE]
    /\ lost = [c \in Command |-> 0]

-----------------------------------------------------------------------------
(* What the store computes *)

\* What a read may return, and getSince: a value is taken when it is at least
\* as new as the caller asks, or when the polls are used up.
Served == {kv} \cup {r.value : r \in replaced}
Fresh(v, s) == v # NoReceipt /\ v.updatedAt >= s
ReadSince(v, s, began) == v \in Served /\ (Fresh(v, s) \/ clock >= began + PollLimit)

LeaseOf(r, c) == r # NoReceipt /\ r.lease # NoLease /\ r.lease.by = c

Write(v) ==
    /\ kv' = v
    /\ replaced' = replaced \cup {[value |-> kv, until |-> clock + staleness]}
    /\ lost' = [c \in Command |-> IF LeaseOf(kv, c) /\ ~ LeaseOf(v, c) THEN clock ELSE lost[c]]

\* takeRight.  Mutant: the oldest entries are kept.
OldestEntries(h) == SubSeq(h, 1, IF Len(h) > HistoryLimit THEN HistoryLimit ELSE Len(h))
LastEntries(h) == SubSeq(h, IF Len(h) > HistoryLimit THEN Len(h) - HistoryLimit + 1 ELSE 1, Len(h))

Log(h, c, outcome) == LastEntries(Append(h, [by |-> c, outcome |-> outcome]))

\* finishLatestHistory: only the last entry, and only when the lease's command
\* opened it.
CloseHistory(h, c, outcome) ==
    IF h # << >> /\ h[Len(h)] = [by |-> c, outcome |-> "open"]
    THEN [h EXCEPT ![Len(h)] = [by |-> c, outcome |-> outcome]]
    ELSE h

\* Mutants: the lifetime is subtracted; the lease lasts for one heartbeat.
LeaseInThePast(f) == [by |-> f[1], stamp |-> call[f].stamp, until |-> call[f].now - Ttl]
LeaseForABeat(f) == [by |-> f[1], stamp |-> call[f].stamp, until |-> call[f].now + Heartbeat]
NewLease(f) == [by |-> f[1], stamp |-> call[f].stamp, until |-> call[f].now + Ttl]

\* requireLease: the receipt read carries the lease the command holds, and it
\* had not expired when the call began.
LeaseIsMine(f, v) ==
    /\ v # NoReceipt
    /\ v.lease # NoLease
    /\ v.lease = call[f].from.lease
    /\ v.lease.until > call[f].now

-----------------------------------------------------------------------------
(* The steps every store call is made of *)

Open(f, kind, from) ==
    /\ stamp' = stamp + 1
    /\ call' = [call EXCEPT ![f] =
          [kind |-> kind, step |-> "read", now |-> clock, stamp |-> stamp + 1,
           began |-> clock, from |-> from, next |-> NoReceipt]]

Proceed(f, step, next) ==
    call' = [call EXCEPT ![f] =
          [kind |-> call[f].kind, step |-> step, now |-> call[f].now, stamp |-> call[f].stamp,
           began |-> clock, from |-> call[f].from, next |-> next]]

\* The receipt to be written is complete, whatever happens to the stored one.
Prepare(f, id, lease, progress, history) ==
    /\ Proceed(f, "write", [id |-> id, lease |-> lease, updatedAt |-> call[f].stamp,
                            progress |-> progress, history |-> history])
    /\ UNCHANGED <<kv, replaced, clock, stamp, stage, held, due, made, undoing, role, staleness, lost>>

\* hold races the operation with the heartbeat: when one of them is over, the
\* other is interrupted; what the process knew goes with it.
Stop(c, s) ==
    /\ stage' = [stage EXCEPT ![c] = s]
    /\ call' = [f \in Fiber |-> IF f[1] = c THEN Idle ELSE call[f]]
    /\ held' = [held EXCEPT ![c] = NoReceipt]
    /\ due' = [due EXCEPT ![c] = 0]
    /\ made' = [made EXCEPT ![c] = 0]
    /\ undoing' = [undoing EXCEPT ![c] = FALSE]

\* A record, a finish or a deletion that fails is a failure of the operation, which
\* then compensates inside hold, with the heartbeat alive.  A failure of the
\* compensation, of a renewal or of taking the lease is the end of the command.
Drop(f) ==
    IF call[f].kind \in {"record", "finish", "delete"} /\ ~ undoing[f[1]]
    THEN /\ call' = [call EXCEPT ![f] = Idle]
         /\ undoing' = [undoing EXCEPT ![f[1]] = TRUE]
         /\ UNCHANGED <<stage, held, due, made>>
    ELSE Stop(f[1], "ended")

Fail(f) == Drop(f) /\ UNCHANGED <<kv, replaced, clock, stamp, role, staleness, lost>>

-----------------------------------------------------------------------------
(* Taking the lease *)

Expired(v) == v # NoReceipt /\ v.lease # NoLease /\ v.lease.until <= clock

\* A command begins.  Repair frees the lease only when it saw an expired one.
Begin(c, kind) ==
    /\ \/ stage[c] = "new" /\ role[c] = "install" /\ kind = "create"
       \/ stage[c] = "new" /\ role[c] \in {"change", "destroy", "repair"} /\ kind = "acquire"
       \/ /\ stage[c] = "new" /\ role[c] \in {"repair", "free"} /\ kind = "release"
          /\ \E v \in Served : Expired(v)
       \/ stage[c] = "released" /\ kind = "acquire" /\ role[c] = "repair"
    /\ stage' = [stage EXCEPT ![c] = "acquiring"]
    /\ Open(<<c, "operation">>, kind, NoReceipt)
    /\ UNCHANGED <<kv, replaced, clock, held, due, made, undoing, role, staleness, lost>>

\* createWithInstallLease
ReadToCreate(f, v) ==
    /\ call[f].kind = "create" /\ call[f].step = "read"
    /\ v \in Served
    /\ IF v = NoReceipt
       THEN Prepare(f, f[1], NewLease(f), {}, <<[by |-> f[1], outcome |-> "open"]>>)
       ELSE Fail(f)

\* acquireLease: any recorded lease blocks, an expired one too.  The read is a
\* plain get, which does not wait for a fresh value.
ReadToAcquire(f, v) ==
    /\ call[f].kind = "acquire" /\ call[f].step = "read"
    /\ v \in Served
    /\ IF v # NoReceipt /\ v.lease = NoLease
       THEN Prepare(f, v.id, NewLease(f), v.progress, Log(v.history, f[1], "open"))
       ELSE Fail(f)

\* releaseExpiredLeaseForRepair, a plain get too.
ReadToRelease(f, v) ==
    /\ call[f].kind = "release" /\ call[f].step = "read"
    /\ v \in Served
    /\ IF v # NoReceipt /\ v.lease = NoLease THEN
         /\ call' = [call EXCEPT ![f] = Idle]
         /\ stage' = [stage EXCEPT ![f[1]] = "released"]
         /\ UNCHANGED <<kv, replaced, clock, stamp, held, due, made, undoing, role, staleness, lost>>
       ELSE IF v # NoReceipt /\ v.lease.until <= call[f].now THEN
         Prepare(f, v.id, NoLease, v.progress,
                 Log(CloseHistory(v.history, v.lease.by, "interrupted"), f[1], "completed"))
       ELSE Fail(f)

-----------------------------------------------------------------------------
(* Holding it *)

\* hold: an immediate renewal before the effect runs.
Fence(c) ==
    /\ stage[c] = "fencing"
    /\ call[<<c, "operation">>] = Idle
    /\ Open(<<c, "operation">>, "renew", held[c])
    /\ UNCHANGED <<kv, replaced, clock, stage, held, due, made, undoing, role, staleness, lost>>

\* The heartbeat renews when it wakes up, whatever the operation is doing.
Beat(c) ==
    /\ stage[c] = "running"
    /\ call[<<c, "heartbeat">>] = Idle
    /\ clock >= due[c]
    /\ Open(<<c, "heartbeat">>, "renew", held[c])
    /\ UNCHANGED <<kv, replaced, clock, stage, held, due, made, undoing, role, staleness, lost>>

\* The operation records progress and finishes; destroy deletes the receipt
\* instead.  A compensation finishes too, but that of a deploy deletes the receipt.
\* (A finish is the same call in either: undoing matters when it fails.)
Work(c, kind) ==
    /\ stage[c] = "running"
    /\ call[<<c, "operation">>] = Idle
    /\ \/ kind = "record" /\ ~ undoing[c] /\ made[c] < Records[role[c]]
       \/ kind = "finish"
       \/ kind = "delete" /\ role[c] = "destroy" /\ ~ undoing[c]
       \/ kind = "delete" /\ role[c] = "install"
    /\ made' = [made EXCEPT ![c] = IF kind = "record" THEN @ + 1 ELSE @]
    /\ undoing' = [undoing EXCEPT ![c] = @ \/ (kind = "delete" /\ role[c] = "install")]
    /\ Open(<<c, "operation">>, kind, held[c])
    /\ UNCHANGED <<kv, replaced, clock, stage, held, due, role, staleness, lost>>

\* renewLease, updateOperation, finishOperation and deleteReceipt all read the
\* receipt at least as new as the one held and refuse it under another lease.
ReadHeld(f, v) ==
    /\ call[f].kind \in {"renew", "record", "finish", "delete"} /\ call[f].step = "read"
    /\ ReadSince(v, call[f].from.updatedAt, call[f].began)
    /\ \/ /\ LeaseIsMine(f, v)
          /\ \/ call[f].kind = "renew" /\ Prepare(f, v.id, NewLease(f), v.progress, v.history)
             \/ /\ call[f].kind = "record"
                /\ Prepare(f, v.id, v.lease, v.progress \cup {<<f[1], made[f[1]]>>}, v.history)
             \/ /\ call[f].kind = "finish"
                /\ Prepare(f, v.id, NoLease, v.progress,
                           CloseHistory(v.history, f[1], "completed"))
             \/ /\ call[f].kind = "delete" /\ v.id = call[f].from.id
                /\ Prepare(f, v.id, v.lease, v.progress, v.history)
       \/ ~ LeaseIsMine(f, v) /\ Fail(f)
       \/ call[f].kind = "delete" /\ LeaseIsMine(f, v) /\ v.id # call[f].from.id /\ Fail(f)

-----------------------------------------------------------------------------
(* Writing and reading back *)

Put(f) ==
    /\ call[f].step = "write" /\ call[f].kind # "delete"
    /\ Write(call[f].next)
    /\ Proceed(f, "confirm", call[f].next)
    /\ UNCHANGED <<clock, stamp, stage, held, due, made, undoing, role, staleness>>

\* deleteReceipt removes the key.  What it goes on to do with the namespace (the
\* module Account) may fail.
Remove(f) ==
    /\ call[f].step = "write" /\ call[f].kind = "delete"
    /\ Write(NoReceipt)
    /\ Stop(f[1], "settled") \/ Drop(f)
    /\ UNCHANGED <<clock, stamp, role, staleness>>

\* Mutant: the heartbeat sleeps three times as long.
LateBeat == clock + 3 * Heartbeat
NextBeat == clock + Heartbeat

\* putAndConfirmLease, and the read-back of createWithInstallLease.
ConfirmLease(f, v) ==
    /\ call[f].kind \in {"create", "acquire", "renew", "record"} /\ call[f].step = "confirm"
    /\ ReadSince(v, call[f].next.updatedAt, call[f].began)
    /\ IF /\ v # NoReceipt
          /\ v.lease = call[f].next.lease
          /\ call[f].kind = "create" => v.id = f[1]
       THEN /\ held' = [held EXCEPT ![f[1]] = v]
            /\ call' = [call EXCEPT ![f] = Idle]
            /\ stage' = [stage EXCEPT ![f[1]] =
                            IF call[f].kind \in {"create", "acquire"} THEN "fencing" ELSE "running"]
            /\ due' = [due EXCEPT ![f[1]] =
                            IF call[f].kind = "renew" THEN NextBeat ELSE @]
            /\ UNCHANGED <<kv, replaced, clock, stamp, made, undoing, role, staleness, lost>>
       ELSE Fail(f)

\* finishOperation and the release read back without a look at the lease.
ConfirmReleased(f, v) ==
    /\ call[f].kind \in {"finish", "release"} /\ call[f].step = "confirm"
    /\ ReadSince(v, call[f].next.updatedAt, call[f].began)
    /\ IF v # NoReceipt
       THEN /\ Stop(f[1], IF call[f].kind = "finish" THEN "settled" ELSE "released")
            /\ UNCHANGED <<kv, replaced, clock, stamp, role, staleness, lost>>
       ELSE Fail(f)

-----------------------------------------------------------------------------
(* Failures and time *)

\* A request of the operation fails, or its answer is lost.  Where a failure ends
\* the command, it does what Crash does.
RequestFails(f) ==
    /\ call[f].kind \in {"record", "finish", "delete"} /\ ~ undoing[f[1]]
    /\ Fail(f)

\* The process of a command is gone.
Crash(c) ==
    /\ stage[c] \in {"acquiring", "fencing", "running"}
    /\ Stop(c, "ended")
    /\ UNCHANGED <<kv, replaced, clock, stamp, role, staleness, lost>>

\* Punctuality: a request is answered and a fiber goes on within the tick, but
\* a read may poll while a stale value is served, repair may wait for a person
\* to confirm its plan, and an operation may take its time between two calls.
MayWait(f) ==
    CASE call[f].step = "idle" ->
            IF f[2] = "heartbeat" THEN stage[f[1]] = "running" => clock < due[f[1]]
                                  ELSE stage[f[1]] # "fencing"
      [] call[f].step = "read" ->
            \/ call[f].kind = "release"
            \/ /\ call[f].kind \in {"renew", "record", "finish", "delete"}
               /\ clock < call[f].began + PollLimit
               /\ \E v \in Served : ~ Fresh(v, call[f].from.updatedAt)
      [] call[f].step = "write" -> FALSE
      [] call[f].step = "confirm" ->
            /\ clock < call[f].began + PollLimit
            /\ \E v \in Served : ~ Fresh(v, call[f].next.updatedAt)

Tick ==
    /\ \E s \in Scenarios : s.role = role /\ s.staleness = staleness /\ clock < s.ticks
    /\ \A f \in Fiber : MayWait(f)
    /\ clock' = clock + 1
    /\ replaced' = {r \in replaced : r.until > clock}
    /\ UNCHANGED <<kv, stamp, stage, held, call, due, made, undoing, role, staleness, lost>>

Next ==
    \/ \E c \in Command :
          \/ \E kind \in {"create", "acquire", "release"} : Begin(c, kind)
          \/ Fence(c) \/ Beat(c) \/ Crash(c)
          \/ \E kind \in {"record", "finish", "delete"} : Work(c, kind)
    \/ \E f \in Fiber :
          \/ \E v \in Served :
                \/ ReadToCreate(f, v) \/ ReadToAcquire(f, v) \/ ReadToRelease(f, v)
                \/ ReadHeld(f, v) \/ ConfirmLease(f, v) \/ ConfirmReleased(f, v)
          \/ Put(f) \/ Remove(f) \/ RequestFails(f)
    \/ Tick

Spec == Init /\ [][Next]_vars

-----------------------------------------------------------------------------
(* Properties *)

TypeOK ==
    /\ kv \in Receipt \cup {NoReceipt}
    /\ replaced \subseteq [value : Receipt \cup {NoReceipt}, until : Nat]
    /\ clock \in Nat /\ stamp \in Nat
    /\ stage \in [Command -> Stage]
    /\ held \in [Command -> Receipt \cup {NoReceipt}]
    /\ call \in [Fiber -> Call]
    /\ due \in [Command -> Nat] /\ lost \in [Command -> Nat]
    /\ undoing \in [Command -> BOOLEAN]
    /\ made \in [Command -> Nat]
    /\ role \in [Command -> Role] /\ staleness \in Nat

\* Every receipt that is stored, served, held or about to be written.
Receipts == (Served \cup {held[c] : c \in Command} \cup {call[f].next : f \in Fiber}) \ {NoReceipt}

\* finish and repair close the last entry of the history only.  They close the
\* right one, because it is always that of the command whose lease it is.
HistoryMatchesLease == \A r \in Receipts : HistoryFits(r)

Running(c) == stage[c] = "running"

\* A command that loses a race for the lease, or its lease to a command that
\* read an old receipt, does not go on for long: its next renewal finds out, though
\* it may be served the value it lost once more.  Two commands that run side by
\* side are such a loser and the one that took its place.
LoserStops ==
    \A c \in Command : Running(c) /\ ~ LeaseOf(kv, c) =>
        clock <= lost[c] + staleness + Heartbeat + PollLimit

\* Repair takes no lease from a command that is alive and punctual: the lease
\* outlives the heartbeat, the polls of a renewal, a stale read of it and one
\* renewal that a record undoes.  It does not outlive two such renewals.
RepairSparesTheLiving ==
    \A c \in Command : Running(c) =>
        \A r \in Receipts : \A i \in DOMAIN r.history :
            r.history[i] # [by |-> c, outcome |-> "interrupted"]

\* finish or deleteReceipt settles the receipt: the lease does not come back.
SettledIsReleased ==
    \A c \in Command : stage[c] = "settled" => ~ LeaseOf(kv, c)
=============================================================================
