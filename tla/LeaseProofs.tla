---------------------------- MODULE LeaseProofs ----------------------------
(***************************************************************************)
(* Proofs about the module Leases, for any number of commands, any times   *)
(* and any bounds: the types, that the history of every receipt fits the   *)
(* lease it carries, that a command which has lost its lease stops soon,   *)
(* and that repair frees no lease of a command that is alive, as long as   *)
(* the lifetime of a lease outlasts the updates the command makes.         *)
(***************************************************************************)
EXTENDS Leases, SequenceTheorems, TLAPS

-----------------------------------------------------------------------------
(* Histories *)

\* No command is open; the last command is open, it is c's, and no other is.
Closed(h) == \A i \in DOMAIN h : h[i].outcome # "open"
OpenBy(h, c) ==
    /\ h # << >> /\ h[Len(h)] = [by |-> c, outcome |-> "open"]
    /\ \A i \in DOMAIN h : h[i].outcome = "open" => i = Len(h)

LEMMA FitsMeans ==
  ASSUME NEW r
  PROVE  HistoryFits(r) <=> IF r.lease = NoLease THEN Closed(r.history)
                            ELSE OpenBy(r.history, r.lease.by)
BY DEF HistoryFits, Closed, OpenBy

LEMMA EntryTyped ==
  ASSUME NEW c \in Command \cup {NoCommand}, NEW o \in Outcome
  PROVE  [by |-> c, outcome |-> o] \in Entry
BY DEF Entry

LEMMA LimitIsPositive == HistoryLimit \in Nat /\ HistoryLimit > 0
BY LeaseConstants

\* What is cut off is cut off at the front.
LEMMA LastEntriesOf ==
  ASSUME NEW h \in Seq(Entry), h # << >>
  PROVE  /\ LastEntries(h) \in Seq(Entry)
         /\ LastEntries(h) # << >>
         /\ LastEntries(h)[Len(LastEntries(h))] = h[Len(h)]
         /\ \A i \in DOMAIN LastEntries(h) : i # Len(LastEntries(h)) =>
               \E j \in DOMAIN h : j # Len(h) /\ LastEntries(h)[i] = h[j]
<1> DEFINE m == IF Len(h) > HistoryLimit THEN Len(h) - HistoryLimit + 1 ELSE 1
           n == Len(h)
           l == SubSeq(h, m, n)
<1>1. n \in Nat /\ n >= 1 /\ m \in 1 .. n /\ DOMAIN h = 1 .. n
  BY LimitIsPositive, EmptySeq, LenProperties
<1>2. /\ l \in Seq(Entry) /\ Len(l) = n - m + 1
      /\ \A i \in 1 .. n - m + 1 : l[i] = h[m + i - 1]
  <2> HIDE DEF m, n
  <2>1. m \in 1 .. Len(h) + 1 /\ n \in m - 1 .. Len(h) /\ m <= n
    BY <1>1 DEF n
  <2> QED
    BY <2>1, SubSeqProperties
<1>3. l = LastEntries(h) /\ DOMAIN l = 1 .. n - m + 1 /\ l # << >>
  BY <1>1, <1>2, EmptySeq, LenProperties DEF LastEntries
<1>4. l[n - m + 1] = h[n]
  BY <1>1, <1>2
<1>5. ASSUME NEW i \in DOMAIN l, i # Len(l)
      PROVE  \E j \in DOMAIN h : j # n /\ l[i] = h[j]
  <2>1. i \in Int /\ m \in Int /\ i \in 1 .. n - m + 1 /\ i # n - m + 1
    BY <1>1, <1>2, <1>3, <1>5
  <2>2. m + i - 1 \in 1 .. n /\ m + i - 1 # n
    <3> HIDE DEF m, n
    <3> QED
      BY <1>1, <2>1
  <2> QED
    BY <1>1, <1>2, <2>1, <2>2
<1> HIDE DEF l
<1> QED
  BY <1>2, <1>3, <1>4, <1>5

LEMMA LogTyped ==
  ASSUME NEW h \in Seq(Entry), NEW c \in Command, NEW o \in Outcome
  PROVE  Log(h, c, o) \in Seq(Entry)
<1> DEFINE g == Append(h, [by |-> c, outcome |-> o])
<1>1. g \in Seq(Entry) /\ g # << >>
  BY EntryTyped
<1> HIDE DEF g
<1>2. LastEntries(g) \in Seq(Entry)
  BY <1>1, LastEntriesOf
<1> QED
  BY <1>2 DEF Log, g

LEMMA LogOf ==
  ASSUME NEW h \in Seq(Entry), Closed(h), NEW c \in Command
  PROVE  OpenBy(Log(h, c, "open"), c) /\ Closed(Log(h, c, "completed"))
<1> SUFFICES ASSUME NEW o \in {"open", "completed"}
             PROVE  /\ o = "open" => OpenBy(Log(h, c, o), c)
                    /\ o = "completed" => Closed(Log(h, c, o))
  OBVIOUS
<1> DEFINE e == [by |-> c, outcome |-> o]
           g == Append(h, e)
           l == LastEntries(g)
<1>1. e \in Entry
  BY EntryTyped DEF Outcome
<1>2. g \in Seq(Entry) /\ g # << >> /\ Len(g) = Len(h) + 1 /\ g[Len(g)] = e
      /\ \A j \in DOMAIN g : j # Len(g) => j \in DOMAIN h /\ g[j] = h[j]
  BY <1>1
<1>3. /\ l # << >> /\ l[Len(l)] = e
      /\ \A i \in DOMAIN l : i # Len(l) => l[i].outcome # "open"
  <2> HIDE DEF g
  <2>1. /\ l # << >> /\ l[Len(l)] = g[Len(g)]
        /\ \A i \in DOMAIN l : i # Len(l) => \E j \in DOMAIN g : j # Len(g) /\ l[i] = g[j]
    BY <1>2, LastEntriesOf
  <2> HIDE DEF l
  <2> QED
    BY <1>2, <2>1 DEF Closed
<1> QED
  BY <1>3 DEF Log, OpenBy, Closed

LEMMA CloseTyped ==
  ASSUME NEW h \in Seq(Entry), NEW c \in Command \cup {NoCommand}, NEW o \in Outcome
  PROVE  CloseHistory(h, c, o) \in Seq(Entry)
<1>1. [by |-> c, outcome |-> o] \in Entry
  BY EntryTyped
<1>2. CASE h # << >>
  <2>1. Len(h) \in DOMAIN h
    BY <1>2, LenProperties, EmptySeq
  <2>2. [h EXCEPT ![Len(h)] = [by |-> c, outcome |-> o]] \in Seq(Entry)
    BY <1>1, <2>1
  <2> QED
    BY <2>2 DEF CloseHistory
<1> QED
  BY <1>2 DEF CloseHistory

LEMMA CloseOf ==
  ASSUME NEW h \in Seq(Entry), NEW c \in Command \cup {NoCommand}, OpenBy(h, c),
         NEW o \in {"completed", "interrupted"}
  PROVE  Closed(CloseHistory(h, c, o))
<1> DEFINE e == [by |-> c, outcome |-> o]
<1>1. e \in Entry /\ Len(h) \in DOMAIN h
  <2>1. h # << >> /\ o \in Outcome
    BY DEF OpenBy, Outcome
  <2>2. Len(h) \in Nat \ {0} /\ DOMAIN h = 1 .. Len(h)
    BY <2>1, LenProperties, EmptySeq
  <2> QED
    BY <2>1, <2>2, EntryTyped
<1>2. CloseHistory(h, c, o) = [h EXCEPT ![Len(h)] = e]
  BY DEF CloseHistory, OpenBy
<1>3. ASSUME NEW i \in DOMAIN h PROVE [h EXCEPT ![Len(h)] = e][i].outcome # "open"
  BY <1>1 DEF OpenBy
<1> QED
  BY <1>2, <1>3 DEF Closed

-----------------------------------------------------------------------------
(* Types *)

LEMMA Words ==
  /\ {"new", "acquiring", "released", "fencing", "running", "settled", "ended"} \subseteq Stage
  /\ {"none", "create", "acquire", "release", "renew", "record", "finish", "delete"} \subseteq Kind
  /\ {"idle", "read", "write", "confirm"} \subseteq Step
BY DEF Stage, Kind, Step

LEMMA FiberTyped ==
  /\ \A f \in Fiber : f[1] \in Command /\ f = <<f[1], f[2]>>
  /\ \A c \in Command : /\ <<c, "operation">> \in Fiber /\ <<c, "heartbeat">> \in Fiber
                         /\ <<c, "operation">>[1] = c /\ <<c, "heartbeat">>[1] = c
BY DEF Fiber

LEMMA ReceiptTyped ==
  /\ \A r \in Receipt : /\ r.id \in Command \cup {NoCommand} /\ r.lease \in Lease \cup {NoLease}
                        /\ r.updatedAt \in Nat /\ r.progress \in SUBSET (Command \X Nat)
                        /\ r.history \in Seq(Entry)
  /\ \A i \in Command \cup {NoCommand}, l \in Lease \cup {NoLease}, u \in Nat,
        p \in SUBSET (Command \X Nat), h \in Seq(Entry) :
        [id |-> i, lease |-> l, updatedAt |-> u, progress |-> p, history |-> h] \in Receipt
BY DEF Receipt

LEMMA LeaseTyped ==
  \A l \in Lease : l.by \in Command \cup {NoCommand} /\ l.until \in Nat /\ l # NoLease
BY LeaseConstants DEF Lease

LEMMA CallTyped ==
  /\ \A x \in Call : /\ x.kind \in Kind /\ x.step \in Step /\ x.now \in Nat /\ x.stamp \in Nat
                     /\ x.began \in Nat /\ x.from \in Receipt \cup {NoReceipt}
                     /\ x.next \in Receipt \cup {NoReceipt}
  /\ \A k \in Kind, s \in Step, n \in Nat, t \in Nat, b \in Nat,
        f \in Receipt \cup {NoReceipt}, x \in Receipt \cup {NoReceipt} :
        [kind |-> k, step |-> s, now |-> n, stamp |-> t, began |-> b, from |-> f, next |-> x] \in Call
BY DEF Call

LEMMA IdleTyped == Idle \in Call /\ Idle.next = NoReceipt /\ Idle.kind = "none"
BY Words, CallTyped DEF Idle

LEMMA TimesTyped == Ttl \in Nat /\ Heartbeat \in Nat
BY LeaseConstants

LEMMA ServedTyped == TypeOK => Served \subseteq Receipt \cup {NoReceipt}
BY DEF TypeOK, Served

LEMMA NewLeaseTyped ==
  ASSUME TypeOK, NEW f \in Fiber
  PROVE  NewLease(f) \in Lease /\ NewLease(f).by = f[1] /\ NewLease(f) # NoLease
<1>1. call[f].now \in Nat /\ call[f].stamp \in Nat /\ f[1] \in Command
  BY CallTyped, FiberTyped DEF TypeOK
<1>2. NewLease(f) \in Lease
  BY <1>1, TimesTyped DEF NewLease, Lease
<1> QED
  BY <1>2, LeaseTyped DEF NewLease

LEMMA OpenTyped ==
  ASSUME TypeOK, NEW f \in Fiber, NEW k \in Kind, NEW r \in Receipt \cup {NoReceipt}, Open(f, k, r)
  PROVE  call' \in [Fiber -> Call] /\ stamp' \in Nat
<1>1. stamp + 1 \in Nat /\ clock \in Nat /\ call \in [Fiber -> Call]
  BY DEF TypeOK
<1>2. [kind |-> k, step |-> "read", now |-> clock, stamp |-> stamp + 1,
       began |-> clock, from |-> r, next |-> NoReceipt] \in Call
  BY <1>1, Words, CallTyped
<1> QED
  BY <1>1, <1>2 DEF Open

LEMMA ProceedTyped ==
  ASSUME TypeOK, NEW f \in Fiber, NEW s \in Step, NEW r \in Receipt \cup {NoReceipt}, Proceed(f, s, r)
  PROVE  call' \in [Fiber -> Call]
<1>1. clock \in Nat /\ call \in [Fiber -> Call] /\ call[f] \in Call
  BY DEF TypeOK
<1>2. [kind |-> call[f].kind, step |-> s, now |-> call[f].now, stamp |-> call[f].stamp,
       began |-> clock, from |-> call[f].from, next |-> r] \in Call
  BY <1>1, CallTyped
<1> QED
  BY <1>1, <1>2 DEF Proceed

LEMMA StopTyped ==
  ASSUME TypeOK, NEW c \in Command, NEW s \in Stage, Stop(c, s)
  PROVE  /\ stage' \in [Command -> Stage] /\ held' \in [Command -> Receipt \cup {NoReceipt}]
         /\ call' \in [Fiber -> Call] /\ due' \in [Command -> Nat]
         /\ undoing' \in [Command -> BOOLEAN] /\ made' \in [Command -> Nat]
BY IdleTyped DEF Stop, TypeOK

\* A call that fails ends the command, or leaves the rest of it as it is.
GoesOn(f) ==
    /\ call[f].kind \in {"record", "finish", "delete"}
    /\ call' = [call EXCEPT ![f] = Idle]
    /\ undoing' = [undoing EXCEPT ![f[1]] = TRUE]
    /\ UNCHANGED <<stage, held, due, made>>

LEMMA DropMeans == ASSUME NEW f, Drop(f) PROVE GoesOn(f) \/ Stop(f[1], "ended")
BY DEF Drop, GoesOn

LEMMA DropTyped ==
  ASSUME TypeOK, NEW f \in Fiber, Drop(f)
  PROVE  /\ stage' \in [Command -> Stage] /\ held' \in [Command -> Receipt \cup {NoReceipt}]
         /\ call' \in [Fiber -> Call] /\ due' \in [Command -> Nat]
         /\ undoing' \in [Command -> BOOLEAN] /\ made' \in [Command -> Nat]
<1>1. CASE GoesOn(f)
  BY <1>1, IdleTyped DEF GoesOn, TypeOK
<1>2. CASE Stop(f[1], "ended")
  BY <1>2, StopTyped, Words, FiberTyped
<1> QED
  BY <1>1, <1>2, DropMeans

LEMMA FailTyped == ASSUME TypeOK, NEW f \in Fiber, Fail(f) PROVE TypeOK'
BY DropTyped DEF Fail, TypeOK

LEMMA WriteTyped ==
  ASSUME TypeOK, NEW v \in Receipt \cup {NoReceipt}, Write(v)
  PROVE  /\ kv' \in Receipt \cup {NoReceipt}
         /\ replaced' \subseteq [value : Receipt \cup {NoReceipt}, until : Nat]
         /\ lost' \in [Command -> Nat]
<1>1. kv \in Receipt \cup {NoReceipt} /\ clock \in Nat /\ clock + staleness \in Nat
  BY DEF TypeOK
<1>2. [value |-> kv, until |-> clock + staleness] \in [value : Receipt \cup {NoReceipt}, until : Nat]
  BY <1>1
<1> QED
  BY <1>1, <1>2 DEF Write, TypeOK

LEMMA PrepareTyped ==
  ASSUME TypeOK, NEW f \in Fiber, NEW i \in Command \cup {NoCommand}, NEW l \in Lease \cup {NoLease},
         NEW p \in SUBSET (Command \X Nat), NEW h \in Seq(Entry), Prepare(f, i, l, p, h)
  PROVE  TypeOK'
<1> DEFINE r == [id |-> i, lease |-> l, updatedAt |-> call[f].stamp, progress |-> p, history |-> h]
<1>1. call[f].stamp \in Nat
  BY CallTyped DEF TypeOK
<1>2. r \in Receipt
  BY <1>1, ReceiptTyped
<1>3. Proceed(f, "write", r)
  BY DEF Prepare
<1> HIDE DEF r
<1>4. call' \in [Fiber -> Call]
  BY <1>2, <1>3, Words, ProceedTyped
<1> QED
  BY <1>4 DEF Prepare, TypeOK
-----------------------------------------------------------------------------
(* Types of the actions *)

LEMMA BeginTyped ==
  ASSUME TypeOK, NEW c \in Command, NEW k \in {"create", "acquire", "release"}, Begin(c, k)
  PROVE  TypeOK'
<1>1. <<c, "operation">> \in Fiber /\ k \in Kind /\ "acquiring" \in Stage
  BY FiberTyped, Words
<1>2. Open(<<c, "operation">>, k, NoReceipt)
  BY DEF Begin
<1>3. call' \in [Fiber -> Call] /\ stamp' \in Nat
  BY <1>1, <1>2, OpenTyped
<1>4. stage' \in [Command -> Stage]
  BY <1>1 DEF Begin, TypeOK
<1> QED
  BY <1>3, <1>4 DEF Begin, TypeOK

LEMMA CallsTyped ==
  ASSUME TypeOK, NEW c \in Command,
         Fence(c) \/ Beat(c) \/ \E k \in {"record", "finish", "delete"} : Work(c, k)
  PROVE  TypeOK'
<1>1. PICK f \in {<<c, "operation">>, <<c, "heartbeat">>}, k \in {"renew", "record", "finish", "delete"} :
          /\ Open(f, k, held[c])
          /\ UNCHANGED <<kv, replaced, clock, stage, held, due, role, staleness, lost>>
          /\ made' \in [Command -> Nat] /\ undoing' \in [Command -> BOOLEAN]
  <2>1. CASE Fence(c)
    BY <2>1 DEF Fence, TypeOK
  <2>2. CASE Beat(c)
    BY <2>2 DEF Beat, TypeOK
  <2>3. ASSUME NEW k \in {"record", "finish", "delete"}, Work(c, k)
        PROVE  /\ Open(<<c, "operation">>, k, held[c])
               /\ UNCHANGED <<kv, replaced, clock, stage, held, due, role, staleness, lost>>
               /\ made' \in [Command -> Nat] /\ undoing' \in [Command -> BOOLEAN]
    BY <2>3 DEF Work, TypeOK
  <2> QED
    BY <2>1, <2>2, <2>3
<1>2. f \in Fiber /\ k \in Kind /\ held[c] \in Receipt \cup {NoReceipt}
  BY FiberTyped, Words DEF TypeOK
<1>3. call' \in [Fiber -> Call] /\ stamp' \in Nat
  BY <1>1, <1>2, OpenTyped
<1> QED
  BY <1>1, <1>3 DEF TypeOK

LEMMA ReadToCreateTyped ==
  ASSUME TypeOK, NEW f \in Fiber, NEW v, ReadToCreate(f, v)
  PROVE  TypeOK'
<1>1. /\ f[1] \in Command \cup {NoCommand} /\ NewLease(f) \in Lease \cup {NoLease}
      /\ <<[by |-> f[1], outcome |-> "open"]>> \in Seq(Entry) /\ {} \in SUBSET (Command \X Nat)
  <2>1. f[1] \in Command /\ "open" \in Outcome
    BY FiberTyped DEF Outcome
  <2>2. [by |-> f[1], outcome |-> "open"] \in Entry
    BY <2>1, EntryTyped
  <2> QED
    BY <2>1, <2>2, NewLeaseTyped
<1> QED
  BY <1>1, PrepareTyped, FailTyped DEF ReadToCreate

LEMMA ReadToAcquireTyped ==
  ASSUME TypeOK, NEW f \in Fiber, NEW v, ReadToAcquire(f, v)
  PROVE  TypeOK'
<1>1. CASE v # NoReceipt /\ v.lease = NoLease
  <2>1. v \in Receipt /\ "open" \in Outcome /\ f[1] \in Command
    BY <1>1, ServedTyped, FiberTyped DEF ReadToAcquire, Outcome
  <2>2. Log(v.history, f[1], "open") \in Seq(Entry) /\ NewLease(f) \in Lease \cup {NoLease}
    BY <2>1, LogTyped, ReceiptTyped, NewLeaseTyped
  <2> QED
    BY <1>1, <2>1, <2>2, ReceiptTyped, PrepareTyped DEF ReadToAcquire
<1>2. CASE ~(v # NoReceipt /\ v.lease = NoLease)
  BY <1>2, FailTyped DEF ReadToAcquire
<1> QED
  BY <1>1, <1>2

LEMMA ReadToReleaseTyped ==
  ASSUME TypeOK, NEW f \in Fiber, NEW v, ReadToRelease(f, v)
  PROVE  TypeOK'
<1>1. CASE v # NoReceipt /\ v.lease = NoLease
  BY <1>1, IdleTyped, Words DEF ReadToRelease, TypeOK
<1>2. CASE v # NoReceipt /\ v.lease # NoLease /\ v.lease.until <= call[f].now
  <2> DEFINE h == CloseHistory(v.history, v.lease.by, "interrupted")
  <2>1. v \in Receipt /\ {"interrupted", "completed"} \subseteq Outcome /\ f[1] \in Command
    BY <1>2, ServedTyped, FiberTyped DEF ReadToRelease, Outcome
  <2>2. v.lease.by \in Command \cup {NoCommand} /\ v.history \in Seq(Entry)
    BY <1>2, <2>1, LeaseTyped, ReceiptTyped
  <2>3. h \in Seq(Entry)
    BY <2>1, <2>2, CloseTyped
  <2>4. Prepare(f, v.id, NoLease, v.progress, Log(h, f[1], "completed"))
    BY <1>2 DEF ReadToRelease
  <2> HIDE DEF h
  <2>5. Log(h, f[1], "completed") \in Seq(Entry)
    BY <2>1, <2>3, LogTyped
  <2> QED
    BY <2>1, <2>4, <2>5, ReceiptTyped, PrepareTyped
<1>3. CASE ~(v # NoReceipt /\ v.lease = NoLease)
           /\ ~(v # NoReceipt /\ v.lease.until <= call[f].now)
  BY <1>3, FailTyped DEF ReadToRelease
<1> QED
  BY <1>1, <1>2, <1>3

LEMMA ReadHeldTyped ==
  ASSUME TypeOK, NEW f \in Fiber, NEW v, ReadHeld(f, v)
  PROVE  TypeOK'
<1>1. CASE Fail(f)
  BY <1>1, FailTyped
<1>2. CASE ~Fail(f)
  <2>1. /\ v \in Receipt /\ f[1] \in Command /\ "completed" \in Outcome
        /\ NewLease(f) \in Lease \cup {NoLease}
    BY <1>2, ServedTyped, FiberTyped, NewLeaseTyped
       DEF ReadHeld, ReadSince, LeaseIsMine, Outcome
  <2>2. /\ v.id \in Command \cup {NoCommand} /\ v.lease \in Lease \cup {NoLease}
        /\ v.progress \in SUBSET (Command \X Nat) /\ v.history \in Seq(Entry)
    BY <2>1, ReceiptTyped
  <2>3. /\ v.progress \cup {<<f[1], made[f[1]]>>} \in SUBSET (Command \X Nat)
        /\ CloseHistory(v.history, f[1], "completed") \in Seq(Entry)
    BY <2>1, <2>2, CloseTyped DEF TypeOK
  <2> QED
    BY <1>2, <2>1, <2>2, <2>3, PrepareTyped DEF ReadHeld
<1> QED
  BY <1>1, <1>2

LEMMA PutTyped == ASSUME TypeOK, NEW f \in Fiber, Put(f) PROVE TypeOK'
<1>1. call[f].next \in Receipt \cup {NoReceipt} /\ "confirm" \in Step
  BY CallTyped, Words DEF TypeOK
<1>2. call' \in [Fiber -> Call]
  BY <1>1, ProceedTyped DEF Put
<1>3. /\ kv' \in Receipt \cup {NoReceipt} /\ lost' \in [Command -> Nat]
      /\ replaced' \subseteq [value : Receipt \cup {NoReceipt}, until : Nat]
  BY <1>1, WriteTyped DEF Put
<1> QED
  BY <1>2, <1>3 DEF Put, TypeOK

LEMMA RemoveTyped == ASSUME TypeOK, NEW f \in Fiber, Remove(f) PROVE TypeOK'
<1>1. /\ kv' \in Receipt \cup {NoReceipt} /\ lost' \in [Command -> Nat]
      /\ replaced' \subseteq [value : Receipt \cup {NoReceipt}, until : Nat]
      /\ UNCHANGED <<clock, stamp, role, staleness>>
  BY WriteTyped DEF Remove
<1>2. CASE Stop(f[1], "settled")
  <2>1. f[1] \in Command /\ "settled" \in Stage
    BY FiberTyped, Words
  <2> QED
    BY <1>1, <1>2, <2>1, StopTyped DEF TypeOK
<1>3. CASE Drop(f)
  BY <1>1, <1>3, DropTyped DEF TypeOK
<1> QED
  BY <1>2, <1>3 DEF Remove

LEMMA ConfirmLeaseTyped ==
  ASSUME TypeOK, NEW f \in Fiber, NEW v, ConfirmLease(f, v)
  PROVE  TypeOK'
<1>1. CASE Fail(f)
  BY <1>1, FailTyped
<1>2. CASE ~Fail(f)
  <2>1. v \in Receipt \cup {NoReceipt} /\ f[1] \in Command
    BY ServedTyped, FiberTyped DEF ConfirmLease, ReadSince
  <2>2. held' \in [Command -> Receipt \cup {NoReceipt}] /\ call' \in [Fiber -> Call]
    BY <1>2, <2>1, IdleTyped DEF ConfirmLease, TypeOK
  <2>3. stage' \in [Command -> Stage]
    BY <1>2, <2>1, Words DEF ConfirmLease, TypeOK
  <2>4. due' \in [Command -> Nat]
    <3>1. NextBeat \in Nat
      BY TimesTyped DEF NextBeat, TypeOK
    <3> QED
      BY <1>2, <2>1, <3>1 DEF ConfirmLease, TypeOK
  <2> QED
    BY <1>2, <2>2, <2>3, <2>4 DEF ConfirmLease, TypeOK
<1> QED
  BY <1>1, <1>2

LEMMA ConfirmReleasedTyped ==
  ASSUME TypeOK, NEW f \in Fiber, NEW v, ConfirmReleased(f, v)
  PROVE  TypeOK'
<1>1. CASE Fail(f)
  BY <1>1, FailTyped
<1>2. CASE ~Fail(f)
  <2>1. PICK s \in {"settled", "released"} :
          Stop(f[1], s) /\ UNCHANGED <<kv, replaced, clock, stamp, role, staleness, lost>>
    BY <1>2 DEF ConfirmReleased
  <2>2. f[1] \in Command /\ s \in Stage
    BY FiberTyped, Words
  <2> QED
    BY <2>1, <2>2, StopTyped DEF TypeOK
<1> QED
  BY <1>1, <1>2

LEMMA CrashTyped == ASSUME TypeOK, NEW c \in Command, Crash(c) PROVE TypeOK'
BY StopTyped, Words DEF Crash, TypeOK

LEMMA LeasesTickTyped == ASSUME TypeOK, Tick PROVE TypeOK'
BY DEF Tick, TypeOK

\* Every variable has its type.
THEOREM LeasesTyped == Spec => []TypeOK
<1>1. Init => TypeOK
  <2> SUFFICES ASSUME Init PROVE TypeOK
    OBVIOUS
  <2>1. PICK s \in Scenarios : kv = s.receipt /\ role = s.role /\ staleness = s.staleness
    BY DEF Init
  <2>2. s \in [receipt : Receipt \cup {NoReceipt}, role : [Command -> Role],
               staleness : Nat, ticks : Nat]
    BY LeaseConstants
  <2>3. kv \in Receipt \cup {NoReceipt} /\ role \in [Command -> Role] /\ staleness \in Nat
    BY <2>1, <2>2
  <2>4. stage \in [Command -> Stage] /\ call \in [Fiber -> Call]
    BY Words, IdleTyped DEF Init
  <2> QED
    BY <2>3, <2>4 DEF Init, TypeOK
<1>2. TypeOK /\ [Next]_vars => TypeOK'
  <2> SUFFICES ASSUME TypeOK, [Next]_vars PROVE TypeOK'
    OBVIOUS
  <2>1. CASE UNCHANGED vars
    BY <2>1 DEF vars, TypeOK
  <2> QED
    BY <2>1, BeginTyped, CallsTyped, CrashTyped, ReadToCreateTyped, ReadToAcquireTyped,
       ReadToReleaseTyped, ReadHeldTyped, ConfirmLeaseTyped, ConfirmReleasedTyped, PutTyped,
       RemoveTyped, FailTyped, LeasesTickTyped DEF Next, RequestFails
<1> QED
  BY <1>1, <1>2, PTL DEF Spec
-----------------------------------------------------------------------------
(* The invariant *)

(***************************************************************************)
(* HistoryMatchesLease alone is not inductive: a renewal writes a lease    *)
(* of its command over the one it has read, and finish closes the entry of *)
(* its command, so both must know that the lease was their own.  They know *)
(* it from the lease they hold: what a running command holds, what it asks *)
(* a call to compare with and what a call is about to write is its own.    *)
(***************************************************************************)
Fits(v) == v # NoReceipt => HistoryFits(v)

AllFit ==
    /\ \A v \in Served : Fits(v)
    /\ \A c \in Command : Fits(held[c])
    /\ \A f \in Fiber : Fits(call[f].next)

HeldIsMine(c) == stage[c] \in {"fencing", "running"} => LeaseOf(held[c], c)

CallIsMine(f) ==
    /\ call[f].kind \in {"renew", "record", "finish", "delete"} => LeaseOf(call[f].from, f[1])
    /\ call[f].kind \in {"create", "acquire", "renew", "record"} /\ call[f].step \in {"write", "confirm"} =>
          LeaseOf(call[f].next, f[1])

AllMine ==
    /\ \A c \in Command : HeldIsMine(c)
    /\ \A f \in Fiber : CallIsMine(f)

Inv == TypeOK /\ AllFit /\ AllMine

LEMMA IdleIsMine ==
  ASSUME NEW f \in Fiber, call'[f] = Idle
  PROVE  Fits(call'[f].next) /\ CallIsMine(f)'
BY IdleTyped DEF Fits, CallIsMine

LEMMA OpenKeeps ==
  ASSUME Inv, NEW f \in Fiber, NEW k, NEW r, Open(f, k, r),
         k \in {"renew", "record", "finish", "delete"} => LeaseOf(r, f[1])
  PROVE  \A g \in Fiber : Fits(call'[g].next) /\ CallIsMine(g)'
<1> SUFFICES ASSUME NEW g \in Fiber PROVE Fits(call'[g].next) /\ CallIsMine(g)'
  OBVIOUS
<1>1. call \in [Fiber -> Call]
  BY DEF Inv, TypeOK
<1>2. CASE g # f
  <2>1. call'[g] = call[g]
    BY <1>1, <1>2 DEF Open
  <2> QED
    BY <2>1 DEF Inv, AllFit, AllMine, CallIsMine
<1>3. CASE g = f
  <2>1. /\ call'[g].kind = k /\ call'[g].from = r
        /\ call'[g].step = "read" /\ call'[g].next = NoReceipt
    BY <1>1, <1>3 DEF Open
  <2> QED
    BY <1>3, <2>1 DEF Fits, CallIsMine
<1> QED
  BY <1>2, <1>3

LEMMA ProceedKeeps ==
  ASSUME Inv, NEW f \in Fiber, NEW s, NEW r, Proceed(f, s, r), Fits(r),
         call[f].kind \in {"create", "acquire", "renew", "record"} => LeaseOf(r, f[1])
  PROVE  \A g \in Fiber : Fits(call'[g].next) /\ CallIsMine(g)'
<1> SUFFICES ASSUME NEW g \in Fiber PROVE Fits(call'[g].next) /\ CallIsMine(g)'
  OBVIOUS
<1>1. call \in [Fiber -> Call]
  BY DEF Inv, TypeOK
<1>2. CASE g # f
  <2>1. call'[g] = call[g]
    BY <1>1, <1>2 DEF Proceed
  <2> QED
    BY <2>1 DEF Inv, AllFit, AllMine, CallIsMine
<1>3. CASE g = f
  <2>1. /\ call'[g].kind = call[f].kind /\ call'[g].from = call[f].from
        /\ call'[g].next = r
    BY <1>1, <1>3 DEF Proceed
  <2>2. CallIsMine(f)
    BY DEF Inv, AllMine
  <2> QED
    BY <1>3, <2>1, <2>2 DEF CallIsMine
<1> QED
  BY <1>2, <1>3

LEMMA StopKeeps ==
  ASSUME Inv, NEW c \in Command, NEW s \in {"ended", "settled", "released"}, Stop(c, s)
  PROVE  /\ \A d \in Command : Fits(held'[d]) /\ HeldIsMine(d)'
         /\ \A g \in Fiber : Fits(call'[g].next) /\ CallIsMine(g)'
<1>1. ASSUME NEW d \in Command PROVE Fits(held'[d]) /\ HeldIsMine(d)'
  <2>1. CASE d = c
    <3>1. held'[d] = NoReceipt /\ stage'[d] = s
      BY <2>1 DEF Stop, Inv, TypeOK
    <3> QED
      BY <3>1 DEF Fits, HeldIsMine
  <2>2. CASE d # c
    <3>1. held'[d] = held[d] /\ stage'[d] = stage[d]
      BY <2>2 DEF Stop, Inv, TypeOK
    <3> QED
      BY <3>1 DEF HeldIsMine, Inv, AllFit, AllMine
  <2> QED
    BY <2>1, <2>2
<1>2. ASSUME NEW g \in Fiber PROVE Fits(call'[g].next) /\ CallIsMine(g)'
  <2>1. call'[g] = Idle \/ call'[g] = call[g]
    BY DEF Stop
  <2>2. CASE call'[g] = call[g]
    BY <2>2 DEF Inv, AllFit, AllMine, CallIsMine
  <2> QED
    BY <2>1, <2>2, IdleIsMine
<1> QED
  BY <1>1, <1>2

LEMMA HeldKept ==
  ASSUME Inv, UNCHANGED <<stage, held>>
  PROVE  \A d \in Command : Fits(held'[d]) /\ HeldIsMine(d)'
BY DEF Inv, AllFit, AllMine, HeldIsMine

LEMMA ServedKept ==
  ASSUME Inv, kv' = kv, replaced' \subseteq replaced
  PROVE  \A v \in Served' : Fits(v)
BY DEF Inv, AllFit, Served

LEMMA WrittenFits ==
  ASSUME Inv, NEW v, Fits(v), Write(v)
  PROVE  \A w \in Served' : Fits(w)
<1>1. ASSUME NEW w \in Served' PROVE w = v \/ w \in Served
  <2>1. CASE w = kv'
    BY <2>1 DEF Write
  <2>2. ASSUME NEW x \in replaced', w = x.value PROVE w \in Served
    BY <2>2 DEF Write, Served
  <2> QED
    BY <2>1, <2>2 DEF Served
<1> QED
  BY <1>1 DEF Inv, AllFit

\* The parts of a step put together.
LEMMA Together ==
  ASSUME \A v \in Served' : Fits(v),
         \A d \in Command : Fits(held'[d]) /\ HeldIsMine(d)',
         \A g \in Fiber : Fits(call'[g].next) /\ CallIsMine(g)'
  PROVE  (AllFit /\ AllMine)'
BY DEF AllFit, AllMine, Fits

LEMMA DropKeeps ==
  ASSUME Inv, NEW f \in Fiber, Drop(f)
  PROVE  /\ \A d \in Command : Fits(held'[d]) /\ HeldIsMine(d)'
         /\ \A g \in Fiber : Fits(call'[g].next) /\ CallIsMine(g)'
<1>1. CASE GoesOn(f)
  <2>1. ASSUME NEW g \in Fiber PROVE Fits(call'[g].next) /\ CallIsMine(g)'
    <3>1. call'[g] = Idle \/ call'[g] = call[g]
      BY <1>1 DEF GoesOn, Inv, TypeOK
    <3>2. CASE call'[g] = call[g]
      BY <3>2 DEF Inv, AllFit, AllMine, CallIsMine
    <3> QED
      BY <3>1, <3>2, IdleIsMine
  <2> QED
    BY <1>1, <2>1, HeldKept DEF GoesOn
<1>2. CASE Stop(f[1], "ended")
  BY <1>2, FiberTyped, StopKeeps
<1> QED
  BY <1>1, <1>2, DropMeans

LEMMA FailKeeps == ASSUME Inv, NEW f \in Fiber, Fail(f) PROVE (AllFit /\ AllMine)'
BY DropKeeps, ServedKept, Together DEF Fail

LEMMA PrepareKeeps ==
  ASSUME Inv, NEW f \in Fiber, NEW l \in Lease \cup {NoLease},
         NEW p \in SUBSET (Command \X Nat), NEW h \in Seq(Entry), NEW i \in Command \cup {NoCommand},
         Prepare(f, i, l, p, h),
         IF l = NoLease THEN Closed(h) ELSE OpenBy(h, l.by),
         call[f].kind \in {"create", "acquire", "renew", "record"} => l # NoLease /\ l.by = f[1]
  PROVE  (AllFit /\ AllMine)'
<1> DEFINE r == [id |-> i, lease |-> l, updatedAt |-> call[f].stamp, progress |-> p, history |-> h]
<1>1. Proceed(f, "write", r) /\ UNCHANGED <<kv, replaced, stage, held>>
  BY DEF Prepare
<1>2. r.lease = l /\ r.history = h
  OBVIOUS
<1>3. r \in Receipt
  BY CallTyped, ReceiptTyped DEF Inv, TypeOK
<1> HIDE DEF r
<1>4. Fits(r) /\ r # NoReceipt
  BY <1>2, <1>3, FitsMeans, LeaseConstants DEF Fits
<1>5. \A g \in Fiber : Fits(call'[g].next) /\ CallIsMine(g)'
  BY <1>1, <1>2, <1>4, ProceedKeeps DEF LeaseOf
<1> QED
  BY <1>1, <1>5, HeldKept, ServedKept, Together

-----------------------------------------------------------------------------
(* The actions *)

LEMMA BeginKeeps ==
  ASSUME Inv, NEW c \in Command, NEW k \in {"create", "acquire", "release"}, Begin(c, k)
  PROVE  (AllFit /\ AllMine)'
<1>1. \A g \in Fiber : Fits(call'[g].next) /\ CallIsMine(g)'
  <2>1. <<c, "operation">> \in Fiber /\ Open(<<c, "operation">>, k, NoReceipt)
    BY FiberTyped DEF Begin
  <2> QED
    BY <2>1, OpenKeeps
<1>2. ASSUME NEW d \in Command PROVE Fits(held'[d]) /\ HeldIsMine(d)'
  <2>1. held'[d] = held[d] /\ (stage'[d] = stage[d] \/ stage'[d] = "acquiring")
    BY DEF Begin, Inv, TypeOK
  <2> QED
    BY <2>1 DEF HeldIsMine, Inv, AllFit, AllMine
<1>3. UNCHANGED <<kv, replaced>>
  BY DEF Begin
<1> QED
  BY <1>1, <1>2, <1>3, ServedKept, Together

LEMMA CallsKeep ==
  ASSUME Inv, NEW c \in Command,
         Fence(c) \/ Beat(c) \/ \E k \in {"record", "finish", "delete"} : Work(c, k)
  PROVE  (AllFit /\ AllMine)'
<1>1. /\ stage[c] \in {"fencing", "running"} /\ UNCHANGED <<kv, replaced, stage, held>>
      /\ \E f \in {<<c, "operation">>, <<c, "heartbeat">>}, k \in {"renew", "record", "finish", "delete"} :
            Open(f, k, held[c])
  BY DEF Fence, Beat, Work
<1>2. PICK f \in {<<c, "operation">>, <<c, "heartbeat">>}, k \in {"renew", "record", "finish", "delete"} :
          Open(f, k, held[c])
  BY <1>1
<1>3. f \in Fiber /\ f[1] = c /\ LeaseOf(held[c], c)
  BY <1>1, FiberTyped DEF Inv, AllMine, HeldIsMine
<1>4. \A g \in Fiber : Fits(call'[g].next) /\ CallIsMine(g)'
  BY <1>2, <1>3, OpenKeeps
<1> QED
  BY <1>1, <1>4, HeldKept, ServedKept, Together

LEMMA ReadFits ==
  ASSUME Inv, NEW v \in Served, v # NoReceipt
  PROVE  /\ v \in Receipt
         /\ v.id \in Command \cup {NoCommand} /\ v.lease \in Lease \cup {NoLease}
         /\ v.progress \in SUBSET (Command \X Nat) /\ v.history \in Seq(Entry)
         /\ IF v.lease = NoLease THEN Closed(v.history) ELSE OpenBy(v.history, v.lease.by)
<1>1. v \in Receipt /\ HistoryFits(v)
  BY ServedTyped DEF Inv, AllFit, Fits
<1> QED
  BY <1>1, ReceiptTyped, FitsMeans

LEMMA ReadToCreateKeeps ==
  ASSUME Inv, NEW f \in Fiber, NEW v \in Served, ReadToCreate(f, v)
  PROVE  (AllFit /\ AllMine)'
<1> DEFINE h == <<[by |-> f[1], outcome |-> "open"]>>
<1>1. f[1] \in Command /\ "open" \in Outcome /\ TypeOK
  BY FiberTyped DEF Inv, Outcome
<1>2. [by |-> f[1], outcome |-> "open"] \in Entry
  BY <1>1, EntryTyped
<1>3. h \in Seq(Entry) /\ OpenBy(h, f[1])
  BY <1>2 DEF OpenBy
<1>4. NewLease(f) \in Lease /\ NewLease(f).by = f[1] /\ NewLease(f) # NoLease
  BY <1>1, NewLeaseTyped
<1>5. Fail(f) \/ Prepare(f, f[1], NewLease(f), {}, h)
  BY DEF ReadToCreate
<1> HIDE DEF h
<1> QED
  BY <1>1, <1>3, <1>4, <1>5, FailKeeps, PrepareKeeps

LEMMA ReadToAcquireKeeps ==
  ASSUME Inv, NEW f \in Fiber, NEW v \in Served, ReadToAcquire(f, v)
  PROVE  (AllFit /\ AllMine)'
<1>1. CASE v # NoReceipt /\ v.lease = NoLease
  <2>1. f[1] \in Command /\ "open" \in Outcome /\ TypeOK
    BY FiberTyped DEF Inv, Outcome
  <2>2. Log(v.history, f[1], "open") \in Seq(Entry) /\ OpenBy(Log(v.history, f[1], "open"), f[1])
    BY <1>1, <2>1, ReadFits, LogTyped, LogOf
  <2>3. NewLease(f) \in Lease /\ NewLease(f).by = f[1] /\ NewLease(f) # NoLease
    BY <2>1, NewLeaseTyped
  <2>4. Prepare(f, v.id, NewLease(f), v.progress, Log(v.history, f[1], "open"))
    BY <1>1 DEF ReadToAcquire
  <2> QED
    BY <1>1, <2>2, <2>3, <2>4, ReadFits, PrepareKeeps
<1>2. CASE ~(v # NoReceipt /\ v.lease = NoLease)
  BY <1>2, FailKeeps DEF ReadToAcquire
<1> QED
  BY <1>1, <1>2

LEMMA ReadToReleaseKeeps ==
  ASSUME Inv, NEW f \in Fiber, NEW v \in Served, ReadToRelease(f, v)
  PROVE  (AllFit /\ AllMine)'
<1>1. CASE v # NoReceipt /\ v.lease = NoLease
  <2>1. \A g \in Fiber : Fits(call'[g].next) /\ CallIsMine(g)'
    <3> SUFFICES ASSUME NEW g \in Fiber PROVE Fits(call'[g].next) /\ CallIsMine(g)'
      OBVIOUS
    <3>1. call'[g] = Idle \/ call'[g] = call[g]
      BY <1>1 DEF ReadToRelease, Inv, TypeOK
    <3>2. CASE call'[g] = call[g]
      BY <3>2 DEF Inv, AllFit, AllMine, CallIsMine
    <3> QED
      BY <3>1, <3>2, IdleIsMine
  <2>2. ASSUME NEW d \in Command PROVE Fits(held'[d]) /\ HeldIsMine(d)'
    <3>1. held'[d] = held[d] /\ (stage'[d] = stage[d] \/ stage'[d] = "released")
      BY <1>1 DEF ReadToRelease, Inv, TypeOK
    <3> QED
      BY <3>1 DEF HeldIsMine, Inv, AllFit, AllMine
  <2>3. UNCHANGED <<kv, replaced>>
    BY <1>1 DEF ReadToRelease
  <2> QED
    BY <2>1, <2>2, <2>3, ServedKept, Together
<1>2. CASE v # NoReceipt /\ v.lease # NoLease /\ v.lease.until <= call[f].now
  <2> DEFINE h == CloseHistory(v.history, v.lease.by, "interrupted")
  <2>1. f[1] \in Command /\ {"interrupted", "completed"} \subseteq Outcome
    BY FiberTyped DEF Outcome
  <2>2. /\ v.lease.by \in Command \cup {NoCommand} /\ v.history \in Seq(Entry)
        /\ OpenBy(v.history, v.lease.by)
    BY <1>2, ReadFits, LeaseTyped
  <2>3. h \in Seq(Entry) /\ Closed(h)
    BY <2>1, <2>2, CloseTyped, CloseOf
  <2>4. call[f].kind = "release" /\ Prepare(f, v.id, NoLease, v.progress, Log(h, f[1], "completed"))
    BY <1>2 DEF ReadToRelease
  <2> HIDE DEF h
  <2>5. Log(h, f[1], "completed") \in Seq(Entry) /\ Closed(Log(h, f[1], "completed"))
    BY <2>1, <2>3, LogTyped, LogOf
  <2> QED
    BY <1>2, <2>4, <2>5, ReadFits, PrepareKeeps
<1>3. CASE ~(v # NoReceipt /\ v.lease = NoLease)
           /\ ~(v # NoReceipt /\ v.lease.until <= call[f].now)
  BY <1>3, FailKeeps DEF ReadToRelease
<1> QED
  BY <1>1, <1>2, <1>3

LEMMA ReadHeldKeeps ==
  ASSUME Inv, NEW f \in Fiber, NEW v \in Served, ReadHeld(f, v)
  PROVE  (AllFit /\ AllMine)'
<1>1. CASE Fail(f)
  BY <1>1, FailKeeps
<1>2. CASE ~Fail(f)
  <2>1. /\ call[f].kind \in {"renew", "record", "finish", "delete"}
        /\ v # NoReceipt /\ v.lease # NoLease /\ v.lease = call[f].from.lease
    BY <1>2 DEF ReadHeld, LeaseIsMine
  <2>2. v.lease.by = f[1] /\ f[1] \in Command
    BY <2>1, FiberTyped DEF Inv, AllMine, CallIsMine, LeaseOf
  <2>3. OpenBy(v.history, f[1]) /\ v.history \in Seq(Entry)
    BY <2>1, <2>2, ReadFits
  <2>4. NewLease(f) \in Lease /\ NewLease(f).by = f[1] /\ NewLease(f) # NoLease
    BY NewLeaseTyped DEF Inv
  <2>5. CASE call[f].kind = "renew" /\ Prepare(f, v.id, NewLease(f), v.progress, v.history)
    BY <2>1, <2>3, <2>4, <2>5, ReadFits, PrepareKeeps
  <2>6. CASE /\ call[f].kind = "record"
             /\ Prepare(f, v.id, v.lease, v.progress \cup {<<f[1], made[f[1]]>>}, v.history)
    <3>1. v.progress \cup {<<f[1], made[f[1]]>>} \in SUBSET (Command \X Nat)
      BY <2>1, <2>2, ReadFits DEF Inv, TypeOK
    <3> QED
      BY <2>1, <2>2, <2>3, <2>6, <3>1, ReadFits, PrepareKeeps
  <2>7. CASE /\ call[f].kind = "finish"
             /\ Prepare(f, v.id, NoLease, v.progress, CloseHistory(v.history, f[1], "completed"))
    <3>1. /\ CloseHistory(v.history, f[1], "completed") \in Seq(Entry)
          /\ Closed(CloseHistory(v.history, f[1], "completed"))
      BY <2>2, <2>3, CloseTyped, CloseOf DEF Outcome
    <3> QED
      BY <2>1, <2>7, <3>1, ReadFits, PrepareKeeps
  <2>8. CASE call[f].kind = "delete" /\ Prepare(f, v.id, v.lease, v.progress, v.history)
    BY <2>1, <2>2, <2>3, <2>8, ReadFits, PrepareKeeps
  <2> QED
    BY <1>2, <2>5, <2>6, <2>7, <2>8 DEF ReadHeld
<1> QED
  BY <1>1, <1>2

LEMMA PutKeeps == ASSUME Inv, NEW f \in Fiber, Put(f) PROVE (AllFit /\ AllMine)'
<1>1. /\ call[f].step = "write" /\ Write(call[f].next) /\ Proceed(f, "confirm", call[f].next)
      /\ UNCHANGED <<stage, held>>
  BY DEF Put
<1>2. /\ Fits(call[f].next)
      /\ call[f].kind \in {"create", "acquire", "renew", "record"} => LeaseOf(call[f].next, f[1])
  BY <1>1 DEF Inv, AllFit, AllMine, CallIsMine
<1>3. \A g \in Fiber : Fits(call'[g].next) /\ CallIsMine(g)'
  BY <1>1, <1>2, ProceedKeeps
<1> QED
  BY <1>1, <1>2, <1>3, WrittenFits, HeldKept, Together

LEMMA RemoveKeeps == ASSUME Inv, NEW f \in Fiber, Remove(f) PROVE (AllFit /\ AllMine)'
<1>1. /\ f[1] \in Command /\ Write(NoReceipt) /\ Fits(NoReceipt)
      /\ Stop(f[1], "settled") \/ Drop(f)
  BY FiberTyped DEF Remove, Fits
<1>2. \A v \in Served' : Fits(v)
  BY <1>1, WrittenFits
<1>3. CASE Stop(f[1], "settled")
  BY <1>1, <1>2, <1>3, StopKeeps, Together
<1>4. CASE Drop(f)
  BY <1>2, <1>4, DropKeeps, Together
<1> QED
  BY <1>1, <1>3, <1>4

LEMMA ConfirmLeaseKeeps ==
  ASSUME Inv, NEW f \in Fiber, NEW v \in Served, ConfirmLease(f, v)
  PROVE  (AllFit /\ AllMine)'
<1>1. CASE Fail(f)
  BY <1>1, FailKeeps
<1>2. CASE ~Fail(f)
  <2>1. /\ call[f].kind \in {"create", "acquire", "renew", "record"} /\ call[f].step = "confirm"
        /\ v # NoReceipt /\ v.lease = call[f].next.lease
        /\ held' = [held EXCEPT ![f[1]] = v] /\ call' = [call EXCEPT ![f] = Idle]
        /\ UNCHANGED <<kv, replaced>>
        /\ \A d \in Command : d # f[1] => stage'[d] = stage[d]
    BY <1>2 DEF ConfirmLease, Inv, TypeOK
  <2>2. f[1] \in Command /\ LeaseOf(v, f[1]) /\ Fits(v)
    BY <2>1, FiberTyped DEF Inv, AllFit, AllMine, CallIsMine, LeaseOf
  <2>3. \A g \in Fiber : Fits(call'[g].next) /\ CallIsMine(g)'
    <3> SUFFICES ASSUME NEW g \in Fiber PROVE Fits(call'[g].next) /\ CallIsMine(g)'
      OBVIOUS
    <3>1. call'[g] = Idle \/ call'[g] = call[g]
      BY <2>1 DEF Inv, TypeOK
    <3>2. CASE call'[g] = call[g]
      BY <3>2 DEF Inv, AllFit, AllMine, CallIsMine
    <3> QED
      BY <3>1, <3>2, IdleIsMine
  <2>4. ASSUME NEW d \in Command PROVE Fits(held'[d]) /\ HeldIsMine(d)'
    <3>1. CASE d = f[1]
      <4>1. held'[d] = v
        BY <2>1, <3>1 DEF Inv, TypeOK
      <4> QED
        BY <2>2, <3>1, <4>1 DEF HeldIsMine
    <3>2. CASE d # f[1]
      <4>1. held'[d] = held[d] /\ stage'[d] = stage[d]
        BY <2>1, <3>2 DEF Inv, TypeOK
      <4> QED
        BY <4>1 DEF HeldIsMine, Inv, AllFit, AllMine
    <3> QED
      BY <3>1, <3>2
  <2> QED
    BY <2>1, <2>3, <2>4, ServedKept, Together
<1> QED
  BY <1>1, <1>2

LEMMA ConfirmReleasedKeeps ==
  ASSUME Inv, NEW f \in Fiber, NEW v \in Served, ConfirmReleased(f, v)
  PROVE  (AllFit /\ AllMine)'
<1>1. CASE Fail(f)
  BY <1>1, FailKeeps
<1>2. CASE ~Fail(f)
  <2>1. PICK s \in {"settled", "released"} : Stop(f[1], s) /\ UNCHANGED <<kv, replaced>>
    BY <1>2 DEF ConfirmReleased
  <2> QED
    BY <2>1, FiberTyped, StopKeeps, ServedKept, Together
<1> QED
  BY <1>1, <1>2

LEMMA CrashKeeps == ASSUME Inv, NEW c \in Command, Crash(c) PROVE (AllFit /\ AllMine)'
<1>1. Stop(c, "ended") /\ UNCHANGED <<kv, replaced>>
  BY DEF Crash
<1> QED
  BY <1>1, StopKeeps, ServedKept, Together

LEMMA TimeKeeps == ASSUME Inv, Tick \/ UNCHANGED vars PROVE (AllFit /\ AllMine)'
<1>1. UNCHANGED <<kv, stage, held, call>> /\ replaced' \subseteq replaced
  BY DEF Tick, vars
<1>2. \A g \in Fiber : Fits(call'[g].next) /\ CallIsMine(g)'
  BY <1>1 DEF Inv, AllFit, AllMine, CallIsMine
<1> QED
  BY <1>1, <1>2, HeldKept, ServedKept, Together

LEMMA InvAlways == Spec => []Inv
<1>1. Init => AllFit /\ AllMine
  <2> SUFFICES ASSUME Init PROVE AllFit /\ AllMine
    OBVIOUS
  <2>1. PICK s \in Scenarios : kv = s.receipt
    BY DEF Init
  <2>2. Served = {kv} /\ Fits(kv)
    BY <2>1, LeaseConstants DEF Init, Served, Fits
  <2> QED
    BY <2>2, IdleTyped DEF Init, AllFit, AllMine, Fits, HeldIsMine, CallIsMine
<1>2. TypeOK /\ AllFit /\ AllMine /\ [Next]_vars => (AllFit /\ AllMine)'
  <2> SUFFICES ASSUME Inv, [Next]_vars PROVE (AllFit /\ AllMine)'
    BY DEF Inv
  <2> QED
    BY BeginKeeps, CallsKeep, CrashKeeps, ReadToCreateKeeps, ReadToAcquireKeeps,
       ReadToReleaseKeeps, ReadHeldKeeps, ConfirmLeaseKeeps, ConfirmReleasedKeeps, PutKeeps,
       RemoveKeeps, FailKeeps, TimeKeeps DEF Next, RequestFails
<1>3. TypeOK /\ AllFit /\ AllMine => Inv
  BY DEF Inv
<1> QED
  BY <1>1, <1>2, <1>3, LeasesTyped, PTL DEF Spec

\* The history of every receipt - stored, still served, held by a command or
\* about to be written - has an open entry exactly while the receipt carries a
\* lease: the last one, of the lease's command.  So finish and repair, which close
\* the last entry, close that of the command whose lease they take away, whatever
\* races, stale reads, crashes and cuts of the history came before.
THEOREM HistoryAlwaysMatchesLease == Spec => []HistoryMatchesLease
<1>1. Inv => HistoryMatchesLease
  BY DEF Inv, AllFit, Fits, HistoryMatchesLease, Receipts
<1> QED
  BY <1>1, InvAlways, PTL

-----------------------------------------------------------------------------
(* A command that has lost its lease *)

(***************************************************************************)
(* A command that holds no lease in the store may read one still, while    *)
(* the value that was replaced is served.  Only its heartbeat needs to be  *)
(* looked at: it wakes up in time, it polls no longer than it may, and     *)
(* what lets it go on - a lease of the command that it reads back - was    *)
(* served for the last time a staleness after the lease went.  If a write  *)
(* of the command brings the lease back, the count begins anew.            *)
(***************************************************************************)
Beating(c) == call[<<c, "heartbeat">>]

\* Which calls a command makes at which stage.
CallFits(f) ==
    /\ call[f].kind = "none" => call[f].step = "idle"
    /\ call[f].kind \in {"create", "acquire", "release"} => stage[f[1]] = "acquiring"
    /\ call[f].kind = "renew" => stage[f[1]] \in {"fencing", "running"}
    /\ call[f].kind \in {"record", "finish", "delete"} => Running(f[1])
    /\ f[2] = "heartbeat" => call[f].kind \in {"none", "renew"}
                             /\ (call[f].kind = "renew" => Running(f[1]))

WritesOwn(f) == \A c \in Command : LeaseOf(call[f].next, c) => c = f[1]

\* The heartbeat wakes up when it is due and polls no longer than it may.
Punctual(c) ==
    Running(c) =>
       /\ due[c] <= clock + Heartbeat
       /\ Beating(c).step = "idle" => clock <= due[c]
       /\ Beating(c).step = "read" => /\ Beating(c).began <= due[c]
                                      /\ clock <= Beating(c).began + PollLimit
       /\ Beating(c).step = "write" => clock <= due[c] + PollLimit
       /\ Beating(c).step = "confirm" => /\ Beating(c).began <= clock
                                         /\ clock <= Beating(c).began + PollLimit

Mine(c) ==
    /\ \A f \in Fiber : f[1] = c => CallFits(f) /\ WritesOwn(f)
    /\ Punctual(c)

\* A lease of c is served for a staleness after it went from the store, and lets no
\* renewal through but those that are over by then.
Losing(c) ==
    ~LeaseOf(kv, c) =>
       /\ \A r \in replaced : LeaseOf(r.value, c) => r.until <= lost[c] + staleness
       /\ Running(c) => due[c] <= lost[c] + staleness + Heartbeat
       /\ Beating(c).step = "confirm" => Beating(c).began <= lost[c]

Timed ==
    /\ Inv
    /\ \A r \in replaced : clock <= r.until /\ r.until <= clock + staleness
    /\ \A c \in Command : Mine(c) /\ Losing(c)

\* What a step of the command b may be.
Acts(b) ==
    \/ \E kind \in {"create", "acquire", "release"} : Begin(b, kind)
    \/ Fence(b) \/ Beat(b) \/ Crash(b)
    \/ \E kind \in {"record", "finish", "delete"} : Work(b, kind)
    \/ \E f \in Fiber :
          /\ f[1] = b
          /\ \/ \E v \in Served :
                   \/ ReadToCreate(f, v) \/ ReadToAcquire(f, v) \/ ReadToRelease(f, v)
                   \/ ReadHeld(f, v) \/ ConfirmLease(f, v) \/ ConfirmReleased(f, v)
             \/ Put(f) \/ Remove(f) \/ RequestFails(f)

LEMMA NextActs == Next => Tick \/ \E b \in Command : Acts(b)
BY FiberTyped DEF Next, Acts

LEMMA PollTyped == PollLimit \in Nat /\ Heartbeat \in Nat
BY LeaseConstants

\* The numbers a command's punctuality is about.
LEMMA TimesTypedToo ==
  ASSUME TypeOK, NEW c \in Command
  PROVE  /\ lost[c] \in Nat /\ due[c] \in Nat /\ clock \in Nat /\ staleness \in Nat
         /\ Beating(c) \in Call /\ Beating(c).began \in Nat
BY FiberTyped, CallTyped DEF TypeOK, Beating

\* The fibers of a command.
LEMMA TwoFibers ==
  \A c \in Command : \A f \in Fiber :
     f[1] = c => f = <<c, "operation">> \/ f = <<c, "heartbeat">>
BY DEF Fiber

LEMMA StoppedIsMine ==
  ASSUME Timed, NEW c \in Command, NEW s \in {"ended", "settled", "released"}, Stop(c, s)
  PROVE  Mine(c)'
<1>1. stage'[c] = s /\ ~Running(c)'
  BY DEF Stop, Timed, Inv, TypeOK, Running
<1>2. ASSUME NEW f \in Fiber, f[1] = c PROVE CallFits(f)' /\ WritesOwn(f)'
  <2>1. call'[f] = Idle
    BY <1>2 DEF Stop
  <2> QED
    BY <1>2, <2>1 DEF Idle, CallFits, WritesOwn, LeaseOf
<1> QED
  BY <1>1, <1>2 DEF Mine, Punctual

\* A call that begins.
LEMMA OpenedIsMine ==
  ASSUME Timed, NEW c \in Command, NEW f \in Fiber, f[1] = c, NEW kind, NEW r, Open(f, kind, r),
         UNCHANGED <<clock, due>>, \A b \in Command : b # c => stage'[b] = stage[b],
         \/ kind \in {"create", "acquire", "release"} /\ f[2] = "operation"
            /\ stage'[c] = "acquiring" /\ stage[c] \in {"new", "released"}
         \/ kind = "renew" /\ f[2] = "operation" /\ stage' = stage /\ stage[c] = "fencing"
         \/ kind = "renew" /\ f[2] = "heartbeat" /\ stage' = stage /\ Running(c)
            /\ call[f] = Idle /\ clock >= due[c]
         \/ kind \in {"record", "finish", "delete"} /\ f[2] = "operation" /\ stage' = stage
            /\ Running(c)
  PROVE  Mine(c)'
<1>0. /\ call \in [Fiber -> Call] /\ \A g \in Fiber : f[1] = g[1] => CallFits(g) /\ WritesOwn(g)
      /\ Punctual(c)
  BY DEF Timed, Inv, TypeOK, Mine
<1>1. /\ call'[f].kind = kind /\ call'[f].step = "read" /\ call'[f].next = NoReceipt
      /\ call'[f].began = clock
      /\ \A g \in Fiber : g # f => call'[g] = call[g]
  BY <1>0 DEF Open
<1>2. ASSUME NEW g \in Fiber, g[1] = c PROVE CallFits(g)' /\ WritesOwn(g)'
  <2>1. WritesOwn(g)'
    BY <1>0, <1>1, <1>2 DEF WritesOwn, LeaseOf
  <2>2. CASE g = f
    BY <1>1, <2>1, <2>2 DEF CallFits, Running
  <2>3. CASE g # f
    <3>1. call'[g] = call[g] /\ CallFits(g)
      BY <1>0, <1>1, <1>2, <2>3
    <3>2. CASE stage' = stage
      BY <2>1, <3>1, <3>2 DEF CallFits, Running
    <3>3. CASE stage' # stage
      <4>1. f[2] = "operation" /\ stage[c] \in {"new", "released"}
        BY <3>3
      <4>2. g[2] = "heartbeat"
        BY <1>2, <2>3, <4>1 DEF Fiber
      <4> QED
        BY <1>2, <2>1, <3>1, <4>1, <4>2 DEF CallFits, Running
    <3> QED
      BY <3>2, <3>3
  <2> QED
    BY <2>2, <2>3
<1>3. Punctual(c)'
  <2> SUFFICES ASSUME Running(c)' PROVE Punctual(c)'
    BY DEF Punctual
  <2>1. Running(c)
    BY DEF Running
  <2>2. CASE f[2] = "operation"
    <3>1. Beating(c)' = Beating(c)
      BY <1>1, <2>2, FiberTyped DEF Beating
    <3> QED
      BY <1>0, <2>1, <3>1 DEF Punctual
  <2>3. CASE f[2] = "heartbeat"
    <3>1. f = <<c, "heartbeat">>
      BY <2>3, TwoFibers
    <3>2. Beating(c) = Idle /\ clock >= due[c]
      BY <2>3, <3>1 DEF Beating
    <3>3. clock <= due[c] /\ due[c] <= clock + Heartbeat
      BY <1>0, <2>1, <3>2 DEF Punctual, Idle
    <3>4. Beating(c)'.step = "read" /\ Beating(c)'.began = clock
      BY <1>1, <3>1 DEF Beating
    <3>5. clock <= clock + PollLimit
      BY PollTyped, TimesTypedToo DEF Timed, Inv
    <3> QED
      BY <3>3, <3>4, <3>5 DEF Punctual
  <2> QED
    BY <2>2, <2>3 DEF Fiber
<1> QED
  BY <1>2, <1>3 DEF Mine

\* A call is prepared, or its write is done.
LEMMA ProceededIsMine ==
  ASSUME Timed, NEW c \in Command, NEW f \in Fiber, f[1] = c, NEW s \in {"write", "confirm"}, NEW r,
         Proceed(f, s, r), call[f].kind # "none", UNCHANGED <<clock, stage, due>>,
         s = "write" => call[f].step = "read",
         \A d \in Command : LeaseOf(r, d) => d = c
  PROVE  Mine(c)'
<1>0. /\ call \in [Fiber -> Call] /\ \A g \in Fiber : f[1] = g[1] => CallFits(g) /\ WritesOwn(g)
      /\ Punctual(c)
  BY DEF Timed, Inv, TypeOK, Mine
<1>1. /\ call'[f].kind = call[f].kind /\ call'[f].step = s /\ call'[f].next = r
      /\ call'[f].began = clock
      /\ \A g \in Fiber : g # f => call'[g] = call[g]
  BY <1>0 DEF Proceed
<1>2. ASSUME NEW g \in Fiber, g[1] = c PROVE CallFits(g)' /\ WritesOwn(g)'
  <2>1. CASE g = f
    <3>1. CallFits(f)'
      BY <1>0, <1>1 DEF CallFits, Running
    <3>2. WritesOwn(f)'
      BY <1>1 DEF WritesOwn, LeaseOf
    <3> QED
      BY <2>1, <3>1, <3>2
  <2>2. CASE g # f
    BY <1>0, <1>1, <1>2, <2>2 DEF CallFits, WritesOwn, Running
  <2> QED
    BY <2>1, <2>2
<1>3. Punctual(c)'
  <2>1. CASE f = <<c, "heartbeat">>
    <3>1. Beating(c)'.step = s /\ Beating(c)'.began = clock
      BY <1>1, <2>1 DEF Beating
    <3>2. clock <= clock /\ clock <= clock + PollLimit
      BY PollTyped, TimesTypedToo DEF Timed, Inv
    <3>3. Running(c) /\ s = "write" => clock <= due[c] + PollLimit
      <4>1. Running(c) /\ s = "write" => Beating(c).step = "read"
        BY <2>1 DEF Beating
      <4>2. /\ due[c] \in Nat /\ clock \in Nat /\ Beating(c).began \in Nat /\ PollLimit \in Nat
        BY PollTyped, TimesTypedToo DEF Timed, Inv
      <4> QED
        BY <1>0, <4>1, <4>2 DEF Punctual
    <3> QED
      BY <1>0, <3>1, <3>2, <3>3 DEF Punctual, Running
  <2>2. CASE f # <<c, "heartbeat">>
    <3>1. Beating(c)' = Beating(c)
      BY <1>1, <2>2, FiberTyped DEF Beating
    <3> QED
      BY <1>0, <3>1 DEF Punctual, Running
  <2> QED
    BY <2>1, <2>2
<1> QED
  BY <1>2, <1>3 DEF Mine

LEMMA PreparedIsMine ==
  ASSUME Timed, NEW c \in Command, NEW f \in Fiber, f[1] = c, call[f].kind # "none", call[f].step = "read",
         NEW i, NEW l, NEW p, NEW h, Prepare(f, i, l, p, h), l = NoLease \/ l.by = c
  PROVE  Mine(c)'
<1> DEFINE r == [id |-> i, lease |-> l, updatedAt |-> call[f].stamp, progress |-> p, history |-> h]
<1>1. Proceed(f, "write", r) /\ UNCHANGED <<clock, stage, due>>
  BY DEF Prepare
<1>2. \A d \in Command : LeaseOf(r, d) => d = c
  BY DEF LeaseOf
<1> HIDE DEF r
<1> QED
  BY <1>1, <1>2, ProceededIsMine

\* A call of the operation ends while the command goes on.
LEMMA EndedIsMine ==
  ASSUME Timed, NEW c \in Command, NEW f \in Fiber, f[1] = c,
         call' = [call EXCEPT ![f] = Idle], UNCHANGED <<clock, due>>,
         \/ call[f].kind \in {"record", "finish", "delete"} /\ stage' = stage
         \/ /\ call[f].kind \in {"create", "acquire", "release"}
            /\ stage'[c] \in {"fencing", "released"}
  PROVE  Mine(c)'
<1>0. /\ call \in [Fiber -> Call] /\ \A g \in Fiber : f[1] = g[1] => CallFits(g) /\ WritesOwn(g)
      /\ Punctual(c) /\ CallFits(f)
  BY DEF Timed, Inv, TypeOK, Mine
<1>1. f[2] = "operation" /\ f # <<c, "heartbeat">>
  BY <1>0 DEF CallFits, Fiber
<1>2. call'[f] = Idle /\ \A g \in Fiber : g # f => call'[g] = call[g]
  BY <1>0
<1>3. ASSUME NEW g \in Fiber, g[1] = c PROVE CallFits(g)' /\ WritesOwn(g)'
  <2>1. CASE g = f
    BY <1>2, <2>1 DEF Idle, CallFits, WritesOwn, LeaseOf
  <2>2. CASE g # f
    <3>1. g[2] = "heartbeat" /\ call'[g] = call[g]
      BY <1>1, <1>2, <1>3, <2>2 DEF Fiber
    <3>2. CASE stage' = stage
      BY <1>0, <1>3, <3>1, <3>2 DEF CallFits, WritesOwn, Running
    <3>3. CASE stage' # stage
      <4>1. stage[c] = "acquiring"
        BY <1>0, <3>3 DEF CallFits
      <4> QED
        BY <1>0, <1>3, <3>1, <4>1 DEF CallFits, WritesOwn, Running
    <3> QED
      BY <3>2, <3>3
  <2> QED
    BY <2>1, <2>2
<1>4. Punctual(c)'
  <2>1. Beating(c)' = Beating(c)
    BY <1>1, <1>2, FiberTyped DEF Beating
  <2>2. Running(c)' => Running(c)
    BY DEF Running
  <2> QED
    BY <1>0, <2>1, <2>2 DEF Punctual
<1> QED
  BY <1>3, <1>4 DEF Mine

LEMMA DroppedIsMine ==
  ASSUME Timed, NEW c \in Command, NEW f \in Fiber, f[1] = c, Drop(f), clock' = clock
  PROVE  Mine(c)'
<1>1. CASE GoesOn(f)
  BY <1>1, EndedIsMine DEF GoesOn
<1>2. CASE Stop(f[1], "ended")
  BY <1>2, StoppedIsMine
<1> QED
  BY <1>1, <1>2, DropMeans

LEMMA FailedIsMine ==
  ASSUME Timed, NEW c \in Command, NEW f \in Fiber, f[1] = c, Fail(f)
  PROVE  Mine(c)'
BY DroppedIsMine DEF Fail

\* A renewal that is confirmed sets the next one off.
LEMMA RenewedIsMine ==
  ASSUME Timed, NEW c \in Command, NEW f \in Fiber, f[1] = c, call[f].kind = "renew",
         call' = [call EXCEPT ![f] = Idle], clock' = clock,
         stage' = [stage EXCEPT ![c] = "running"],
         due' = [due EXCEPT ![c] = NextBeat]
  PROVE  Mine(c)'
<1>0. /\ call \in [Fiber -> Call] /\ \A g \in Fiber : f[1] = g[1] => CallFits(g) /\ WritesOwn(g)
      /\ Punctual(c) /\ CallFits(f) /\ TypeOK
  BY DEF Timed, Inv, TypeOK, Mine
<1>1. stage[c] \in {"fencing", "running"}
  BY <1>0 DEF CallFits
<1>2. call'[f] = Idle /\ \A g \in Fiber : g # f => call'[g] = call[g]
  BY <1>0
<1>3. ASSUME NEW g \in Fiber, g[1] = c PROVE CallFits(g)' /\ WritesOwn(g)'
  <2>0. Running(c)' /\ stage'[c] = "running"
    BY <1>0 DEF Running, TypeOK
  <2>1. CASE g = f
    BY <1>2, <2>1 DEF Idle, CallFits, WritesOwn, LeaseOf
  <2>2. CASE g # f
    BY <1>0, <1>1, <1>2, <1>3, <2>0, <2>2 DEF CallFits, WritesOwn, Running
  <2> QED
    BY <2>1, <2>2
<1>4. Punctual(c)'
  <2>1. due'[c] = clock + Heartbeat
    BY <1>0 DEF TypeOK, NextBeat
  <2>3. clock \in Nat /\ Heartbeat \in Nat /\ due[c] \in Nat /\ PollLimit \in Nat
    BY <1>0, PollTyped DEF TypeOK
  <2>5. clock <= due'[c] /\ due'[c] <= clock + Heartbeat
    BY <2>1, <2>3
  <2>6. CASE Beating(c)' = Idle
    BY <2>5, <2>6 DEF Punctual, Idle
  <2>7. CASE Beating(c)' # Idle
    <3>1. Beating(c)' = Beating(c) /\ f[2] = "operation"
      <4>1. f # <<c, "heartbeat">>
        BY <1>2, <2>7 DEF Beating
      <4> QED
        BY <1>2, <4>1, TwoFibers, FiberTyped DEF Beating
    <3>2. CASE Running(c)
      <4>1. Beating(c).step = "read" => Beating(c).began <= due'[c]
        <5>1. due[c] <= clock + Heartbeat /\ (Beating(c).step = "read" => Beating(c).began <= due[c])
          BY <1>0, <3>2 DEF Punctual
        <5> QED
          BY <1>0, <2>1, <2>3, <5>1, TimesTypedToo
      <4>0. Beating(c).step = "write" => clock <= due'[c] + PollLimit
        BY <2>1, <2>3
      <4>2. Beating(c).step = "read" => clock <= Beating(c).began + PollLimit
        BY <1>0, <3>2 DEF Punctual
      <4>3. Beating(c).step = "confirm" => Beating(c).began <= clock
                                          /\ clock <= Beating(c).began + PollLimit
        BY <1>0, <3>2 DEF Punctual
      <4> QED
        BY <2>5, <3>1, <4>0, <4>1, <4>2, <4>3 DEF Punctual
    <3>3. CASE ~Running(c)
      <4>1. CallFits(<<c, "heartbeat">>)
        BY <1>0, FiberTyped
      <4>2. Beating(c).step = "idle"
        BY <3>3, <4>1 DEF CallFits, Beating
      <4> QED
        BY <2>5, <3>1, <4>2 DEF Punctual
    <3> QED
      BY <3>2, <3>3
  <2> QED
    BY <2>6, <2>7
<1> QED
  BY <1>3, <1>4 DEF Mine

LEMMA ReadsAreMine ==
  ASSUME Timed, NEW c \in Command, NEW f \in Fiber, f[1] = c, NEW v \in Served,
         ReadToCreate(f, v) \/ ReadToAcquire(f, v) \/ ReadToRelease(f, v) \/ ReadHeld(f, v)
  PROVE  Mine(c)'
<1>1. CASE Fail(f)
  BY <1>1, FailedIsMine
<1>2. NewLease(f).by = c
  BY DEF NewLease
<1>3. CASE ReadToCreate(f, v) /\ ~Fail(f)
  BY <1>2, <1>3, PreparedIsMine DEF ReadToCreate
<1>4. CASE ReadToAcquire(f, v) /\ ~Fail(f)
  BY <1>2, <1>4, PreparedIsMine DEF ReadToAcquire
<1>5. CASE ReadToRelease(f, v) /\ ~Fail(f)
  <2>1. CASE v # NoReceipt /\ v.lease = NoLease
    <3>1. /\ call[f].kind = "release" /\ call' = [call EXCEPT ![f] = Idle]
          /\ stage' = [stage EXCEPT ![c] = "released"] /\ UNCHANGED <<clock, due>>
      BY <1>5, <2>1 DEF ReadToRelease
    <3>2. stage'[c] = "released"
      BY <3>1 DEF Timed, Inv, TypeOK
    <3> QED
      BY <3>1, <3>2, EndedIsMine
  <2>2. CASE ~(v # NoReceipt /\ v.lease = NoLease)
    BY <1>5, <2>2, PreparedIsMine DEF ReadToRelease
  <2> QED
    BY <2>1, <2>2
<1>6. CASE ReadHeld(f, v) /\ ~Fail(f)
  <2>1. /\ call[f].kind \in {"renew", "record", "finish", "delete"} /\ v.lease = call[f].from.lease
        /\ v # NoReceipt
    BY <1>6 DEF ReadHeld, LeaseIsMine
  <2>2. v.lease.by = c
    BY <2>1 DEF Timed, Inv, AllMine, CallIsMine, LeaseOf
  <2> QED
    BY <1>2, <1>6, <2>1, <2>2, PreparedIsMine DEF ReadHeld
<1> QED
  BY <1>1, <1>3, <1>4, <1>5, <1>6

LEMMA ConfirmsAreMine ==
  ASSUME Timed, NEW c \in Command, NEW f \in Fiber, f[1] = c, NEW v \in Served,
         ConfirmLease(f, v) \/ ConfirmReleased(f, v)
  PROVE  Mine(c)'
<1>1. CASE Fail(f)
  BY <1>1, FailedIsMine
<1>2. CASE ConfirmReleased(f, v) /\ ~Fail(f)
  BY <1>2, StoppedIsMine DEF ConfirmReleased
<1>3. CASE ConfirmLease(f, v) /\ ~Fail(f)
  <2>0. /\ call[f].kind \in {"create", "acquire", "renew", "record"}
        /\ call' = [call EXCEPT ![f] = Idle] /\ clock' = clock
        /\ stage' = [stage EXCEPT ![c] = IF call[f].kind \in {"create", "acquire"}
                                         THEN "fencing" ELSE "running"]
        /\ due' = [due EXCEPT ![c] = IF call[f].kind = "renew" THEN NextBeat ELSE @]
    BY <1>3 DEF ConfirmLease
  <2>1. CallFits(f) /\ TypeOK
    BY DEF Timed, Mine, Inv
  <2>2. CASE call[f].kind = "renew"
    BY <2>0, <2>2, RenewedIsMine
  <2>3. CASE call[f].kind \in {"create", "acquire"}
    <3>1. stage[c] = "acquiring"
      BY <2>1, <2>3 DEF CallFits
    <3>2. due' = due /\ stage'[c] = "fencing"
      BY <2>0, <2>1, <2>3, <3>1 DEF TypeOK
    <3> QED
      BY <2>0, <2>3, <3>2, EndedIsMine
  <2>4. CASE call[f].kind = "record"
    <3>1. stage[c] = "running"
      BY <2>1, <2>4 DEF CallFits, Running
    <3>2. due' = due /\ stage' = stage
      BY <2>0, <2>1, <2>4, <3>1 DEF TypeOK
    <3> QED
      BY <2>0, <2>4, <3>2, EndedIsMine
  <2> QED
    BY <2>0, <2>2, <2>3, <2>4
<1> QED
  BY <1>1, <1>2, <1>3

LEMMA ActsAreMine == ASSUME Timed, NEW c \in Command, Acts(c) PROVE Mine(c)'
<1>0. /\ <<c, "operation">> \in Fiber /\ <<c, "heartbeat">> \in Fiber
      /\ <<c, "operation">>[1] = c /\ <<c, "heartbeat">>[1] = c
      /\ <<c, "operation">>[2] = "operation" /\ <<c, "heartbeat">>[2] = "heartbeat"
      /\ TypeOK
  BY FiberTyped DEF Timed, Inv
<1>1. ASSUME NEW k \in {"create", "acquire", "release"}, Begin(c, k) PROVE Mine(c)'
  <2>1. /\ Open(<<c, "operation">>, k, NoReceipt) /\ UNCHANGED <<clock, due>>
        /\ stage[c] \in {"new", "released"} /\ stage' = [stage EXCEPT ![c] = "acquiring"]
    BY <1>1 DEF Begin
  <2>2. stage'[c] = "acquiring" /\ \A b \in Command : b # c => stage'[b] = stage[b]
    BY <1>0, <2>1 DEF TypeOK
  <2> QED
    BY <1>0, <2>1, <2>2, OpenedIsMine
<1>2. CASE Fence(c)
  BY <1>0, <1>2, OpenedIsMine DEF Fence
<1>3. CASE Beat(c)
  BY <1>0, <1>3, OpenedIsMine DEF Beat, Running
<1>4. ASSUME NEW k \in {"record", "finish", "delete"}, Work(c, k) PROVE Mine(c)'
  BY <1>0, <1>4, OpenedIsMine DEF Work, Running
<1>5. CASE Crash(c)
  BY <1>5, StoppedIsMine DEF Crash
<1>6. ASSUME NEW f \in Fiber, f[1] = c, Put(f) PROVE Mine(c)'
  <2>1. /\ call[f].step = "write" /\ Proceed(f, "confirm", call[f].next)
        /\ UNCHANGED <<clock, stage, due>>
    BY <1>6 DEF Put
  <2>2. /\ call[f].kind # "none"
        /\ \A d \in Command : LeaseOf(call[f].next, d) => d = c
    BY <1>6, <2>1 DEF Timed, Mine, CallFits, WritesOwn
  <2> QED
    BY <1>6, <2>1, <2>2, ProceededIsMine
<1>7. ASSUME NEW f \in Fiber, f[1] = c, Remove(f) \/ RequestFails(f) PROVE Mine(c)'
  BY <1>7, StoppedIsMine, DroppedIsMine, FailedIsMine DEF Remove, RequestFails
<1> QED
  BY <1>1, <1>2, <1>3, <1>4, <1>5, <1>6, <1>7, ReadsAreMine, ConfirmsAreMine DEF Acts

\* The step of a command leaves the others as they are.
OthersStay(b) ==
    /\ clock' = clock
    /\ \A c \in Command : c # b => stage'[c] = stage[c] /\ due'[c] = due[c]
    /\ \A f \in Fiber : f[1] # b => call'[f] = call[f]

LEMMA ActsLeaveOthers == ASSUME Inv, NEW b \in Command, Acts(b) PROVE OthersStay(b)
<1>0. /\ call \in [Fiber -> Call] /\ stage \in [Command -> Stage]
      /\ due \in [Command -> Nat]
      /\ <<b, "operation">>[1] = b /\ <<b, "heartbeat">>[1] = b
  BY FiberTyped DEF Inv, TypeOK
<1>1. ASSUME NEW s, Stop(b, s), clock' = clock PROVE OthersStay(b)
  BY <1>0, <1>1 DEF OthersStay, Stop
<1>12. ASSUME NEW f \in Fiber, f[1] = b, Drop(f), clock' = clock PROVE OthersStay(b)
  BY <1>0, <1>1, <1>12, DropMeans DEF OthersStay, GoesOn
<1>2. ASSUME NEW f \in Fiber, f[1] = b, Fail(f) PROVE OthersStay(b)
  BY <1>2, <1>12 DEF Fail
<1>3. ASSUME NEW f \in Fiber, f[1] = b, NEW i, NEW l, NEW p, NEW h, Prepare(f, i, l, p, h)
      PROVE  OthersStay(b)
  BY <1>0, <1>3 DEF OthersStay, Prepare, Proceed
<1>4. CASE Fence(b) \/ Beat(b) \/ Crash(b)
  BY <1>0, <1>1, <1>4 DEF OthersStay, Fence, Beat, Crash, Open
<1>5. CASE \/ \E kind \in {"create", "acquire", "release"} : Begin(b, kind)
           \/ \E kind \in {"record", "finish", "delete"} : Work(b, kind)
  BY <1>0, <1>5 DEF OthersStay, Begin, Work, Open
<1>6. ASSUME NEW f \in Fiber, f[1] = b, NEW v \in Served,
             ReadToCreate(f, v) \/ ReadToAcquire(f, v) \/ ReadHeld(f, v)
      PROVE  OthersStay(b)
  BY <1>2, <1>3, <1>6 DEF ReadToCreate, ReadToAcquire, ReadHeld
<1>7. ASSUME NEW f \in Fiber, f[1] = b, NEW v \in Served, ReadToRelease(f, v) PROVE OthersStay(b)
  BY <1>0, <1>2, <1>3, <1>7 DEF OthersStay, ReadToRelease
<1>8. ASSUME NEW f \in Fiber, f[1] = b, NEW v \in Served, ConfirmLease(f, v) PROVE OthersStay(b)
  BY <1>0, <1>2, <1>8 DEF OthersStay, ConfirmLease
<1>9. ASSUME NEW f \in Fiber, f[1] = b, NEW v \in Served, ConfirmReleased(f, v) PROVE OthersStay(b)
  BY <1>1, <1>2, <1>9 DEF ConfirmReleased
<1>10. ASSUME NEW f \in Fiber, f[1] = b, Put(f) \/ Remove(f) \/ RequestFails(f) PROVE OthersStay(b)
  BY <1>0, <1>1, <1>2, <1>10, <1>12 DEF OthersStay, Put, Remove, RequestFails, Proceed
<1>11. ASSUME NEW f \in Fiber, f[1] = b,
              \/ \E v \in Served :
                    \/ ReadToCreate(f, v) \/ ReadToAcquire(f, v) \/ ReadToRelease(f, v)
                    \/ ReadHeld(f, v) \/ ConfirmLease(f, v) \/ ConfirmReleased(f, v)
              \/ Put(f) \/ Remove(f) \/ RequestFails(f)
       PROVE  OthersStay(b)
  BY <1>6, <1>7, <1>8, <1>9, <1>10, <1>11
<1> QED
  BY <1>4, <1>5, <1>11 DEF Acts

\* What a step of a command adds to what is served, and until when.
ServesOnly(b) ==
    /\ \A v \in Served' : \/ v \in Served \/ v = NoReceipt
                          \/ \E f \in Fiber : f[1] = b /\ call[f].step = "write" /\ v = call[f].next
    /\ \A r \in replaced' : r \in replaced \/ (r.value = kv /\ r.until = clock + staleness)

LEMMA ActsServe == ASSUME Inv, NEW b \in Command, Acts(b) PROVE ServesOnly(b)
<1>1. CASE UNCHANGED <<kv, replaced>>
  BY <1>1 DEF ServesOnly, Served
<1>2. ASSUME NEW v, Write(v),
             \/ v = NoReceipt
             \/ \E f \in Fiber : f[1] = b /\ call[f].step = "write" /\ v = call[f].next
      PROVE  ServesOnly(b)
  <2>1. kv' = v /\ \A r \in replaced' : r \in replaced \/ (r.value = kv /\ r.until = clock + staleness)
    BY <1>2 DEF Write
  <2>2. \A w \in Served' : w = v \/ w \in Served
    BY <2>1 DEF Served
  <2> QED
    BY <1>2, <2>1, <2>2 DEF ServesOnly
<1>3. ASSUME NEW f \in Fiber, f[1] = b,
             \/ \E v \in Served :
                   \/ ReadToCreate(f, v) \/ ReadToAcquire(f, v) \/ ReadToRelease(f, v)
                   \/ ReadHeld(f, v) \/ ConfirmLease(f, v) \/ ConfirmReleased(f, v)
             \/ RequestFails(f)
      PROVE  UNCHANGED <<kv, replaced>>
  BY <1>3 DEF ReadToCreate, ReadToAcquire, ReadToRelease, ReadHeld, ConfirmLease, ConfirmReleased,
              RequestFails, Fail, Prepare
<1>4. CASE \/ \E kind \in {"create", "acquire", "release"} : Begin(b, kind)
           \/ Fence(b) \/ Beat(b) \/ Crash(b)
           \/ \E kind \in {"record", "finish", "delete"} : Work(b, kind)
  <2>1. UNCHANGED <<kv, replaced>>
    BY <1>4 DEF Begin, Fence, Beat, Crash, Work
  <2> QED
    BY <1>1, <2>1
<1>5. ASSUME NEW f \in Fiber, f[1] = b, Put(f) \/ Remove(f) PROVE ServesOnly(b)
  BY <1>2, <1>5 DEF Put, Remove
<1>6. ASSUME NEW f \in Fiber, f[1] = b,
             \/ \E v \in Served :
                   \/ ReadToCreate(f, v) \/ ReadToAcquire(f, v) \/ ReadToRelease(f, v)
                   \/ ReadHeld(f, v) \/ ConfirmLease(f, v) \/ ConfirmReleased(f, v)
             \/ Put(f) \/ Remove(f) \/ RequestFails(f)
      PROVE  ServesOnly(b)
  BY <1>1, <1>3, <1>5, <1>6
<1> QED
  BY <1>4, <1>6 DEF Acts

LEMMA TickIsPunctual ==
  ASSUME Timed, Tick, NEW c \in Command
  PROVE  Mine(c)'
<1>1. /\ UNCHANGED <<stage, call, due>> /\ clock' = clock + 1 /\ \A f \in Fiber : MayWait(f)
  BY DEF Tick
<1>2. ASSUME NEW f \in Fiber, f[1] = c PROVE CallFits(f)' /\ WritesOwn(f)'
  BY <1>1, <1>2 DEF Timed, Mine, CallFits, WritesOwn, Running
<1>3. Punctual(c)'
  <2> SUFFICES ASSUME Running(c) PROVE Punctual(c)'
    BY <1>1 DEF Punctual, Running
  <2>0. /\ due[c] \in Nat /\ clock \in Nat
        /\ Beating(c).began \in Nat /\ PollLimit \in Nat /\ Heartbeat \in Nat
        /\ <<c, "heartbeat">> \in Fiber /\ <<c, "heartbeat">>[1] = c
        /\ <<c, "heartbeat">>[2] = "heartbeat"
    BY TimesTypedToo, PollTyped, FiberTyped DEF Timed, Inv
  <2>1. CallFits(<<c, "heartbeat">>) /\ MayWait(<<c, "heartbeat">>)
    BY <1>1, <2>0 DEF Timed, Mine
  <2>2. Beating(c).kind \in {"none", "renew"}
    BY <2>0, <2>1 DEF CallFits, Beating
  <2>3. due[c] <= clock + 1 + Heartbeat
    BY <2>0 DEF Timed, Mine, Punctual
  <2>4. Beating(c).step = "idle" => clock + 1 <= due[c]
    <3>1. Beating(c).step = "idle" => clock < due[c]
      BY <2>0, <2>1 DEF MayWait, Beating, Running
    <3> QED
      BY <2>0, <3>1
  <2>5. Beating(c).step = "read" => clock + 1 <= Beating(c).began + PollLimit
    <3>1. Beating(c).step = "read" => clock < Beating(c).began + PollLimit
      BY <2>1, <2>2 DEF MayWait, Beating
    <3> QED
      BY <2>0, <3>1
  <2>6. Beating(c).step = "confirm" => clock + 1 <= Beating(c).began + PollLimit
    <3>1. Beating(c).step = "confirm" => clock < Beating(c).began + PollLimit
      BY <2>1, <2>2 DEF MayWait, Beating
    <3> QED
      BY <2>0, <3>1
  <2>7. /\ Beating(c).step = "read" => Beating(c).began <= due[c]
        /\ Beating(c).step = "confirm" => Beating(c).began <= clock + 1
    BY <2>0 DEF Timed, Mine, Punctual
  <2>8. Beating(c)' = Beating(c)
    BY <1>1 DEF Beating
  <2>9. Beating(c).step # "write"
    BY <2>1, <2>2 DEF MayWait, Beating
  <2> QED
    BY <1>1, <2>3, <2>4, <2>5, <2>6, <2>7, <2>8, <2>9 DEF Punctual
<1> QED
  BY <1>2, <1>3 DEF Mine

\* What a step writes, if anything, goes through Write.
Stored ==
    /\ staleness' = staleness
    /\ UNCHANGED <<kv, replaced, lost>> \/ Write(kv')

LEMMA ActsStore == ASSUME NEW b \in Command, Acts(b) PROVE Stored
<1>1. ASSUME NEW f \in Fiber,
             \/ \E v \in Served :
                   \/ ReadToCreate(f, v) \/ ReadToAcquire(f, v) \/ ReadToRelease(f, v)
                   \/ ReadHeld(f, v) \/ ConfirmLease(f, v) \/ ConfirmReleased(f, v)
             \/ RequestFails(f)
      PROVE  Stored
  BY <1>1 DEF Stored, ReadToCreate, ReadToAcquire, ReadToRelease, ReadHeld, ConfirmLease,
              ConfirmReleased, RequestFails, Fail, Prepare
<1>2. ASSUME NEW f \in Fiber, Put(f) \/ Remove(f) PROVE Stored
  BY <1>2 DEF Stored, Put, Remove, Write
<1>3. CASE \/ \E kind \in {"create", "acquire", "release"} : Begin(b, kind)
           \/ Fence(b) \/ Beat(b) \/ Crash(b)
           \/ \E kind \in {"record", "finish", "delete"} : Work(b, kind)
  BY <1>3 DEF Stored, Begin, Fence, Beat, Crash, Work
<1> QED
  BY <1>1, <1>2, <1>3 DEF Acts

\* A command goes on until its next beat, which only a lease of its own that it read
\* puts off; its heartbeat waits for the read-back of what it has written.
GoesOnUntil(b) ==
    /\ Running(b)' => \/ Running(b) /\ due'[b] = due[b]
                      \/ due'[b] = clock + Heartbeat /\ \E v \in Served : LeaseOf(v, b)
    /\ Beating(b)'.step = "confirm" => Beating(b)' = Beating(b) \/ LeaseOf(kv', b)

LEMMA ActsGoOn == ASSUME Timed, NEW b \in Command, Acts(b) PROVE GoesOnUntil(b)
<1>0. /\ stage \in [Command -> Stage] /\ due \in [Command -> Nat] /\ call \in [Fiber -> Call]
      /\ <<b, "operation">> \in Fiber /\ <<b, "heartbeat">> \in Fiber
      /\ \A f \in Fiber : f[1] = b => CallFits(f) /\ CallIsMine(f)
  BY FiberTyped DEF Timed, Inv, TypeOK, Mine, AllMine
<1>1. ASSUME NEW s \in {"ended", "settled", "released"}, Stop(b, s) PROVE GoesOnUntil(b)
  <2>1. stage'[b] = s /\ Beating(b)' = Idle
    BY <1>0, <1>1, FiberTyped DEF Stop, Beating
  <2> QED
    BY <2>1 DEF GoesOnUntil, Running, Idle
<1>2. ASSUME NEW f \in Fiber, f[1] = b, \A g \in Fiber : g # f => call'[g] = call[g],
             f[2] = "operation" \/ call'[f].step \in {"idle", "read", "write"}
      PROVE  Beating(b)'.step = "confirm" => Beating(b)' = Beating(b)
  <2>1. CASE f = <<b, "heartbeat">>
    BY <1>2, <2>1 DEF Beating
  <2>2. CASE f # <<b, "heartbeat">>
    BY <1>0, <1>2, <2>2 DEF Beating
  <2> QED
    BY <2>1, <2>2
<1>3. ASSUME due' = due, Running(b)' => Running(b),
             Beating(b)'.step = "confirm" => Beating(b)' = Beating(b)
      PROVE  GoesOnUntil(b)
  BY <1>3 DEF GoesOnUntil
<1>4. ASSUME NEW f \in Fiber, f[1] = b, Drop(f) PROVE GoesOnUntil(b)
  <2>1. CASE GoesOn(f)
    <3>1. call'[f] = Idle /\ \A g \in Fiber : g # f => call'[g] = call[g]
      BY <1>0, <2>1 DEF GoesOn
    <3> QED
      BY <1>2, <1>3, <1>4, <2>1, <3>1 DEF GoesOn, Idle, Running
  <2> QED
    BY <1>1, <1>4, <2>1, DropMeans
<1>5. ASSUME NEW f \in Fiber, f[1] = b, NEW i, NEW l, NEW p, NEW h, Prepare(f, i, l, p, h)
      PROVE  GoesOnUntil(b)
  <2>1. call'[f].step = "write" /\ \A g \in Fiber : g # f => call'[g] = call[g]
    BY <1>0, <1>5 DEF Prepare, Proceed
  <2> QED
    BY <1>2, <1>3, <1>5, <2>1 DEF Prepare, Running
<1>6. ASSUME NEW f \in {<<b, "operation">>, <<b, "heartbeat">>}, NEW k, NEW r, Open(f, k, r),
             due' = due, stage' = stage \/ stage'[b] = "acquiring"
      PROVE  GoesOnUntil(b)
  <2>1. f \in Fiber /\ f[1] = b
    BY <1>0, FiberTyped
  <2>2. call'[f].step = "read" /\ \A g \in Fiber : g # f => call'[g] = call[g]
    BY <1>0, <1>6, <2>1 DEF Open
  <2> QED
    BY <1>2, <1>3, <1>6, <2>1, <2>2 DEF Running
<1>7. CASE Crash(b)
  BY <1>1, <1>7 DEF Crash
<1>8. ASSUME NEW k \in {"create", "acquire", "release"}, Begin(b, k) PROVE GoesOnUntil(b)
  BY <1>0, <1>6, <1>8 DEF Begin
<1>9. CASE Fence(b) \/ Beat(b) \/ \E k \in {"record", "finish", "delete"} : Work(b, k)
  BY <1>6, <1>9 DEF Fence, Beat, Work
<1>10. ASSUME NEW f \in Fiber, f[1] = b, NEW v \in Served,
              \/ ReadToCreate(f, v) \/ ReadToAcquire(f, v) \/ ReadToRelease(f, v) \/ ReadHeld(f, v)
       PROVE  GoesOnUntil(b)
  <2>1. CASE Fail(f)
    BY <1>4, <1>10, <2>1 DEF Fail
  <2>2. CASE ReadToCreate(f, v) /\ ~Fail(f)
    BY <1>5, <1>10, <2>2 DEF ReadToCreate
  <2>3. CASE ReadToAcquire(f, v) /\ ~Fail(f)
    BY <1>5, <1>10, <2>3 DEF ReadToAcquire
  <2>4. CASE ReadHeld(f, v) /\ ~Fail(f)
    BY <1>5, <1>10, <2>4 DEF ReadHeld
  <2>5. CASE ReadToRelease(f, v) /\ ~Fail(f)
    <3>1. CASE v # NoReceipt /\ v.lease = NoLease
      <4>1. /\ call'[f] = Idle /\ due' = due /\ stage'[b] = "released"
            /\ \A g \in Fiber : g # f => call'[g] = call[g]
        BY <1>0, <1>10, <2>5, <3>1 DEF ReadToRelease
      <4> QED
        BY <1>2, <1>3, <1>10, <4>1 DEF Idle, Running
    <3>2. CASE ~(v # NoReceipt /\ v.lease = NoLease)
      BY <1>5, <1>10, <2>5, <3>2 DEF ReadToRelease
    <3> QED
      BY <3>1, <3>2
  <2> QED
    BY <1>10, <2>1, <2>2, <2>3, <2>4, <2>5
<1>11. ASSUME NEW f \in Fiber, f[1] = b, NEW v \in Served, ConfirmLease(f, v) PROVE GoesOnUntil(b)
  <2>1. CASE Fail(f)
    BY <1>4, <1>11, <2>1 DEF Fail
  <2>2. CASE ~Fail(f)
    <3>1. /\ call[f].kind \in {"create", "acquire", "renew", "record"} /\ call[f].step = "confirm"
          /\ v # NoReceipt /\ v.lease = call[f].next.lease
          /\ call' = [call EXCEPT ![f] = Idle]
          /\ stage' = [stage EXCEPT ![b] = IF call[f].kind \in {"create", "acquire"}
                                           THEN "fencing" ELSE "running"]
          /\ due' = [due EXCEPT ![b] = IF call[f].kind = "renew" THEN NextBeat ELSE @]
      BY <1>11, <2>2 DEF ConfirmLease
    <3>2. call'[f] = Idle /\ \A g \in Fiber : g # f => call'[g] = call[g]
      BY <1>0, <3>1
    <3>3. Beating(b)'.step = "confirm" => Beating(b)' = Beating(b)
      BY <1>2, <1>11, <3>2 DEF Idle
    <3>4. CASE call[f].kind = "renew"
      <4>1. due'[b] = clock + Heartbeat
        BY <1>0, <3>1, <3>4 DEF NextBeat
      <4>2. LeaseOf(v, b)
        BY <1>0, <1>11, <3>1 DEF CallIsMine, LeaseOf
      <4> QED
        BY <3>3, <4>1, <4>2 DEF GoesOnUntil
    <3>5. CASE call[f].kind # "renew"
      <4>1. due'[b] = due[b]
        BY <1>0, <3>1, <3>5
      <4>2. Running(b)' => Running(b)
        <5>1. Running(b)' => call[f].kind = "record"
          BY <1>0, <3>1, <3>5 DEF Running
        <5> QED
          BY <1>0, <1>11, <5>1 DEF CallFits
      <4> QED
        BY <3>3, <4>1, <4>2 DEF GoesOnUntil
    <3> QED
      BY <3>4, <3>5
  <2> QED
    BY <2>1, <2>2
<1>12. ASSUME NEW f \in Fiber, f[1] = b, NEW v \in Served, ConfirmReleased(f, v) PROVE GoesOnUntil(b)
  BY <1>1, <1>4, <1>12 DEF ConfirmReleased, Fail
<1>13. ASSUME NEW f \in Fiber, f[1] = b, Remove(f) \/ RequestFails(f) PROVE GoesOnUntil(b)
  BY <1>1, <1>4, <1>13 DEF Remove, RequestFails, Fail
<1>14. ASSUME NEW f \in Fiber, f[1] = b, Put(f) PROVE GoesOnUntil(b)
  <2>1. /\ call[f].step = "write" /\ kv' = call[f].next /\ due' = due /\ stage' = stage
        /\ \A g \in Fiber : g # f => call'[g] = call[g]
    BY <1>0, <1>14 DEF Put, Proceed, Write
  <2>2. CASE f[2] = "operation"
    BY <1>2, <1>3, <1>14, <2>1, <2>2 DEF Running
  <2>3. CASE f[2] = "heartbeat"
    <3>1. call[f].kind = "renew"
      BY <1>0, <1>14, <2>1, <2>3 DEF CallFits
    <3>2. LeaseOf(kv', b)
      BY <1>0, <1>14, <2>1, <3>1 DEF CallIsMine
    <3> QED
      BY <2>1, <3>2 DEF GoesOnUntil, Running
  <2> QED
    BY <2>2, <2>3 DEF Fiber
<1>15. ASSUME NEW f \in Fiber, f[1] = b,
              \/ \E v \in Served :
                    \/ ReadToCreate(f, v) \/ ReadToAcquire(f, v) \/ ReadToRelease(f, v)
                    \/ ReadHeld(f, v) \/ ConfirmLease(f, v) \/ ConfirmReleased(f, v)
              \/ Put(f) \/ Remove(f) \/ RequestFails(f)
       PROVE  GoesOnUntil(b)
  BY <1>10, <1>11, <1>12, <1>13, <1>14, <1>15
<1> QED
  BY <1>7, <1>8, <1>9, <1>15 DEF Acts

LEMMA ActsLose ==
  ASSUME Timed, Inv', NEW b \in Command, Acts(b), NEW c \in Command, Mine(c)'
  PROVE  Losing(c)'
<1> SUFFICES ASSUME ~LeaseOf(kv', c)
             PROVE  /\ \A r \in replaced' : LeaseOf(r.value, c) => r.until <= lost'[c] + staleness'
                    /\ Running(c)' => due'[c] <= lost'[c] + staleness' + Heartbeat
                    /\ Beating(c)'.step = "confirm" => Beating(c)'.began <= lost'[c]
  BY DEF Losing, LeaseOf
<1>0. /\ OthersStay(b) /\ Stored /\ clock' = clock /\ staleness' = staleness
      /\ clock \in Nat /\ staleness \in Nat /\ Heartbeat \in Nat /\ lost[c] \in Nat /\ due[c] \in Nat
      /\ due'[c] \in Nat
  BY ActsLeaveOthers, ActsStore, TimesTypedToo, PollTyped DEF Timed, Inv, TypeOK, OthersStay, Stored
<1>1. CASE LeaseOf(kv, c)
  <2>1. Write(kv') /\ lost'[c] = clock
    BY <1>0, <1>1 DEF Stored, Write
  <2>2. ASSUME NEW r \in replaced' PROVE r.until <= clock + staleness
    <3>1. r \in replaced \/ r.until = clock + staleness
      BY <2>1 DEF Write
    <3> QED
      BY <1>0, <3>1 DEF Timed
  <2>3. Running(c)' => due'[c] <= clock + staleness + Heartbeat
    <3>1. Running(c)' => due'[c] <= clock + Heartbeat
      BY <1>0 DEF Mine, Punctual
    <3> QED
      BY <1>0, <3>1
  <2>4. Beating(c)'.step = "confirm" => Beating(c)'.began <= clock
    <3>1. CallFits(<<c, "heartbeat">>)'
      BY FiberTyped DEF Mine
    <3>2. Beating(c)'.step = "confirm" => Running(c)'
      BY <3>1, FiberTyped DEF CallFits, Beating
    <3> QED
      BY <1>0, <3>2 DEF Mine, Punctual
  <2> QED
    BY <1>0, <2>1, <2>2, <2>3, <2>4
<1>2. CASE ~LeaseOf(kv, c)
  <2>0. /\ \A r \in replaced : LeaseOf(r.value, c) => r.until <= lost[c] + staleness
        /\ Running(c) => due[c] <= lost[c] + staleness + Heartbeat
        /\ Beating(c).step = "confirm" => Beating(c).began <= lost[c]
    BY <1>2 DEF Timed, Losing
  <2>1. lost'[c] = lost[c]
    BY <1>0, <1>2 DEF Stored, Write, Timed, Inv, TypeOK
  <2>2. ASSUME NEW r \in replaced', LeaseOf(r.value, c) PROVE r \in replaced
    BY <1>0, <1>2, <2>2 DEF Stored, Write
  <2>3. CASE c = b
    <3>1. GoesOnUntil(c)
      BY <2>3, ActsGoOn
    <3>2. ASSUME Running(c)' PROVE due'[c] <= lost[c] + staleness + Heartbeat
      <4>1. CASE Running(c) /\ due'[c] = due[c]
        BY <2>0, <4>1
      <4>2. CASE due'[c] = clock + Heartbeat /\ \E v \in Served : LeaseOf(v, c)
        <5>1. PICK r \in replaced : LeaseOf(r.value, c)
          BY <1>2, <4>2 DEF Served
        <5>2. clock <= r.until /\ r.until <= lost[c] + staleness /\ r.until \in Nat
          BY <2>0, <5>1 DEF Timed, Inv, TypeOK
        <5> QED
          BY <1>0, <4>2, <5>2
      <4> QED
        BY <3>1, <3>2, <4>1, <4>2 DEF GoesOnUntil
    <3>3. Beating(c)'.step = "confirm" => Beating(c)'.began <= lost[c]
      BY <2>0, <3>1 DEF GoesOnUntil
    <3> QED
      BY <1>0, <2>0, <2>1, <2>2, <3>2, <3>3
  <2>4. CASE c # b
    <3>1. stage'[c] = stage[c] /\ due'[c] = due[c] /\ Beating(c)' = Beating(c)
      BY <1>0, <2>4, FiberTyped DEF OthersStay, Beating
    <3> QED
      BY <1>0, <2>0, <2>1, <2>2, <3>1 DEF Running
  <2> QED
    BY <2>3, <2>4
<1> QED
  BY <1>1, <1>2

LEMMA ActsStayTimed ==
  ASSUME Timed, Inv', NEW b \in Command, Acts(b)
  PROVE  Timed'
<1>1. OthersStay(b) /\ ServesOnly(b) /\ Mine(b)' /\ Stored
  BY ActsLeaveOthers, ActsServe, ActsAreMine, ActsStore DEF Timed
<1>2. \A r \in replaced' : clock' <= r.until /\ r.until <= clock' + staleness'
  <2>1. clock' = clock /\ staleness' = staleness /\ clock \in Nat /\ staleness \in Nat
    BY <1>1 DEF OthersStay, Stored, Timed, Inv, TypeOK
  <2>2. ASSUME NEW r \in replaced' PROVE clock <= r.until /\ r.until <= clock + staleness
    <3>1. CASE r \in replaced
      BY <3>1 DEF Timed
    <3>2. CASE r.until = clock + staleness
      BY <2>1, <3>2
    <3> QED
      BY <1>1, <3>1, <3>2 DEF ServesOnly
  <2> QED
    BY <2>1, <2>2
<1>3. ASSUME NEW c \in Command PROVE Mine(c)'
  <2>1. CASE c = b
    BY <1>1, <2>1
  <2>2. CASE c # b
    <3>1. /\ stage'[c] = stage[c] /\ due'[c] = due[c] /\ clock' = clock
          /\ \A f \in Fiber : f[1] = c => call'[f] = call[f]
      BY <1>1, <2>2 DEF OthersStay
    <3>2. Beating(c)' = Beating(c)
      BY <3>1, FiberTyped DEF Beating
    <3>3. Punctual(c)'
      BY <3>1, <3>2 DEF Timed, Mine, Punctual, Running
    <3>4. ASSUME NEW f \in Fiber, f[1] = c PROVE CallFits(f)' /\ WritesOwn(f)'
      BY <3>1, <3>4 DEF Timed, Mine, CallFits, WritesOwn, Running
    <3> QED
      BY <3>3, <3>4 DEF Mine
  <2> QED
    BY <2>1, <2>2
<1> QED
  BY <1>2, <1>3, ActsLose DEF Timed

LEMMA TimedAtFirst == Init => Timed \/ ~Inv
<1> SUFFICES ASSUME Init, Inv PROVE Timed
  OBVIOUS
<1>1. replaced = {} /\ \A c \in Command : ~Running(c)
  BY DEF Init, Running
<1>2. \A f \in Fiber : call[f] = Idle
  BY DEF Init
<1>3. \A f \in Fiber : CallFits(f) /\ WritesOwn(f)
  BY <1>2 DEF Idle, CallFits, WritesOwn, LeaseOf
<1>4. ASSUME NEW c \in Command PROVE Beating(c).step = "idle"
  <2>1. call[<<c, "heartbeat">>] = Idle
    BY <1>2, FiberTyped
  <2> QED
    BY <2>1 DEF Beating, Idle
<1> QED
  BY <1>1, <1>3, <1>4 DEF Timed, Mine, Punctual, Losing

LEMMA StutterStaysTimed == ASSUME Timed, Inv', UNCHANGED vars PROVE Timed'
<1>1. UNCHANGED <<kv, replaced, clock, stage, call, due, staleness, lost>>
  BY DEF vars
<1>2. ASSUME NEW c \in Command PROVE Mine(c)' /\ Losing(c)'
  BY <1>1 DEF Timed, Mine, Losing, CallFits, WritesOwn, Punctual, Running, Beating
<1> QED
  BY <1>1, <1>2 DEF Timed

LEMMA TickStaysTimed == ASSUME Timed, Inv', Tick PROVE Timed'
<1>1. /\ replaced' = {r \in replaced : r.until > clock} /\ clock' = clock + 1
      /\ UNCHANGED <<kv, stage, call, due, staleness, lost>> /\ clock \in Nat /\ staleness \in Nat
  BY DEF Tick, Timed, Inv, TypeOK
<1>2. \A r \in replaced' : clock' <= r.until /\ r.until <= clock' + staleness'
  <2>1. ASSUME NEW r \in replaced, r.until > clock
        PROVE  clock + 1 <= r.until /\ r.until <= clock + 1 + staleness
    <3>1. r.until \in Nat /\ r.until <= clock + staleness
      BY DEF Timed, Inv, TypeOK
    <3> QED
      BY <1>1, <2>1, <3>1
  <2> QED
    BY <1>1, <2>1
<1>3. ASSUME NEW c \in Command PROVE Losing(c)'
  BY <1>1 DEF Timed, Losing, Running, Beating
<1> QED
  BY <1>2, <1>3, TickIsPunctual DEF Timed

LEMMA TimedAlways == Spec => []Timed
<1>1. Timed /\ Inv' /\ [Next]_vars => Timed'
  <2> SUFFICES ASSUME Timed, Inv', [Next]_vars PROVE Timed'
    OBVIOUS
  <2>1. CASE UNCHANGED vars
    BY <2>1, StutterStaysTimed
  <2>2. CASE Tick
    BY <2>2, TickStaysTimed
  <2>3. ASSUME NEW b \in Command, Acts(b) PROVE Timed'
    BY <2>3, ActsStayTimed
  <2> QED
    BY <2>1, <2>2, <2>3, NextActs
<1> QED
  BY <1>1, TimedAtFirst, InvAlways, PTL DEF Spec

\* A command that has lost its lease is over when its next renewal has polled.
LEMMA TimedStops == Timed => LoserStops
<1> SUFFICES ASSUME Timed, NEW c \in Command, Running(c), ~LeaseOf(kv, c)
             PROVE  clock <= lost[c] + staleness + Heartbeat + PollLimit
  BY DEF LoserStops
<1>1. /\ clock \in Nat /\ Heartbeat \in Nat /\ PollLimit \in Nat /\ staleness \in Nat
      /\ lost[c] \in Nat /\ due[c] \in Nat /\ Beating(c).began \in Nat /\ Beating(c).step \in Step
  BY TimesTypedToo, PollTyped, CallTyped DEF Timed, Inv
<1>2. /\ due[c] <= lost[c] + staleness + Heartbeat
      /\ Beating(c).step = "confirm" => Beating(c).began <= lost[c]
  BY DEF Timed, Losing
<1>3. /\ Beating(c).step = "idle" => clock <= due[c]
      /\ Beating(c).step = "read" => /\ Beating(c).began <= due[c]
                                     /\ clock <= Beating(c).began + PollLimit
      /\ Beating(c).step = "write" => clock <= due[c] + PollLimit
      /\ Beating(c).step = "confirm" => clock <= Beating(c).began + PollLimit
  BY DEF Timed, Mine, Punctual
<1>4. CASE Beating(c).step = "idle"
  BY <1>1, <1>2, <1>3, <1>4
<1>5. CASE Beating(c).step = "read"
  BY <1>1, <1>2, <1>3, <1>5
<1>6. CASE Beating(c).step = "write"
  BY <1>1, <1>2, <1>3, <1>6
<1>7. CASE Beating(c).step = "confirm"
  BY <1>1, <1>2, <1>3, <1>7
<1> QED
  BY <1>1, <1>4, <1>5, <1>6, <1>7 DEF Step

\* A command whose lease is gone from the store - lost in a race, freed or written
\* over by a command that read an old receipt - stops a staleness of the store, a
\* heartbeat and the polls of one renewal later at the latest, whatever it is doing,
\* compensating for a failure included.  So long two commands may run side by side.
\* The staleness, the times, the number of commands and of their updates are any.
THEOREM LoserAlwaysStops == Spec => []LoserStops
BY TimedStops, TimedAlways, PTL

-----------------------------------------------------------------------------
(* Repair and the living *)

(***************************************************************************)
(* Repair marks a command as interrupted only when it has read a lease of  *)
(* that command that is past its end.  So it is enough that no read finds  *)
(* such a lease while the command lives.  The heartbeat sees to it, but    *)
(* for two reasons the stored lease may be older than the last renewal: a  *)
(* record that read the receipt before a renewal and writes it after it    *)
(* puts the old lease back, and a renewal may have to poll before it reads *)
(* what it needs.  Neither can be repeated for ever.  A record that undoes *)
(* a renewal is one of those the command's role still has (Written counts  *)
(* them); a renewal that polls in vain ends the command.                   *)
(*                                                                         *)
(* Numbered says how old what is read may be, by the stamps on receipts    *)
(* and leases: which write it comes from.  Phased says how long a lease of *)
(* a command lasts at each stage of it, and while the effect runs in which *)
(* of four phases the heartbeat is: early, timely, doomed or awaited.      *)
(***************************************************************************)

-----------------------------------------------------------------------------
(* The steps of a command, by what they do *)

\* What was replaced is served until the tick ends.
Prompt ==
    /\ Inv /\ staleness = 0
    /\ \A r \in replaced : r.until <= clock
    /\ \A c \in Command : Mine(c)

Instant == staleness = 0

LEMMA PromptAlways == ASSUME \A s \in Scenarios : s.staleness = 0 PROVE Spec => []Prompt
<1>1. Init => Instant
  BY DEF Init, Instant
<1>2. Instant /\ [Next]_vars => Instant'
  <2>1. Tick \/ UNCHANGED vars => staleness' = staleness
    BY DEF Tick, vars
  <2>2. \A b \in Command : Acts(b) => staleness' = staleness
    BY ActsStore DEF Stored
  <2> QED
    BY <2>1, <2>2, NextActs DEF Instant
<1>3. Timed /\ Instant => Prompt
  <2> SUFFICES ASSUME Timed, Instant, NEW r \in replaced PROVE r.until <= clock
    BY DEF Timed, Prompt, Instant
  <2>1. clock \in Nat /\ r.until \in Nat
    BY DEF Timed, Inv, TypeOK
  <2> QED
    BY <2>1 DEF Timed, Instant
<1> QED
  BY <1>1, <1>2, <1>3, TimedAlways, PTL DEF Spec

Op(c) == call[<<c, "operation">>]

\* The command is over; or it has freed the lease it found.
Stops(b) ==
    /\ \E s \in {"ended", "settled", "released"} :
          Stop(b, s) /\ (s = "released" => Op(b).kind = "release")
    /\ UNCHANGED <<kv, replaced>> \/ Write(NoReceipt)
    /\ UNCHANGED <<clock, stamp, role>>

\* A call of the operation failed, or there was no lease to free.
Drops(f) ==
    /\ \/ call[f].kind \in {"record", "finish", "delete"} /\ stage' = stage
       \/ call[f].kind = "release" /\ stage' = [stage EXCEPT ![f[1]] = "released"]
    /\ call' = [call EXCEPT ![f] = Idle]
    /\ UNCHANGED <<kv, replaced>> \/ Write(NoReceipt)
    /\ UNCHANGED <<clock, stamp, held, due, made, role>>

\* A call has read v and is about to write r.
Writes(f, v, r) ==
    /\ call[f].step = "read" /\ call[f].kind # "none"
    /\ r.updatedAt = call[f].stamp
    /\ call[f].kind \in {"create", "acquire", "renew"} => r.lease = NewLease(f)
    /\ call[f].kind \in {"record", "delete"} => r.lease = v.lease
    /\ call[f].kind \in {"release", "finish"} => r.lease = NoLease
    /\ call[f].kind \in {"renew", "record", "delete"} =>
          LeaseOf(v, f[1]) /\ v.lease = call[f].from.lease
    /\ Proceed(f, "write", r)
    /\ UNCHANGED <<kv, replaced, clock, stamp, stage, held, due, made, role>>

Confirms(f, v) ==
    /\ call[f].step = "confirm" /\ call[f].kind \in {"create", "acquire", "renew", "record"}
    /\ v # NoReceipt /\ v.lease = call[f].next.lease
    /\ call' = [call EXCEPT ![f] = Idle]
    /\ held' = [held EXCEPT ![f[1]] = v]
    /\ stage' = [stage EXCEPT ![f[1]] =
                    IF call[f].kind \in {"create", "acquire"} THEN "fencing" ELSE "running"]
    /\ due' = [due EXCEPT ![f[1]] = IF call[f].kind = "renew" THEN NextBeat ELSE @]
    /\ UNCHANGED <<kv, replaced, clock, stamp, made, role>>

Steps(f) ==
    \/ Drops(f) \/ Put(f)
    \/ \E v \in Served : Confirms(f, v) \/ \E r : Writes(f, v, r)

LEMMA PreparedWrites ==
  ASSUME Inv, NEW f \in Fiber, NEW v \in Served, call[f].step = "read",
         NEW i, NEW l, NEW p, NEW h, Prepare(f, i, l, p, h),
         \/ call[f].kind \in {"create", "acquire"} /\ l = NewLease(f)
         \/ call[f].kind = "renew" /\ l = NewLease(f) /\ LeaseIsMine(f, v)
         \/ call[f].kind \in {"record", "delete"} /\ l = v.lease /\ LeaseIsMine(f, v)
         \/ call[f].kind \in {"release", "finish"} /\ l = NoLease
  PROVE  Steps(f)
<1> DEFINE r == [id |-> i, lease |-> l, updatedAt |-> call[f].stamp, progress |-> p, history |-> h]
<1>1. /\ Proceed(f, "write", r)
      /\ UNCHANGED <<kv, replaced, clock, stamp, stage, held, due, made, role>>
  BY DEF Prepare
<1>2. r.lease = l /\ r.updatedAt = call[f].stamp
  OBVIOUS
<1> HIDE DEF r
<1>4. call[f].kind \in {"renew", "record", "delete"} => LeaseOf(v, f[1]) /\ v.lease = call[f].from.lease
  <2>1. call[f].kind \in {"renew", "record", "delete"} => LeaseOf(call[f].from, f[1])
    BY DEF Inv, AllMine, CallIsMine
  <2> QED
    BY <2>1 DEF LeaseIsMine, LeaseOf
<1>5. Writes(f, v, r)
  BY <1>1, <1>2, <1>4 DEF Writes
<1> QED
  BY <1>5 DEF Steps

LEMMA DroppedForms ==
  ASSUME NEW f \in Fiber, Drop(f), UNCHANGED <<kv, replaced>> \/ Write(NoReceipt),
         UNCHANGED <<clock, stamp, role>>
  PROVE  Stops(f[1]) \/ Steps(f)
<1>1. CASE GoesOn(f)
  BY <1>1 DEF GoesOn, Drops, Steps
<1>2. CASE Stop(f[1], "ended")
  BY <1>2 DEF Stops
<1> QED
  BY <1>1, <1>2, DropMeans

LEMMA Forms ==
  ASSUME Prompt, NEW b \in Command, Acts(b)
  PROVE  \/ \E k \in {"create", "acquire", "release"} : Begin(b, k)
         \/ Fence(b) \/ Beat(b) \/ \E k \in {"record", "finish", "delete"} : Work(b, k)
         \/ Stops(b)
         \/ \E f \in Fiber : f[1] = b /\ Steps(f)
<1>0. Inv /\ \A f \in Fiber : f[1] = b => CallFits(f)
  BY DEF Prompt, Mine
<1>1. ASSUME NEW f \in Fiber, f[1] = b, Fail(f) PROVE Stops(b) \/ Steps(f)
  BY <1>1, DroppedForms DEF Fail
<1>2. ASSUME NEW f \in Fiber, f[1] = b, NEW v \in Served,
             ReadToCreate(f, v) \/ ReadToAcquire(f, v)
      PROVE  Stops(b) \/ Steps(f)
  BY <1>0, <1>1, <1>2, PreparedWrites DEF ReadToCreate, ReadToAcquire
<1>3. ASSUME NEW f \in Fiber, f[1] = b, NEW v \in Served, ReadToRelease(f, v)
      PROVE  Stops(b) \/ Steps(f)
  <2>1. CASE v # NoReceipt /\ v.lease = NoLease
    <3>1. Drops(f)
      BY <1>3, <2>1 DEF ReadToRelease, Drops
    <3> QED
      BY <3>1 DEF Steps
  <2>2. CASE Fail(f)
    BY <1>1, <1>3, <2>2
  <2>3. CASE ~(v # NoReceipt /\ v.lease = NoLease) /\ ~Fail(f)
    <3>1. /\ call[f].step = "read" /\ call[f].kind = "release"
          /\ Prepare(f, v.id, NoLease, v.progress,
                     Log(CloseHistory(v.history, v.lease.by, "interrupted"), f[1], "completed"))
      BY <1>3, <2>3 DEF ReadToRelease
    <3> QED
      BY <1>0, <3>1, PreparedWrites
  <2> QED
    BY <2>1, <2>2, <2>3
<1>4. ASSUME NEW f \in Fiber, f[1] = b, NEW v \in Served, ReadHeld(f, v)
      PROVE  Stops(b) \/ Steps(f)
  <2>1. CASE Fail(f)
    BY <1>1, <1>4, <2>1
  <2>2. CASE ~Fail(f)
    <3>1. call[f].step = "read" /\ LeaseIsMine(f, v)
      BY <1>4, <2>2 DEF ReadHeld
    <3>2. \/ call[f].kind = "renew" /\ Prepare(f, v.id, NewLease(f), v.progress, v.history)
          \/ /\ call[f].kind = "record"
             /\ Prepare(f, v.id, v.lease, v.progress \cup {<<f[1], made[f[1]]>>}, v.history)
          \/ /\ call[f].kind = "finish"
             /\ Prepare(f, v.id, NoLease, v.progress, CloseHistory(v.history, f[1], "completed"))
          \/ call[f].kind = "delete" /\ Prepare(f, v.id, v.lease, v.progress, v.history)
      BY <1>4, <2>2 DEF ReadHeld
    <3> QED
      BY <1>0, <3>1, <3>2, PreparedWrites
  <2> QED
    BY <2>1, <2>2
<1>5. ASSUME NEW f \in Fiber, f[1] = b, NEW v \in Served, ConfirmLease(f, v)
      PROVE  Stops(b) \/ Steps(f)
  <2>1. CASE Fail(f)
    BY <1>1, <1>5, <2>1
  <2>2. CASE ~Fail(f)
    BY <1>5, <2>2 DEF ConfirmLease, Confirms, Steps
  <2> QED
    BY <2>1, <2>2
<1>6. ASSUME NEW f \in Fiber, f[1] = b, NEW v \in Served, ConfirmReleased(f, v)
      PROVE  Stops(b) \/ Steps(f)
  <2>1. CASE Fail(f)
    BY <1>1, <1>6, <2>1
  <2>2. CASE ~Fail(f)
    <3>1. /\ call[f].kind \in {"finish", "release"}
          /\ Stop(b, IF call[f].kind = "finish" THEN "settled" ELSE "released")
          /\ UNCHANGED <<kv, replaced, clock, stamp, role>>
      BY <1>6, <2>2 DEF ConfirmReleased
    <3>2. f = <<b, "operation">>
      BY <1>0, <1>6, <3>1, TwoFibers DEF CallFits
    <3> QED
      BY <3>1, <3>2 DEF Stops, Op
  <2> QED
    BY <2>1, <2>2
<1>7. ASSUME NEW f \in Fiber, f[1] = b, Put(f) \/ RequestFails(f) PROVE Stops(b) \/ Steps(f)
  BY <1>1, <1>7 DEF RequestFails, Steps
<1>8. ASSUME NEW f \in Fiber, f[1] = b, Remove(f) PROVE Stops(b) \/ Steps(f)
  <2>1. CASE Stop(b, "settled")
    <3>1. Write(NoReceipt) /\ UNCHANGED <<clock, stamp, role>>
      BY <1>8 DEF Remove
    <3> QED
      BY <2>1, <3>1 DEF Stops
  <2>2. CASE Drop(f)
    BY <1>8, <2>2, DroppedForms DEF Remove
  <2> QED
    BY <1>8, <2>1, <2>2 DEF Remove
<1>9. ASSUME Crash(b) PROVE Stops(b)
  <2>1. Stop(b, "ended") /\ UNCHANGED <<kv, replaced, clock, stamp, role>>
    BY <1>9 DEF Crash
  <2> QED
    BY <2>1 DEF Stops
<1>10. ASSUME NEW f \in Fiber, f[1] = b,
              \/ \E v \in Served :
                    \/ ReadToCreate(f, v) \/ ReadToAcquire(f, v) \/ ReadToRelease(f, v)
                    \/ ReadHeld(f, v) \/ ConfirmLease(f, v) \/ ConfirmReleased(f, v)
              \/ Put(f) \/ Remove(f) \/ RequestFails(f)
       PROVE  Stops(b) \/ Steps(f)
  BY <1>2, <1>3, <1>4, <1>5, <1>6, <1>7, <1>8, <1>10
<1> QED
  BY <1>9, <1>10 DEF Acts

-----------------------------------------------------------------------------
(* The numbers on receipts and leases *)

\* The receipts with a lease of c that c holds or that a read may return.
Own(c) == {held[c], Op(c).from, Beating(c).from}
Values(c) == {v \in Served \cup Own(c) : LeaseOf(v, c)}
Leasing == {"create", "acquire", "renew"}

\* A lease is as old as the call that writes it first, a receipt as its last call.
CallNumbered(f) ==
    /\ call[f].stamp <= stamp /\ call[f].now <= clock
    /\ LeaseOf(call[f].from, f[1]) => call[f].from.updatedAt < call[f].stamp
    /\ call[f].step \in {"write", "confirm"} /\ call[f].kind \in Leasing \cup {"record"} =>
          call[f].next.updatedAt = call[f].stamp
    /\ call[f].step \in {"write", "confirm"} /\ call[f].kind \in Leasing =>
          call[f].next.lease = NewLease(f)
    /\ call[f].step \in {"write", "confirm"} /\ call[f].kind = "record" =>
          call[f].next.lease = call[f].from.lease
    /\ call[f].step \in {"write", "confirm"} /\ call[f].kind \in {"release", "finish"} =>
          call[f].next.lease = NoLease

Counted(c) == \A v \in Values(c) : v.lease.stamp <= v.updatedAt /\ v.updatedAt <= stamp

\* What is newer than the record under way is what a renewal wrote meanwhile.
Recorded(c) ==
    Op(c).kind = "record" =>
       \A v \in Values(c) : v.updatedAt > Op(c).stamp => v.updatedAt = v.lease.stamp

\* Of the receipts with the lease of the stored one, the stored one is the newest.
Ordered(c) ==
    LeaseOf(kv, c) => \A v \in Values(c) : v.lease = kv.lease => v.updatedAt <= kv.updatedAt

\* The lease a call is going to write is not one of those.
NewIsNew(c) ==
    \A f \in Fiber : f[1] = c /\ call[f].kind \in Leasing =>
       /\ call[f].step \in {"read", "write"} => \A v \in Values(c) : v.lease.stamp # call[f].stamp
       /\ \A v \in Own(c) : LeaseOf(v, c) => v.lease.stamp # call[f].stamp

Numbered(c) ==
    /\ \A f \in Fiber : f[1] = c => CallNumbered(f)
    /\ Op(c).kind = "renew" => stage[c] = "fencing"
    /\ Counted(c) /\ Recorded(c) /\ Ordered(c) /\ NewIsNew(c)

LEMMA ValuesTyped ==
  ASSUME TypeOK, NEW c \in Command
  PROVE  /\ \A v \in Values(c) : /\ v \in Receipt /\ v.updatedAt \in Nat /\ v.lease.stamp \in Nat
                                 /\ v.lease.until \in Nat
         /\ stamp \in Nat /\ clock \in Nat
         /\ \A f \in Fiber : call[f].stamp \in Nat /\ call[f].now \in Nat /\ call[f].began \in Nat
<1>1. Served \cup Own(c) \subseteq Receipt \cup {NoReceipt}
  BY ServedTyped, FiberTyped, CallTyped DEF TypeOK, Own, Op, Beating
<1>2. ASSUME NEW v \in Values(c) PROVE v \in Receipt /\ v.lease \in Lease
  BY <1>1, <1>2, ReceiptTyped DEF Values, LeaseOf
<1>3. \A v \in Values(c) : v.updatedAt \in Nat /\ v.lease.stamp \in Nat /\ v.lease.until \in Nat
  BY <1>2, ReceiptTyped DEF Lease
<1> QED
  BY <1>2, <1>3, CallTyped DEF TypeOK

\* A step that adds no receipt with a lease of c and begins no call.
Follows(f) ==
    \/ call'[f].kind = "none"
    \/ /\ call'[f].kind = call[f].kind /\ call'[f].stamp = call[f].stamp
       /\ call'[f].step \in {"read", "write"} => call[f].step \in {"read", "write"}

LEMMA QuietNumbers ==
  ASSUME TypeOK, NEW c \in Command, Numbered(c), stamp' \in Nat, stamp' >= stamp,
         Values(c)' \subseteq Values(c), kv' = kv \/ ~LeaseOf(kv', c),
         \A f \in Fiber : f[1] = c => Follows(f),
         \A v \in Own(c)' : LeaseOf(v, c) =>
             \E u \in Own(c) : LeaseOf(u, c) /\ u.lease = v.lease
  PROVE  (Counted(c) /\ Recorded(c) /\ Ordered(c) /\ NewIsNew(c))'
<1>1. Counted(c)'
  <2>1. \A v \in Values(c) : v.updatedAt \in Nat /\ stamp \in Nat
    BY ValuesTyped
  <2>2. \A v \in Values(c)' : v.lease.stamp <= v.updatedAt /\ v.updatedAt <= stamp'
    BY <2>1 DEF Numbered, Counted
  <2> QED
    BY <2>2 DEF Counted
<1>2. Recorded(c)'
  <2>1. <<c, "operation">> \in Fiber /\ <<c, "operation">>[1] = c
    BY FiberTyped
  <2>2. Op(c)'.kind = "record" => Op(c).kind = "record" /\ Op(c)'.stamp = Op(c).stamp
    BY <2>1 DEF Follows, Op
  <2> QED
    BY <2>2 DEF Numbered, Recorded
<1>3. Ordered(c)'
  BY DEF Numbered, Ordered
<1>4. NewIsNew(c)'
  <2> SUFFICES ASSUME NEW f \in Fiber, f[1] = c, call'[f].kind \in Leasing
               PROVE  /\ call'[f].step \in {"read", "write"} =>
                            \A v \in Values(c)' : v.lease.stamp # call'[f].stamp
                      /\ \A v \in Own(c)' : LeaseOf(v, c) => v.lease.stamp # call'[f].stamp
    BY DEF NewIsNew, LeaseOf
  <2>1. /\ call[f].kind \in Leasing /\ call'[f].stamp = call[f].stamp
        /\ call'[f].step \in {"read", "write"} => call[f].step \in {"read", "write"}
    BY DEF Follows, Leasing
  <2>2. /\ call[f].step \in {"read", "write"} => \A v \in Values(c) : v.lease.stamp # call[f].stamp
        /\ \A v \in Own(c) : LeaseOf(v, c) => v.lease.stamp # call[f].stamp
    BY <2>1 DEF Numbered, NewIsNew
  <2> QED
    BY <2>1, <2>2
<1> QED
  BY <1>1, <1>2, <1>3, <1>4

\* A step after which no call of c is about to write a lease.
LEMMA SettledNumbers ==
  ASSUME TypeOK, NEW c \in Command, Numbered(c), stamp' \in Nat, stamp' >= stamp,
         Values(c)' \subseteq Values(c), kv' = kv \/ ~LeaseOf(kv', c),
         \A f \in Fiber : f[1] = c => Follows(f) /\ call'[f].kind \notin Leasing
  PROVE  (Counted(c) /\ Recorded(c) /\ Ordered(c) /\ NewIsNew(c))'
<1>1. Counted(c)'
  <2>1. \A v \in Values(c) : v.updatedAt \in Nat /\ stamp \in Nat
    BY ValuesTyped
  <2>2. \A v \in Values(c)' : v.lease.stamp <= v.updatedAt /\ v.updatedAt <= stamp'
    BY <2>1 DEF Numbered, Counted
  <2> QED
    BY <2>2 DEF Counted
<1>2. Recorded(c)'
  <2>1. <<c, "operation">> \in Fiber /\ <<c, "operation">>[1] = c
    BY FiberTyped
  <2>2. Op(c)'.kind = "record" => Op(c).kind = "record" /\ Op(c)'.stamp = Op(c).stamp
    BY <2>1 DEF Follows, Op
  <2> QED
    BY <2>2 DEF Numbered, Recorded
<1>3. Ordered(c)'
  BY DEF Numbered, Ordered
<1>4. NewIsNew(c)'
  BY DEF NewIsNew
<1> QED
  BY <1>1, <1>2, <1>3, <1>4

\* A call that begins: its number is above all others.
LEMMA OpenNumbers ==
  ASSUME TypeOK, NEW c \in Command, Numbered(c), NEW f \in Fiber, f[1] = c, NEW k, NEW r \in Own(c) \cup {NoReceipt},
         Open(f, k, r), UNCHANGED <<kv, replaced, held, clock>>
  PROVE  /\ (Counted(c) /\ Recorded(c) /\ Ordered(c) /\ NewIsNew(c))'
         /\ \A g \in Fiber : g[1] = c => CallNumbered(g)'
<1>0. /\ stamp \in Nat /\ clock \in Nat /\ call \in [Fiber -> Call]
      /\ \A v \in Values(c) : v.updatedAt \in Nat /\ v.lease.stamp \in Nat
      /\ \A g \in Fiber : call[g].stamp \in Nat
  BY ValuesTyped DEF TypeOK
<1>1. /\ stamp' = stamp + 1 /\ call'[f].stamp = stamp + 1 /\ call'[f].kind = k
      /\ call'[f].step = "read" /\ call'[f].from = r /\ call'[f].now = clock
      /\ \A g \in Fiber : g # f => call'[g] = call[g]
  BY <1>0 DEF Open
<1>2. Own(c)' \subseteq Own(c) \cup {NoReceipt}
  BY <1>1, FiberTyped DEF Own, Op, Beating
<1>3. Values(c)' \subseteq Values(c)
  BY <1>2 DEF Values, Served, LeaseOf
<1>4. \A v \in Values(c) : v.lease.stamp <= v.updatedAt /\ v.updatedAt <= stamp
  BY DEF Numbered, Counted
<1>5. \A v \in Values(c) : v.lease.stamp <= v.updatedAt /\ v.updatedAt <= stamp + 1
                           /\ v.lease.stamp # stamp + 1 /\ v.updatedAt < stamp + 1
  BY <1>0, <1>4
<1>6. Counted(c)'
  BY <1>1, <1>3, <1>5 DEF Counted
<1>7. Recorded(c)'
  <2>1. CASE f = <<c, "operation">>
    <3>1. Op(c)'.stamp = stamp + 1
      BY <1>1, <2>1 DEF Op
    <3>2. \A v \in Values(c)' : ~(v.updatedAt > stamp + 1)
      BY <1>0, <1>3, <1>5
    <3> QED
      BY <3>1, <3>2 DEF Recorded
  <2>2. CASE f # <<c, "operation">>
    <3>1. Op(c)' = Op(c)
      BY <1>1, <2>2, FiberTyped DEF Op
    <3> QED
      BY <1>3, <3>1 DEF Numbered, Recorded
  <2> QED
    BY <2>1, <2>2
<1>8. Ordered(c)'
  BY <1>3 DEF Numbered, Ordered, LeaseOf
<1>9. NewIsNew(c)'
  <2> SUFFICES ASSUME NEW g \in Fiber, g[1] = c, call'[g].kind \in Leasing
               PROVE  /\ call'[g].step \in {"read", "write"} =>
                            \A v \in Values(c)' : v.lease.stamp # call'[g].stamp
                      /\ \A v \in Own(c)' : LeaseOf(v, c) => v.lease.stamp # call'[g].stamp
    BY DEF NewIsNew, LeaseOf
  <2>0. \A v \in Own(c)' : LeaseOf(v, c) => v \in Values(c) /\ v \in Own(c)
    BY <1>2 DEF Values, LeaseOf
  <2>1. CASE g = f
    BY <1>1, <1>3, <1>5, <2>0, <2>1
  <2>2. CASE g # f
    <3>1. /\ call[g].step \in {"read", "write"} => \A v \in Values(c) : v.lease.stamp # call[g].stamp
          /\ \A v \in Own(c) : LeaseOf(v, c) => v.lease.stamp # call[g].stamp
      BY <1>1, <2>2 DEF Numbered, NewIsNew
    <3> QED
      BY <1>1, <1>3, <2>0, <2>2, <3>1
  <2> QED
    BY <2>1, <2>2
<1>10. ASSUME NEW g \in Fiber, g[1] = c PROVE CallNumbered(g)'
  <2>1. CASE g = f
    <3>1. call'[g].stamp <= stamp' /\ call'[g].now <= clock'
      BY <1>0, <1>1, <2>1
    <3>2. LeaseOf(r, c) => r \in Values(c)
      BY DEF Values, LeaseOf
    <3>3. LeaseOf(r, c) => r.updatedAt < stamp + 1
      BY <1>5, <3>2
    <3> QED
      BY <1>1, <1>10, <2>1, <3>1, <3>3 DEF CallNumbered
  <2>2. CASE g # f
    <3>1. call'[g] = call[g] /\ CallNumbered(g)
      BY <1>1, <1>10, <2>2 DEF Numbered
    <3>2. call[g].stamp <= stamp + 1
      <4>1. call[g].stamp <= stamp
        BY <3>1 DEF CallNumbered
      <4> QED
        BY <1>0, <4>1
    <3>3. NewLease(g)' = NewLease(g)
      BY <3>1 DEF NewLease
    <3> QED
      BY <1>1, <3>1, <3>2, <3>3 DEF CallNumbered
  <2> QED
    BY <2>1, <2>2
<1> QED
  BY <1>6, <1>7, <1>8, <1>9, <1>10

-----------------------------------------------------------------------------
(* What the step of one command is for another *)

SameFor(c) ==
    /\ clock' = clock /\ stamp' >= stamp /\ role' = role
    /\ stage'[c] = stage[c] /\ held'[c] = held[c] /\ due'[c] = due[c] /\ made'[c] = made[c]
    /\ \A f \in Fiber : f[1] = c => call'[f] = call[f]

\* No lease of c is added to what is served.
Fades(c) ==
    /\ \A v \in Served' : LeaseOf(v, c) => v \in Served
    /\ (kv' = kv /\ replaced' = replaced) \/ ~LeaseOf(kv', c)

LEMMA OthersSame ==
  ASSUME Prompt, NEW b \in Command, Acts(b), NEW c \in Command, c # b
  PROVE  SameFor(c) /\ Fades(c)
<1>0. /\ OthersStay(b) /\ ServesOnly(b) /\ TypeOK /\ stamp \in Nat /\ stamp + 1 >= stamp /\ stamp >= stamp
      /\ \A f \in Fiber : f[1] = b => WritesOwn(f)
  BY ActsLeaveOthers, ActsServe DEF Prompt, Inv, TypeOK, Mine
<1>1. /\ clock' = clock /\ stage'[c] = stage[c] /\ due'[c] = due[c]
      /\ \A f \in Fiber : f[1] = c => call'[f] = call[f]
  BY <1>0 DEF OthersStay
<1>2. stamp' >= stamp /\ role' = role /\ held'[c] = held[c] /\ made'[c] = made[c]
  <2>1. CASE \/ \E k \in {"create", "acquire", "release"} : Begin(b, k)
             \/ Fence(b) \/ Beat(b) \/ \E k \in {"record", "finish", "delete"} : Work(b, k)
    BY <1>0, <2>1 DEF Begin, Fence, Beat, Work, Open, TypeOK
  <2>2. CASE Stops(b)
    BY <1>0, <2>2 DEF Stops, Stop, TypeOK
  <2>3. ASSUME NEW f \in Fiber, f[1] = b, Steps(f)
        PROVE  stamp' >= stamp /\ role' = role /\ held'[c] = held[c] /\ made'[c] = made[c]
    BY <1>0, <2>3 DEF Steps, Drops, Put, Confirms, Writes, TypeOK
  <2> QED
    BY <2>1, <2>2, <2>3, Forms
<1>3. \A v \in Served' : LeaseOf(v, c) => v \in Served
  BY <1>0 DEF ServesOnly, WritesOwn, LeaseOf
<1>4. (kv' = kv /\ replaced' = replaced) \/ ~LeaseOf(kv', c)
  <2>1. CASE \/ \E k \in {"create", "acquire", "release"} : Begin(b, k)
             \/ Fence(b) \/ Beat(b) \/ \E k \in {"record", "finish", "delete"} : Work(b, k)
    BY <2>1 DEF Begin, Fence, Beat, Work
  <2>2. CASE Stops(b)
    BY <2>2 DEF Stops, Write, LeaseOf
  <2>3. ASSUME NEW f \in Fiber, f[1] = b, Steps(f)
        PROVE  (kv' = kv /\ replaced' = replaced) \/ ~LeaseOf(kv', c)
    <3>1. CASE Put(f)
      <4>1. kv' = call[f].next /\ ~LeaseOf(call[f].next, c)
        BY <1>0, <2>3, <3>1 DEF Put, Write, WritesOwn
      <4> QED
        BY <4>1
    <3>2. CASE Drops(f)
      BY <3>2 DEF Drops, Write, LeaseOf
    <3>3. CASE ~Put(f) /\ ~Drops(f)
      BY <2>3, <3>3 DEF Steps, Confirms, Writes
    <3> QED
      BY <3>1, <3>2, <3>3
  <2> QED
    BY <2>1, <2>2, <2>3, Forms
<1> QED
  BY <1>1, <1>2, <1>3, <1>4 DEF SameFor, Fades

LEMMA OthersNumbered ==
  ASSUME TypeOK, TypeOK', NEW c \in Command, Numbered(c), SameFor(c), Fades(c)
  PROVE  Numbered(c)'
<1>0. stamp \in Nat /\ stamp' \in Nat /\ clock \in Nat
  BY DEF TypeOK
<1>1. Op(c)' = Op(c) /\ Beating(c)' = Beating(c)
  BY FiberTyped DEF SameFor, Op, Beating
<1>2. Own(c)' = Own(c)
  BY <1>1 DEF Own, SameFor
<1>3. Values(c)' \subseteq Values(c)
  BY <1>2 DEF Values, Fades, LeaseOf
<1>4. kv' = kv \/ ~LeaseOf(kv', c)
  BY DEF Fades
<1>5. (Counted(c) /\ Recorded(c) /\ Ordered(c) /\ NewIsNew(c))'
  BY <1>0, <1>2, <1>3, <1>4, QuietNumbers DEF SameFor, Follows
<1>6. ASSUME NEW f \in Fiber, f[1] = c PROVE CallNumbered(f)'
  <2>1. call'[f] = call[f] /\ CallNumbered(f) /\ call[f].stamp \in Nat
    BY <1>6, CallTyped DEF SameFor, Numbered, TypeOK
  <2>2. NewLease(f)' = NewLease(f) /\ call[f].stamp <= stamp'
    BY <1>0, <2>1 DEF NewLease, CallNumbered, SameFor
  <2> QED
    BY <2>1, <2>2 DEF CallNumbered, SameFor
<1> QED
  BY <1>1, <1>5, <1>6 DEF Numbered, SameFor
-----------------------------------------------------------------------------
(* Its own steps *)

\* A call that is unchanged or over keeps its numbers.
LEMMA KeptNumbered ==
  ASSUME TypeOK, NEW c \in Command, Numbered(c), NEW f \in Fiber, f[1] = c,
         call'[f] = call[f] \/ call'[f] = Idle, UNCHANGED <<clock, stamp>>
  PROVE  CallNumbered(f)' /\ Follows(f)
<1>0. clock \in Nat /\ stamp \in Nat /\ CallNumbered(f)
  BY DEF TypeOK, Numbered
<1>1. CASE call'[f] = call[f]
  BY <1>0, <1>1 DEF CallNumbered, Follows, NewLease
<1>2. CASE call'[f] = Idle
  BY <1>0, <1>2 DEF CallNumbered, Follows, Idle, LeaseOf
<1> QED
  BY <1>1, <1>2

LEMMA StopNumbered ==
  ASSUME TypeOK, NEW c \in Command, Numbered(c), Stops(c)
  PROVE  Numbered(c)'
<1>0. /\ \A f \in Fiber : f[1] = c => call'[f] = Idle
      /\ held'[c] = NoReceipt /\ UNCHANGED <<clock, stamp>> /\ stamp \in Nat
  BY DEF Stops, Stop, TypeOK
<1>1. Op(c)' = Idle /\ Beating(c)' = Idle
  BY <1>0, FiberTyped DEF Op, Beating
<1>2. Own(c)' = {NoReceipt}
  BY <1>0, <1>1 DEF Own, Idle
<1>3. (kv' = kv /\ replaced' = replaced) \/ Write(NoReceipt)
  BY DEF Stops
<1>4. \A v \in Served' : v \in Served \/ v = NoReceipt
  BY <1>3 DEF Served, Write
<1>5. Values(c)' \subseteq Values(c) /\ (kv' = kv \/ ~LeaseOf(kv', c))
  BY <1>2, <1>3, <1>4 DEF Values, LeaseOf, Write
<1>6. ASSUME NEW f \in Fiber, f[1] = c PROVE CallNumbered(f)' /\ Follows(f) /\ call'[f].kind \notin Leasing
  BY <1>0, <1>6, KeptNumbered DEF Idle, Leasing
<1>7. (Counted(c) /\ Recorded(c) /\ Ordered(c) /\ NewIsNew(c))'
  BY <1>0, <1>5, <1>6, SettledNumbers
<1> QED
  BY <1>1, <1>6, <1>7 DEF Numbered, Idle

LEMMA BeginNumbered ==
  ASSUME TypeOK, NEW c \in Command, Numbered(c),
         \/ \E k \in {"create", "acquire", "release"} : Begin(c, k)
         \/ Fence(c) \/ Beat(c) \/ \E k \in {"record", "finish", "delete"} : Work(c, k)
  PROVE  Numbered(c)'
<1>0. /\ <<c, "operation">> \in Fiber /\ <<c, "heartbeat">> \in Fiber
      /\ <<c, "operation">>[1] = c /\ <<c, "heartbeat">>[1] = c
      /\ held[c] \in Own(c) /\ stage \in [Command -> Stage] /\ call \in [Fiber -> Call]
  BY FiberTyped DEF Own, TypeOK
<1>1. ASSUME NEW k \in {"create", "acquire", "release"}, Begin(c, k) PROVE Numbered(c)'
  <2>1. Open(<<c, "operation">>, k, NoReceipt) /\ UNCHANGED <<kv, replaced, held, clock>>
    BY <1>1 DEF Begin
  <2>2. Op(c)'.kind = k
    BY <1>0, <2>1 DEF Open, Op
  <2> QED
    BY <1>0, <2>1, <2>2, OpenNumbers DEF Numbered
<1>2. CASE Fence(c)
  <2>1. /\ Open(<<c, "operation">>, "renew", held[c]) /\ UNCHANGED <<kv, replaced, held, clock>>
        /\ stage'[c] = "fencing"
    BY <1>2 DEF Fence
  <2> QED
    BY <1>0, <2>1, OpenNumbers DEF Numbered
<1>3. CASE Beat(c)
  <2>1. /\ Open(<<c, "heartbeat">>, "renew", held[c]) /\ UNCHANGED <<kv, replaced, held, clock, stage>>
    BY <1>3 DEF Beat
  <2>2. Op(c)' = Op(c)
    BY <1>0, <2>1 DEF Open, Op
  <2> QED
    BY <1>0, <2>1, <2>2, OpenNumbers DEF Numbered
<1>4. ASSUME NEW k \in {"record", "finish", "delete"}, Work(c, k) PROVE Numbered(c)'
  <2>1. Open(<<c, "operation">>, k, held[c]) /\ UNCHANGED <<kv, replaced, held, clock>>
    BY <1>4 DEF Work
  <2>2. Op(c)'.kind = k
    BY <1>0, <2>1 DEF Open, Op
  <2> QED
    BY <1>0, <2>1, <2>2, OpenNumbers DEF Numbered
<1> QED
  BY <1>1, <1>2, <1>3, <1>4

LEMMA DropNumbered ==
  ASSUME Prompt, NEW c \in Command, Numbered(c), NEW f \in Fiber, f[1] = c, Drops(f)
  PROVE  Numbered(c)'
<1>0. /\ TypeOK /\ call'[f] = Idle /\ \A g \in Fiber : g # f => call'[g] = call[g]
      /\ UNCHANGED <<held, clock, stamp>> /\ stamp \in Nat /\ call[f].kind # "renew"
      /\ (kv' = kv /\ replaced' = replaced) \/ Write(NoReceipt)
      /\ \A g \in Fiber : g[1] = c => call'[g] = call[g] \/ call'[g] = Idle
  BY DEF Drops, Prompt, Inv, TypeOK
<1>1. Own(c)' \subseteq Own(c) \cup {NoReceipt}
  BY <1>0, FiberTyped DEF Own, Op, Beating, Idle
<1>2. /\ Values(c)' \subseteq Values(c) /\ (kv' = kv \/ ~LeaseOf(kv', c))
      /\ \A v \in Own(c)' : LeaseOf(v, c) => v \in Own(c)
  <2>1. \A v \in Served' : v \in Served \/ v = NoReceipt
    BY <1>0 DEF Served, Write
  <2> QED
    BY <1>0, <1>1, <2>1 DEF Values, LeaseOf, Write
<1>3. \A g \in Fiber : g[1] = c => CallNumbered(g)' /\ Follows(g)
  BY <1>0, KeptNumbered
<1>4. (Counted(c) /\ Recorded(c) /\ Ordered(c) /\ NewIsNew(c))'
  BY <1>0, <1>2, <1>3, QuietNumbers
<1>5. Op(c)'.kind = "renew" => stage'[c] = "fencing"
  <2>1. f[2] # "heartbeat"
    BY DEF Prompt, Mine, CallFits, Drops
  <2>2. f = <<c, "operation">>
    BY <2>1, TwoFibers
  <2> QED
    BY <1>0, <2>2 DEF Op, Idle
<1> QED
  BY <1>3, <1>4, <1>5 DEF Numbered

LEMMA WriteNumbered ==
  ASSUME Prompt, NEW c \in Command, Numbered(c), NEW f \in Fiber, f[1] = c, NEW v \in Served, NEW r,
         Writes(f, v, r)
  PROVE  Numbered(c)'
<1>0. /\ call \in [Fiber -> Call] /\ TypeOK /\ stamp \in Nat /\ stamp >= stamp
      /\ UNCHANGED <<kv, replaced, held, clock, stamp, stage>> /\ call[f].kind # "none"
      /\ call[f].step = "read"
  BY DEF Writes, Prompt, Inv, TypeOK
<1>1. /\ call'[f].kind = call[f].kind /\ call'[f].step = "write" /\ call'[f].next = r
      /\ call'[f].now = call[f].now /\ call'[f].stamp = call[f].stamp /\ call'[f].from = call[f].from
      /\ \A g \in Fiber : g # f => call'[g] = call[g]
  BY <1>0 DEF Writes, Proceed
<1>2. /\ Own(c)' = Own(c) /\ Op(c)'.kind = Op(c).kind
  BY <1>0, <1>1, FiberTyped DEF Own, Op, Beating
<1>3. Values(c)' = Values(c)
  BY <1>0, <1>2 DEF Values, Served, LeaseOf
<1>4. \A g \in Fiber : g[1] = c => Follows(g)
  BY <1>0, <1>1 DEF Follows
<1>5. (Counted(c) /\ Recorded(c) /\ Ordered(c) /\ NewIsNew(c))'
  BY <1>0, <1>2, <1>3, <1>4, QuietNumbers
<1>6. ASSUME NEW g \in Fiber, g[1] = c PROVE CallNumbered(g)'
  <2>1. CASE g = f
    <3>1. NewLease(f)' = NewLease(f) /\ CallNumbered(f)
      BY <1>1, <1>6, <2>1 DEF NewLease, Numbered
    <3>2. /\ call[f].kind \in Leasing => r.lease = NewLease(f)
          /\ call[f].kind = "record" => r.lease = call[f].from.lease
          /\ call[f].kind \in {"release", "finish"} => r.lease = NoLease
          /\ r.updatedAt = call[f].stamp
      BY DEF Writes, Leasing
    <3> QED
      BY <1>0, <1>1, <1>6, <2>1, <3>1, <3>2 DEF CallNumbered
  <2>2. CASE g # f
    BY <1>0, <1>1, <1>6, <2>2, KeptNumbered
  <2> QED
    BY <2>1, <2>2
<1> QED
  BY <1>0, <1>2, <1>5, <1>6 DEF Numbered

\* Of the calls of a command one at most may write a new lease.
LEMMA OneLeases ==
  ASSUME Prompt, NEW c \in Command, Numbered(c), NEW f \in Fiber, f[1] = c, call[f].kind \in Leasing,
         NEW g \in Fiber, g[1] = c, call[g].kind \in Leasing
  PROVE  f = g
<1>1. CallFits(f) /\ CallFits(g)
  BY DEF Prompt, Mine
<1>2. /\ f[2] = "heartbeat" => stage[c] = "running"
      /\ g[2] = "heartbeat" => stage[c] = "running"
  BY <1>1 DEF CallFits, Leasing, Running
<1>3. ASSUME NEW h \in {f, g}, h = <<c, "operation">> PROVE stage[c] # "running"
  <2>1. Op(c).kind \in Leasing
    BY <1>3 DEF Op
  <2> QED
    BY <1>1, <1>3, <2>1 DEF Numbered, CallFits, Leasing, Op
<1>4. /\ f = <<c, "operation">> \/ f = <<c, "heartbeat">>
      /\ g = <<c, "operation">> \/ g = <<c, "heartbeat">>
  BY TwoFibers
<1> QED
  BY <1>2, <1>3, <1>4

\* The write of a call: what is known has another lease than a new one, and what has
\* the lease of a record was there before it.
LEMMA PutNumbered ==
  ASSUME Prompt, NEW c \in Command, Numbered(c), NEW f \in Fiber, f[1] = c, Put(f)
  PROVE  Numbered(c)'
<1>0. /\ call \in [Fiber -> Call] /\ TypeOK /\ Inv /\ stamp \in Nat /\ stamp >= stamp
      /\ UNCHANGED <<held, clock, stamp, stage>> /\ call[f].kind \notin {"none", "delete"}
      /\ call[f].step = "write" /\ CallNumbered(f) /\ call[f].kind \in Kind
  <2>1. CallFits(f) /\ CallNumbered(f)
    BY DEF Prompt, Mine, Numbered
  <2>2. call[f].kind # "none"
    BY <2>1 DEF Put, CallFits
  <2> QED
    BY <2>1, <2>2, CallTyped DEF Put, Prompt, Inv, TypeOK
<1> DEFINE w == call[f].next
<1>1. /\ call'[f].kind = call[f].kind /\ call'[f].step = "confirm" /\ call'[f].next = w
      /\ call'[f].now = call[f].now /\ call'[f].stamp = call[f].stamp /\ call'[f].from = call[f].from
      /\ \A g \in Fiber : g # f => call'[g] = call[g]
      /\ kv' = w /\ \A v \in Served' : v = w \/ v \in Served
  BY <1>0 DEF Put, Proceed, Write, Served
<1>2. /\ Own(c)' = Own(c) /\ Op(c)'.kind = Op(c).kind /\ Op(c)'.stamp = Op(c).stamp
      /\ \A g \in Fiber : g[1] = c => call'[g].kind = call[g].kind /\ call'[g].stamp = call[g].stamp
  BY <1>0, <1>1, FiberTyped DEF Own, Op, Beating
<1>3. \A v \in Values(c)' : v \in Values(c) \/ v = w
  BY <1>1, <1>2 DEF Values, LeaseOf
<1>4. \A g \in Fiber : g[1] = c => Follows(g)
  BY <1>0, <1>1 DEF Follows
<1>5. ASSUME NEW g \in Fiber, g[1] = c PROVE CallNumbered(g)'
  <2>1. CASE g = f
    <3>1. NewLease(f)' = NewLease(f)
      BY <1>1 DEF NewLease
    <3> QED
      BY <1>0, <1>1, <2>1, <3>1 DEF CallNumbered
  <2>2. CASE g # f
    BY <1>0, <1>1, <1>5, <2>2, KeptNumbered
  <2> QED
    BY <2>1, <2>2
<1>6. (Counted(c) /\ Recorded(c) /\ Ordered(c) /\ NewIsNew(c))'
  <2>1. CASE call[f].kind \in {"release", "finish"}
    <3>1. w.lease = NoLease
      BY <1>0, <2>1 DEF CallNumbered
    <3>2. Values(c)' \subseteq Values(c) /\ ~LeaseOf(kv', c)
      BY <1>1, <1>3, <3>1 DEF LeaseOf, Values
    <3> QED
      BY <1>0, <1>2, <1>4, <3>2, QuietNumbers
  <2>2. CASE call[f].kind \in Leasing \cup {"record"}
    <3>0. /\ w.updatedAt = call[f].stamp /\ LeaseOf(w, c)
          /\ call[f].kind \in Leasing => w.lease = NewLease(f)
          /\ call[f].kind = "record" => w.lease = call[f].from.lease
          /\ NewLease(f).stamp = call[f].stamp
      BY <1>0, <2>2 DEF CallNumbered, Inv, AllMine, CallIsMine, NewLease, Leasing
    <3>1. /\ \A v \in Values(c) : v.updatedAt \in Nat /\ v.lease.stamp \in Nat
          /\ call[f].stamp \in Nat /\ call[f].stamp <= stamp
      BY <1>0, ValuesTyped DEF CallNumbered
    <3>2. \A v \in Values(c) : v.lease.stamp <= v.updatedAt /\ v.updatedAt <= stamp
      BY DEF Numbered, Counted
    <3>3. call[f].kind = "record" =>
              /\ f = <<c, "operation">> /\ call[f].from \in Values(c)
              /\ call[f].from.updatedAt < call[f].stamp
      <4>1. call[f].kind = "record" => LeaseOf(call[f].from, c) /\ f[2] # "heartbeat"
        BY DEF Prompt, Inv, AllMine, CallIsMine, Mine, CallFits
      <4>2. call[f].kind = "record" => f = <<c, "operation">>
        BY <4>1, TwoFibers
      <4>3. call[f].kind = "record" => call[f].from \in Values(c)
        BY <4>1, <4>2 DEF Values, Own, Op
      <4> QED
        BY <1>0, <4>1, <4>2, <4>3 DEF CallNumbered
    <3>4. w.lease.stamp <= w.updatedAt
      <4>1. CASE call[f].kind \in Leasing
        BY <3>0, <3>1, <4>1
      <4>2. CASE call[f].kind = "record"
        BY <3>0, <3>1, <3>2, <3>3, <4>2
      <4> QED
        BY <2>2, <4>1, <4>2
    <3>5. Counted(c)'
      BY <1>0, <1>3, <3>0, <3>1, <3>2, <3>4 DEF Counted
    <3>6. Recorded(c)'
      <4> SUFFICES ASSUME Op(c).kind = "record", NEW v \in Values(c)', v.updatedAt > Op(c).stamp
                   PROVE  v.updatedAt = v.lease.stamp
        BY <1>2 DEF Recorded
      <4>1. CASE v \in Values(c)
        BY <4>1 DEF Numbered, Recorded
      <4>2. CASE v = w
        <5>1. CASE call[f].kind \in Leasing
          BY <3>0, <4>2, <5>1
        <5>2. CASE call[f].kind = "record"
          BY <3>0, <3>1, <3>3, <4>2, <5>2 DEF Op
        <5> QED
          BY <2>2, <5>1, <5>2
      <4> QED
        BY <1>3, <4>1, <4>2
    <3>7. Ordered(c)'
      <4> SUFFICES ASSUME NEW v \in Values(c)', v.lease = w.lease PROVE v.updatedAt <= w.updatedAt
        BY <1>1 DEF Ordered
      <4>1. CASE v = w
        BY <3>0, <3>1, <4>1
      <4>2. CASE v \in Values(c) /\ call[f].kind \in Leasing
        <5>1. v.lease.stamp # call[f].stamp
          BY <1>0, <4>2 DEF Numbered, NewIsNew
        <5> QED
          BY <3>0, <4>2, <5>1
      <4>3. CASE v \in Values(c) /\ call[f].kind = "record"
        <5>1. Op(c) = call[f]
          BY <3>3, <4>3 DEF Op
        <5>2. v.updatedAt > call[f].stamp => v.updatedAt = v.lease.stamp
          BY <4>3, <5>1 DEF Numbered, Recorded
        <5>3. v.lease.stamp = call[f].from.lease.stamp
          BY <3>0, <4>3
        <5> QED
          BY <3>0, <3>1, <3>2, <3>3, <4>3, <5>2, <5>3
      <4> QED
        BY <1>3, <2>2, <4>1, <4>2, <4>3
    <3>8. NewIsNew(c)'
      <4> SUFFICES ASSUME NEW g \in Fiber, g[1] = c, call[g].kind \in Leasing
                   PROVE  /\ call'[g].step \in {"read", "write"} =>
                                \A v \in Values(c)' : v.lease.stamp # call[g].stamp
                          /\ \A v \in Own(c) : LeaseOf(v, c) => v.lease.stamp # call[g].stamp
        BY <1>2 DEF NewIsNew, LeaseOf
      <4>1. /\ call[g].step \in {"read", "write"} => \A v \in Values(c) : v.lease.stamp # call[g].stamp
            /\ \A v \in Own(c) : LeaseOf(v, c) => v.lease.stamp # call[g].stamp
        BY DEF Numbered, NewIsNew
      <4>2. CASE g = f
        BY <1>1, <4>1, <4>2
      <4>3. CASE g # f
        <5>1. call[f].kind = "record" /\ call'[g] = call[g]
          BY <1>1, <2>2, <4>3, OneLeases
        <5>2. w.lease = call[f].from.lease /\ call[f].from \in Values(c)
          BY <3>0, <3>3, <5>1
        <5> QED
          BY <1>3, <4>1, <5>1, <5>2
      <4> QED
        BY <4>2, <4>3
    <3> QED
      BY <3>5, <3>6, <3>7, <3>8
  <2> QED
    BY <1>0, <2>1, <2>2 DEF Kind, Leasing
<1> QED
  BY <1>0, <1>2, <1>5, <1>6 DEF Numbered

LEMMA ConfirmNumbered ==
  ASSUME Prompt, NEW c \in Command, Numbered(c), NEW f \in Fiber, f[1] = c, NEW v \in Served, Confirms(f, v)
  PROVE  Numbered(c)'
<1>0. /\ call'[f] = Idle /\ \A g \in Fiber : g # f => call'[g] = call[g]
      /\ UNCHANGED <<kv, replaced, clock, stamp>> /\ stamp \in Nat /\ stamp >= stamp /\ TypeOK
      /\ held'[c] = v /\ \A g \in Fiber : g[1] = c => call'[g] = call[g] \/ call'[g] = Idle
      /\ call[f].kind \in Leasing \cup {"record"} /\ call[f].step = "confirm"
      /\ v.lease = call[f].next.lease /\ CallNumbered(f)
  BY DEF Confirms, Prompt, Inv, TypeOK, Leasing, Numbered
<1>1. Own(c)' \subseteq {v, NoReceipt, Op(c).from, Beating(c).from}
  BY <1>0, FiberTyped DEF Own, Op, Beating, Idle
<1>2. Values(c)' \subseteq Values(c)
  BY <1>0, <1>1 DEF Values, LeaseOf, Served, Own
<1>3. \A g \in Fiber : g[1] = c => CallNumbered(g)' /\ Follows(g)
  BY <1>0, KeptNumbered
<1>4. (Counted(c) /\ Recorded(c) /\ Ordered(c) /\ NewIsNew(c))'
  <2>1. CASE call[f].kind = "record"
    <3>1. /\ v.lease = call[f].from.lease /\ LeaseOf(call[f].from, c)
      BY <1>0, <2>1 DEF CallNumbered, Prompt, Inv, AllMine, CallIsMine
    <3>2. call[f].from \in Own(c)
      <4>1. f = <<c, "operation">> \/ f = <<c, "heartbeat">>
        BY TwoFibers
      <4> QED
        BY <4>1 DEF Own, Op, Beating
    <3>3. ASSUME NEW u \in Own(c)', LeaseOf(u, c)
          PROVE  \E x \in Own(c) : LeaseOf(x, c) /\ x.lease = u.lease
      <4>1. CASE u = v
        BY <3>1, <3>2, <4>1
      <4>2. CASE u # v
        BY <1>1, <3>3, <4>2 DEF Own, LeaseOf
      <4> QED
        BY <4>1, <4>2
    <3> QED
      BY <1>0, <1>2, <1>3, <3>3, QuietNumbers
  <2>2. CASE call[f].kind \in Leasing
    <3>1. \A g \in Fiber : g[1] = c => call'[g].kind \notin Leasing
      <4> SUFFICES ASSUME NEW g \in Fiber, g[1] = c, call'[g].kind \in Leasing PROVE FALSE
        OBVIOUS
      <4>1. g # f
        BY <1>0 DEF Idle, Leasing
      <4> QED
        BY <1>0, <2>2, <4>1, OneLeases
    <3> QED
      BY <1>0, <1>2, <1>3, <3>1, SettledNumbers
  <2> QED
    BY <1>0, <2>1, <2>2
<1>5. Op(c)'.kind = "renew" => stage'[c] = "fencing"
  <2> SUFFICES ASSUME Op(c)'.kind = "renew" PROVE FALSE
    OBVIOUS
  <2>1. f # <<c, "operation">> /\ Op(c)'.kind = Op(c).kind
    <3>1. f # <<c, "operation">>
      BY <1>0 DEF Op, Idle
    <3> QED
      BY <1>0, <3>1, FiberTyped DEF Op
  <2>2. stage[c] = "fencing" /\ f[2] = "heartbeat" /\ CallFits(f)
    BY <2>1, TwoFibers DEF Numbered, Prompt, Mine
  <2> QED
    BY <1>0, <2>2 DEF CallFits, Running, Leasing
<1> QED
  BY <1>3, <1>4, <1>5 DEF Numbered

-----------------------------------------------------------------------------
(* Every step keeps the numbers *)

LEMMA ActsNumbered ==
  ASSUME Prompt, TypeOK', NEW c \in Command, Numbered(c), NEW b \in Command, Acts(b)
  PROVE  Numbered(c)'
<1>0. TypeOK
  BY DEF Prompt, Inv
<1>1. CASE b # c
  BY <1>0, <1>1, OthersSame, OthersNumbered
<1>2. CASE b = c
  <2>1. CASE \/ \E k \in {"create", "acquire", "release"} : Begin(c, k)
             \/ Fence(c) \/ Beat(c) \/ \E k \in {"record", "finish", "delete"} : Work(c, k)
    BY <1>0, <2>1, BeginNumbered
  <2>2. CASE Stops(c)
    BY <1>0, <2>2, StopNumbered
  <2>3. ASSUME NEW f \in Fiber, f[1] = c, Steps(f) PROVE Numbered(c)'
    BY <2>3, DropNumbered, PutNumbered, ConfirmNumbered, WriteNumbered DEF Steps
  <2> QED
    BY <1>2, <2>1, <2>2, <2>3, Forms
<1> QED
  BY <1>1, <1>2

LEMMA TickNumbered ==
  ASSUME TypeOK, NEW c \in Command, Numbered(c), Tick \/ UNCHANGED vars
  PROVE  Numbered(c)'
<1>1. /\ UNCHANGED <<kv, stamp, stage, held, call>> /\ replaced' \subseteq replaced
      /\ clock' >= clock /\ clock \in Nat /\ clock' \in Nat /\ stamp \in Nat /\ stamp >= stamp
  BY DEF Tick, vars, TypeOK
<1>2. Served' \subseteq Served /\ Own(c)' = Own(c)
  BY <1>1 DEF Served, Own, Op, Beating
<1>3. Values(c)' \subseteq Values(c)
  BY <1>2 DEF Values, LeaseOf
<1>4. (Counted(c) /\ Recorded(c) /\ Ordered(c) /\ NewIsNew(c))'
  BY <1>1, <1>2, <1>3, QuietNumbers DEF Follows
<1>5. ASSUME NEW f \in Fiber, f[1] = c PROVE CallNumbered(f)'
  <2>1. CallNumbered(f) /\ call[f].now \in Nat
    BY <1>5, CallTyped DEF Numbered, TypeOK
  <2>2. NewLease(f)' = NewLease(f) /\ call[f].now <= clock'
    BY <1>1, <2>1 DEF NewLease, CallNumbered
  <2> QED
    BY <1>1, <2>1, <2>2 DEF CallNumbered
<1> QED
  BY <1>1, <1>4, <1>5 DEF Numbered, Op

LEMMA NumberedAtFirst == ASSUME Init, NEW c \in Command PROVE Numbered(c)
<1>1. /\ stamp = 0 /\ clock = 0 /\ \A f \in Fiber : call[f] = Idle
      /\ held[c] = NoReceipt /\ <<c, "operation">> \in Fiber /\ <<c, "heartbeat">> \in Fiber
  BY FiberTyped DEF Init
<1>2. ~LeaseOf(kv, c)
  <2>1. PICK s \in Scenarios : kv = s.receipt
    BY DEF Init
  <2>2. kv # NoReceipt => Earlier(kv)
    BY <2>1, LeaseConstants
  <2> QED
    BY <2>2, LeaseConstants DEF Earlier, LeaseOf
<1>3. Op(c) = Idle /\ Beating(c) = Idle
  BY <1>1 DEF Op, Beating
<1>4. Values(c) = {}
  <2>1. Served = {kv}
    BY DEF Init, Served
  <2> QED
    BY <1>1, <1>2, <1>3, <2>1 DEF Values, Own, Idle, LeaseOf
<1>5. \A f \in Fiber : CallNumbered(f)
  BY <1>1 DEF CallNumbered, Idle, LeaseOf
<1>6. Counted(c) /\ Recorded(c) /\ Ordered(c)
  BY <1>2, <1>4 DEF Counted, Recorded, Ordered
<1>7. NewIsNew(c) /\ Op(c).kind # "renew"
  BY <1>1, <1>3 DEF NewIsNew, Idle, Leasing
<1> QED
  BY <1>5, <1>6, <1>7 DEF Numbered

LEMMA NumberedAlways ==
  ASSUME \A s \in Scenarios : s.staleness = 0
  PROVE  Spec => [](\A c \in Command : Numbered(c))
<1> DEFINE N == \A c \in Command : Numbered(c)
<1>1. Init => N
  BY NumberedAtFirst
<1>2. Prompt /\ Inv' /\ N /\ [Next]_vars => N'
  <2> SUFFICES ASSUME Prompt, Inv', N, [Next]_vars, NEW c \in Command PROVE Numbered(c)'
    OBVIOUS
  <2>1. CASE Tick \/ UNCHANGED vars
    BY <2>1, TickNumbered DEF Prompt, Inv
  <2>2. ASSUME NEW b \in Command, Acts(b) PROVE Numbered(c)'
    BY <2>2, ActsNumbered DEF Inv
  <2> QED
    BY <2>1, <2>2, NextActs
<1> HIDE DEF N
<1>3. Spec => []N
  BY <1>1, <1>2, PromptAlways, InvAlways, PTL DEF Spec
<1> QED
  BY <1>3 DEF N

-----------------------------------------------------------------------------
(* How long the leases of a command last *)

\* The time k renewals cover.
Beats(k) == Heartbeat * k

\* When a lease ends at the earliest that a renewal due at t writes, or finds, after
\* k renewals have been lost: a beat less for each, one for the pause, and a tick
\* for the start of the command's tick and for the stale read of it.
Until(t, k) == t + (Ttl - Heartbeat - 2) - Beats(k)

\* Such a lease outlives the polls of a renewal after as many lost renewals as a
\* command of that role can undo with its records.
Outlasts(r) == Until(0, Records[r]) > PollLimit

\* The leases of c that a read may find: none, only that one, only long ones.
NoLeaseOf(c) == \A v \in Served : ~LeaseOf(v, c)
OnlyLease(c, l) == \A v \in Served : LeaseOf(v, c) => v.lease = l
AtLeast(c, t) == \A v \in Served : LeaseOf(v, c) => v.lease.until >= t
Newest(c, t) == LeaseOf(kv, c) => kv.lease.until >= t

\* The lease l is not found any more and no write of c brings it back.
Gone(c, l) ==
    /\ \A v \in Served : LeaseOf(v, c) => v.lease # l
    /\ \A f \in Fiber : f[1] = c /\ call[f].step = "write" /\ LeaseOf(call[f].next, c) =>
          call[f].next.lease # l

\* A call of c that waits for the lease l since the tick began: it was replaced
\* within that tick, or another value was, or it is gone.
Waited(c, l, began) ==
    \/ clock = began
    \/ /\ OnlyLease(c, l)
       /\ Gone(c, l) \/ (clock = began + 1 /\ (LeaseOf(kv, c) => replaced = {}))

\* The command has not begun, or has freed the lease it found.
Bare(c) ==
    /\ stage[c] \in {"new", "released"} => NoLeaseOf(c)
    /\ stage[c] # "running" => made[c] = 0

Acquiring(c) ==
    stage[c] = "acquiring" =>
       /\ Op(c).kind \in {"create", "acquire", "release"}
       /\ Op(c).kind = "release" \/ Op(c).step # "confirm" => NoLeaseOf(c)
       /\ Op(c).kind # "release" =>
             /\ Op(c).began = Op(c).now
             /\ Op(c).step \in {"read", "write"} => clock = Op(c).now
             /\ Op(c).step = "confirm" => /\ OnlyLease(c, Op(c).next.lease)
                                          /\ Waited(c, Op(c).next.lease, Op(c).began)

Fencing(c) ==
    stage[c] = "fencing" =>
       /\ Op(c).step = "idle" => /\ OnlyLease(c, held[c].lease)
                                 /\ held[c].lease.until >= clock + Ttl - 1
       /\ Op(c).step = "read" => /\ OnlyLease(c, Op(c).from.lease)
                                 /\ Op(c).from.lease.until >= Op(c).now + Ttl - 1
                                 /\ Waited(c, Op(c).from.lease, Op(c).now)
       /\ Op(c).step = "write" => /\ clock = Op(c).began /\ clock <= Op(c).now + 1
                                  /\ AtLeast(c, Op(c).now + Ttl - 1)
       /\ Op(c).step = "confirm" => /\ Op(c).began <= Op(c).now + 1
                                    /\ AtLeast(c, Op(c).now + Ttl - 1)
                                    /\ LeaseOf(kv, c) => kv.lease = Op(c).next.lease
                                    /\ Waited(c, Op(c).next.lease, Op(c).began)

\* The records of a running command that are past their read, and one about to be
\* written; how many ticks the renewal under way may still be behind.
Written(c) == made[c] - (IF Op(c).kind = "record" /\ Op(c).step = "read" THEN 1 ELSE 0)
Recording(c) == Op(c).kind = "record" /\ Op(c).step = "write"
Promised(c, t) == Recording(c) => Op(c).next.lease.until >= t
Spare(c) == Written(c) - (clock - due[c])

\* No renewal is due.
Early(c) ==
    /\ clock < due[c] /\ Beating(c).step = "idle"
    /\ AtLeast(c, Until(clock, Written(c)))
    /\ Newest(c, Until(due[c], Written(c)))
    /\ Promised(c, Until(due[c], Written(c)))

\* The renewal is at work, each tick it is behind by a record.
Timely(c) ==
    /\ clock >= due[c] /\ Spare(c) >= 0
    /\ Beating(c).step = "idle" => clock = due[c]
    /\ Beating(c).step \in {"write", "confirm"} => Beating(c).began = clock
    /\ AtLeast(c, Until(due[c], Spare(c)))
    /\ replaced # {} \/ Beating(c).step = "confirm" => Newest(c, Until(due[c], Spare(c) - 1))
    /\ LeaseOf(kv, c) /\ replaced # {} /\ Beating(c).step # "confirm" => Spare(c) >= 1
    /\ Recording(c) => Spare(c) >= 1
    /\ Promised(c, Until(due[c], Spare(c) - 1))

\* The renewal waits for a lease that is gone, to fail when its polls are over.
Doomed(c) ==
    /\ Beating(c).step \in {"read", "confirm"}
    /\ Beating(c).step = "read" => Gone(c, Beating(c).from.lease)
    /\ Beating(c).step = "confirm" => Gone(c, Beating(c).next.lease)
    /\ Beating(c).began >= due[c] /\ clock <= Beating(c).began + PollLimit
    /\ AtLeast(c, Until(Beating(c).began, Written(c)))
    /\ Promised(c, Until(Beating(c).began, Written(c)))

\* The renewal was written in the last tick and reads it in this one.
Awaited(c) ==
    /\ Beating(c).step = "confirm" /\ clock = Beating(c).began + 1
    /\ Beating(c).began >= due[c] /\ Beating(c).began - due[c] <= Written(c)
    /\ OnlyLease(c, Beating(c).next.lease)
    /\ LeaseOf(kv, c) => replaced = {}
    /\ ~Recording(c)

RunningWell(c) ==
    stage[c] = "running" =>
       /\ Beating(c).step # "idle" => Beating(c).now = due[c]
       /\ Beating(c).step = "read" => Beating(c).began = due[c]
       /\ Written(c) >= 0 /\ made[c] <= Records[role[c]]
       /\ Early(c) \/ Timely(c) \/ Doomed(c) \/ Awaited(c)

Phased(c) == Bare(c) /\ Acquiring(c) /\ Fencing(c) /\ RunningWell(c)

\* While a command with such a lease lives, none of its leases is found expired.
Living == {"new", "acquiring", "released", "fencing", "running"}
Unexpired(c) == Outlasts(role[c]) /\ stage[c] \in Living => AtLeast(c, clock + 1)

\* No receipt says that the lease of a living command was freed for it.
Spared(c) ==
    stage[c] \in Living =>
       \A r \in Receipts : \A i \in DOMAIN r.history :
          r.history[i] # [by |-> c, outcome |-> "interrupted"]

LEMMA BeatsTyped == \A k \in Int : Beats(k) \in Int
BY PollTyped DEF Beats

LEMMA BeatsGrow == \A k, m \in Int : k <= m => Beats(k) <= Beats(m)
<1> SUFFICES ASSUME NEW k \in Int, NEW m \in Int, k <= m PROVE Beats(k) <= Beats(m)
  OBVIOUS
<1>1. PICK d \in Nat : m = k + d
  <2>1. m - k \in Nat /\ m = k + (m - k)
    OBVIOUS
  <2> QED
    BY <2>1
<1>2. Heartbeat \in Nat
  BY PollTyped
<1>3. Heartbeat * d >= 0
  BY <1>2
<1>4. Heartbeat * (k + d) = Heartbeat * k + Heartbeat * d
  BY <1>2
<1> QED
  BY <1>1, <1>2, <1>3, <1>4 DEF Beats

LEMMA BeatsNext == \A k \in Int : Beats(k + 1) = Beats(k) + Heartbeat
BY PollTyped DEF Beats

LEMMA BeatsBehind ==
  ASSUME Heartbeat > 0
  PROVE  \A k \in Int, x \in Nat : Beats(k - x) + x <= Beats(k)
<1> SUFFICES ASSUME NEW k \in Int, NEW x \in Nat PROVE Beats(k - x) + x <= Beats(k)
  OBVIOUS
<1>1. PICK h \in Nat : Heartbeat = h + 1
  <2>1. Heartbeat - 1 \in Nat /\ Heartbeat = (Heartbeat - 1) + 1
    BY PollTyped
  <2> QED
    BY <2>1
<1>2. (h + 1) * (k - x) = (h + 1) * k - (h * x + x)
  BY <1>1
<1>3. h * x \in Nat
  BY <1>1
<1>4. (h + 1) * k \in Int
  BY <1>1
<1> QED
  BY <1>1, <1>2, <1>3, <1>4 DEF Beats

LEMMA UntilTyped == \A t, k \in Int : Until(t, k) \in Int
BY BeatsTyped, PollTyped, TimesTyped DEF Until

\* It grows with t and falls with k, by a heartbeat each time.
LEMMA UntilMoves ==
  /\ \A t, u, j, k \in Int : t <= u /\ k <= j => Until(t, j) <= Until(u, k)
  /\ \A t, k \in Int, x \in Int : Until(t + x, k) = Until(t, k) + x
  /\ \A t, k \in Int : Until(t, k + 1) = Until(t, k) - Heartbeat
<1>0. Ttl \in Nat /\ Heartbeat \in Nat
  BY PollTyped, TimesTyped
<1>1. ASSUME NEW t \in Int, NEW u \in Int, NEW j \in Int, NEW k \in Int, t <= u, k <= j
      PROVE  Until(t, j) <= Until(u, k)
  <2>1. Beats(k) <= Beats(j) /\ Beats(k) \in Int /\ Beats(j) \in Int
    BY <1>1, BeatsGrow, BeatsTyped
  <2> QED
    BY <1>0, <1>1, <2>1 DEF Until
<1>2. ASSUME NEW t \in Int, NEW k \in Int, NEW x \in Int PROVE Until(t + x, k) = Until(t, k) + x
  <2>1. Beats(k) \in Int
    BY BeatsTyped
  <2> QED
    BY <1>0, <2>1 DEF Until
<1>3. ASSUME NEW t \in Int, NEW k \in Int PROVE Until(t, k + 1) = Until(t, k) - Heartbeat
  <2>1. Beats(k) \in Int /\ Beats(k + 1) = Beats(k) + Heartbeat
    BY BeatsTyped, BeatsNext
  <2> QED
    BY <1>0, <2>1 DEF Until
<1> QED
  BY <1>1, <1>2, <1>3

\* As many ticks later, as many renewals lost.
LEMMA UntilBehind ==
  ASSUME Heartbeat > 0
  PROVE  \A t, k \in Int, x \in Nat : Until(t + x, k) <= Until(t, k - x)
<1> SUFFICES ASSUME NEW t \in Int, NEW k \in Int, NEW x \in Nat
             PROVE  Until(t + x, k) <= Until(t, k - x)
  OBVIOUS
<1>1. Ttl \in Nat /\ Heartbeat \in Nat /\ Beats(k) \in Int /\ Beats(k - x) \in Int
      /\ Beats(k - x) + x <= Beats(k)
  BY PollTyped, TimesTyped, BeatsTyped, BeatsBehind
<1> QED
  BY <1>1 DEF Until

\* The numbers the phases are about.
LEMMA PhaseTyped ==
  ASSUME TypeOK, NEW c \in Command
  PROVE  /\ clock \in Nat /\ due[c] \in Nat /\ made[c] \in Nat /\ Written(c) \in Int /\ Spare(c) \in Int
         /\ Heartbeat \in Nat /\ PollLimit \in Nat /\ Ttl \in Nat
         /\ Beating(c).began \in Nat /\ Beating(c).now \in Nat
         /\ Op(c).began \in Nat /\ Op(c).now \in Nat
         /\ Op(c).step \in Step /\ Beating(c).step \in Step
         /\ \A v \in Served : LeaseOf(v, c) => v.lease.until \in Nat
         /\ LeaseOf(kv, c) => kv.lease.until \in Nat
         /\ LeaseOf(held[c], c) => held[c].lease.until \in Nat
         /\ LeaseOf(Op(c).from, c) => Op(c).from.lease.until \in Nat
         /\ LeaseOf(Op(c).next, c) => Op(c).next.lease.until \in Nat
<1>1. clock \in Nat /\ due[c] \in Nat /\ made[c] \in Nat /\ Op(c) \in Call /\ Beating(c) \in Call
  BY FiberTyped DEF TypeOK, Op, Beating
<1>2. Written(c) \in Int
  BY <1>1 DEF Written
<1>3. Spare(c) \in Int
  BY <1>1, <1>2 DEF Spare
<1>4. Heartbeat \in Nat /\ PollLimit \in Nat /\ Ttl \in Nat
  BY PollTyped, TimesTyped
<1>5. \A v \in Receipt : LeaseOf(v, c) => v.lease.until \in Nat
  BY DEF Receipt, Lease, LeaseOf
<1>6. /\ \A v \in Served : v \in Receipt \cup {NoReceipt}
      /\ kv \in Receipt \cup {NoReceipt} /\ held[c] \in Receipt \cup {NoReceipt}
      /\ Op(c).from \in Receipt \cup {NoReceipt} /\ Op(c).next \in Receipt \cup {NoReceipt}
  BY <1>1, ServedTyped, CallTyped DEF TypeOK
<1>7. \A v \in Receipt \cup {NoReceipt} : LeaseOf(v, c) => v.lease.until \in Nat
  BY <1>5 DEF LeaseOf
<1>8. /\ Beating(c).began \in Nat /\ Beating(c).now \in Nat /\ Op(c).began \in Nat /\ Op(c).now \in Nat
      /\ Op(c).step \in Step /\ Beating(c).step \in Step
  BY <1>1, CallTyped
<1> QED
  BY <1>1, <1>2, <1>3, <1>4, <1>6, <1>7, <1>8

-----------------------------------------------------------------------------
(* What a step does for the phase of a command *)

\* What is found was found before or is written by c; what c writes it was about
\* to write before, or it carries no other lease than one that was found.
Known(c) ==
    /\ \A v \in Served' : LeaseOf(v, c) =>
          v \in Served \/ \E f \in Fiber : f[1] = c /\ call[f].step = "write" /\ v = call[f].next
    /\ \A f \in Fiber : f[1] = c /\ call'[f].step = "write" /\ LeaseOf(call'[f].next, c) =>
          \/ call[f].step = "write" /\ call[f].next = call'[f].next
          \/ \E v \in Served : LeaseOf(v, c) /\ v.lease = call'[f].next.lease

\* The renewal stays as it is.
Goes(c) ==
    /\ clock' = clock /\ role' = role /\ stage'[c] = stage[c] /\ due'[c] = due[c]
    /\ Beating(c)' = Beating(c)
    /\ made[c] <= made'[c] /\ made'[c] <= Records[role[c]]
    /\ Known(c)

\* The operation does nothing that matters, or gives up a record, or the receipt.
Calm(c) ==
    /\ Goes(c)
    /\ Written(c)' = Written(c) \/ Written(c)' = Written(c) + 1
    /\ Fades(c)
    /\ Recording(c)' => Recording(c) /\ Op(c)'.next = Op(c).next

\* The operation has read v and is about to record.
Copies(c, v) ==
    /\ Goes(c)
    /\ Written(c)' = Written(c) + 1
    /\ kv' = kv /\ replaced' = replaced
    /\ LeaseOf(v, c) /\ Op(c)'.next.lease = v.lease
    /\ LeaseOf(Op(c).from, c) /\ Op(c).from.lease = v.lease

\* The operation writes its record.
Stores(c) ==
    /\ Goes(c)
    /\ Written(c)' = Written(c)
    /\ kv' = Op(c).next /\ replaced' # {} /\ \A v \in Served' : v = kv' \/ v \in Served
    /\ Recording(c) /\ ~Recording(c)'

LEMMA StaysGone ==
  ASSUME NEW c \in Command, NEW l, Gone(c, l), Known(c)
  PROVE  Gone(c, l)'
<1>1. ASSUME NEW v \in Served', LeaseOf(v, c) PROVE v.lease # l
  BY <1>1 DEF Known, Gone
<1>2. ASSUME NEW f \in Fiber, f[1] = c, call'[f].step = "write", LeaseOf(call'[f].next, c)
      PROVE  call'[f].next.lease # l
  BY <1>2 DEF Known, Gone
<1> QED
  BY <1>1, <1>2 DEF Gone, LeaseOf

LEMMA RecordingIsMine ==
  ASSUME Inv, NEW c \in Command, Recording(c)
  PROVE  LeaseOf(Op(c).next, c) /\ Op(c).next.lease.until \in Nat
<1>1. LeaseOf(Op(c).next, c)
  BY FiberTyped DEF Inv, AllMine, CallIsMine, Recording, Op
<1> QED
  BY <1>1, PhaseTyped DEF Inv

\* What such a step leaves of how long the leases last.
LEMMA CalmFloors ==
  ASSUME Inv, NEW c \in Command, Calm(c), NEW s \in Int, NEW x \in Int, x <= s
  PROVE  /\ AtLeast(c, s) => AtLeast(c, x)'
         /\ Newest(c, s) => Newest(c, x)'
         /\ Promised(c, s) => Promised(c, x)'
<1>0. /\ \A v \in Served : LeaseOf(v, c) => v.lease.until \in Nat
      /\ LeaseOf(kv, c) => kv.lease.until \in Nat
  BY PhaseTyped DEF Inv
<1>1. AtLeast(c, s) => \A v \in Served' : LeaseOf(v, c) => v.lease.until >= x
  BY <1>0 DEF AtLeast, Calm, Fades
<1>2. Newest(c, s) => (LeaseOf(kv', c) => kv'.lease.until >= x)
  BY <1>0 DEF Newest, Calm, Fades
<1>3. ASSUME Promised(c, s), Recording(c)' PROVE Op(c)'.next.lease.until >= x
  <2>1. Op(c)'.next = Op(c).next /\ Op(c).next.lease.until >= s /\ Op(c).next.lease.until \in Nat
    BY <1>3, RecordingIsMine DEF Calm, Promised
  <2> QED
    BY <2>1
<1> QED
  BY <1>1, <1>2, <1>3 DEF AtLeast, Newest, Promised, LeaseOf

LEMMA CopiesFloors ==
  ASSUME Inv, NEW c \in Command, NEW v \in Served, Copies(c, v),
         NEW s \in Int, NEW x \in Int, x <= s
  PROVE  /\ AtLeast(c, s) => AtLeast(c, x)' /\ Promised(c, x)'
         /\ Newest(c, s) => Newest(c, x)'
<1>0. /\ \A w \in Served : LeaseOf(w, c) => w.lease.until \in Nat
      /\ LeaseOf(kv, c) => kv.lease.until \in Nat
      /\ Served' = Served /\ kv' = kv
      /\ LeaseOf(v, c) /\ Op(c)'.next.lease = v.lease
  BY PhaseTyped DEF Inv, Copies, Served
<1>1. AtLeast(c, s) => \A w \in Served' : LeaseOf(w, c) => w.lease.until >= x
  BY <1>0 DEF AtLeast
<1>2. Newest(c, s) => (LeaseOf(kv', c) => kv'.lease.until >= x)
  BY <1>0 DEF Newest
<1>3. AtLeast(c, s) => Op(c)'.next.lease.until >= x
  BY <1>0 DEF AtLeast
<1> QED
  BY <1>1, <1>2, <1>3 DEF AtLeast, Newest, Promised, LeaseOf

LEMMA StoresFloors ==
  ASSUME Inv, NEW c \in Command, Stores(c), NEW s \in Int, NEW t \in Int, Promised(c, t)
  PROVE  /\ AtLeast(c, s) => \A x \in Int : x <= s /\ x <= t => AtLeast(c, x)'
         /\ Newest(c, t)'
         /\ \A x \in Int : Promised(c, x)'
<1>0. /\ \A w \in Served : LeaseOf(w, c) => w.lease.until \in Nat
      /\ Op(c).next.lease.until \in Nat /\ Op(c).next.lease.until >= t
      /\ kv' = Op(c).next /\ \A w \in Served' : w = kv' \/ w \in Served
      /\ ~Recording(c)'
  BY PhaseTyped, RecordingIsMine DEF Inv, Stores, Promised
<1>1. ASSUME AtLeast(c, s), NEW x \in Int, x <= s, x <= t, NEW w \in Served', LeaseOf(w, c)
      PROVE  w.lease.until >= x
  <2>1. CASE w = kv'
    BY <1>0, <1>1, <2>1
  <2>2. CASE w \in Served
    BY <1>0, <1>1, <2>2 DEF AtLeast
  <2> QED
    BY <1>0, <2>1, <2>2
<1> QED
  BY <1>0, <1>1 DEF AtLeast, Newest, Promised, LeaseOf

-----------------------------------------------------------------------------
(* The operation goes on while the renewal stays as it is *)

LEMMA WrittenNext == ASSUME TypeOK', NEW c \in Command PROVE Written(c)' \in Int
<1>1. made'[c] \in Int
  BY DEF TypeOK
<1> QED
  BY <1>1 DEF Written

LEMMA EarlyGoes ==
  ASSUME Prompt, TypeOK', NEW c \in Command, Running(c), Early(c), NEW v \in Served,
         Calm(c) \/ Copies(c, v) \/ Stores(c)
  PROVE  Early(c)'
<1>0. TypeOK /\ Inv /\ Heartbeat \in Nat
  BY PollTyped DEF Prompt, Inv
<1>1. PICK T \in Nat, D \in Nat, w \in Int, x \in Int :
         T = clock /\ D = due[c] /\ w = Written(c) /\ x = Written(c)'
  BY <1>0, PhaseTyped, WrittenNext
<1>2. /\ clock' = T /\ due'[c] = D /\ Beating(c)' = Beating(c) /\ Beating(c).step = "idle"
      /\ x = w \/ x = w + 1
  BY <1>1 DEF Calm, Copies, Stores, Goes, Early
<1>3. T < D /\ D <= T + Heartbeat
  BY <1>1 DEF Early, Prompt, Mine, Punctual
<1>4. AtLeast(c, Until(T, w)) /\ Newest(c, Until(D, w)) /\ Promised(c, Until(D, w))
  BY <1>1 DEF Early
<1>5. PICK p \in Int, q \in Int, r \in Int, s \in Int :
         /\ p = Until(T, w) /\ q = Until(D, w) /\ r = Until(T, x) /\ s = Until(D, x)
         /\ r <= p /\ s <= q /\ p <= q
         /\ x = w + 1 => s <= p
  <2>0. w <= x /\ w <= w /\ T <= D /\ T <= T /\ D <= D /\ T \in Int /\ D \in Int
    BY <1>2, <1>3
  <2>1. Until(T, x) <= Until(T, w) /\ Until(D, x) <= Until(D, w) /\ Until(T, w) <= Until(D, w)
    BY <2>0, UntilMoves
  <2>2. x = w + 1 => Until(D, x) = Until(D, w) - Heartbeat
    BY UntilMoves
  <2>3. Until(D, w) <= Until(T, w) + Heartbeat
    <3>1. Until(D, w) <= Until(T + Heartbeat, w) /\ Until(T + Heartbeat, w) = Until(T, w) + Heartbeat
      BY <1>0, <1>3, UntilMoves
    <3> QED
      BY <3>1
  <2>4. /\ Until(T, w) \in Int /\ Until(D, w) \in Int /\ Until(T, x) \in Int /\ Until(D, x) \in Int
    BY <2>0, UntilTyped
  <2>5. x = w + 1 => Until(D, x) <= Until(T, w)
    BY <1>0, <2>2, <2>3, <2>4
  <2> QED
    BY <2>1, <2>4, <2>5
<1>6. AtLeast(c, r)' /\ Newest(c, s)' /\ Promised(c, s)'
  <2>1. CASE Calm(c)
    BY <1>0, <1>4, <1>5, <2>1, CalmFloors
  <2>2. CASE Copies(c, v)
    <3>1. x = w + 1
      BY <1>1, <2>2 DEF Copies
    <3> QED
      BY <1>0, <1>4, <1>5, <2>2, <3>1, CopiesFloors
  <2>3. CASE Stores(c)
    <3>1. x = w /\ r <= q
      BY <1>1, <1>5, <2>3 DEF Stores
    <3>2. Newest(c, q)' /\ AtLeast(c, r)' /\ Promised(c, s)'
      BY <1>0, <1>4, <1>5, <2>3, <3>1, StoresFloors
    <3> QED
      BY <1>5, <3>1, <3>2
  <2> QED
    BY <2>1, <2>2, <2>3
<1>7. Until(clock, Written(c))' = r /\ Until(due[c], Written(c))' = s
  BY <1>1, <1>2, <1>5 DEF Until, Beats
<1> QED
  BY <1>1, <1>2, <1>3, <1>6, <1>7 DEF Early, AtLeast, Newest, Promised, LeaseOf

LEMMA DoomedGoes ==
  ASSUME Prompt, TypeOK', NEW c \in Command, Running(c), Doomed(c), NEW v \in Served,
         Calm(c) \/ Copies(c, v) \/ Stores(c)
  PROVE  Doomed(c)'
<1>0. TypeOK /\ Inv /\ Heartbeat \in Nat
  BY PollTyped DEF Prompt, Inv
<1>1. PICK B \in Nat, w \in Int, x \in Int :
         B = Beating(c).began /\ w = Written(c) /\ x = Written(c)'
  BY <1>0, PhaseTyped, WrittenNext
<1>2. /\ clock' = clock /\ due'[c] = due[c] /\ Beating(c)' = Beating(c) /\ Known(c)
      /\ x = w \/ x = w + 1
  BY <1>1 DEF Calm, Copies, Stores, Goes
<1>3. /\ Beating(c).step = "read" => Gone(c, Beating(c).from.lease)'
      /\ Beating(c).step = "confirm" => Gone(c, Beating(c).next.lease)'
  <2> DEFINE b == Beating(c)
  <2>1. PICK l, m : l = b.from.lease /\ m = b.next.lease
    OBVIOUS
  <2>2. (b.step = "read" => Gone(c, l)') /\ (b.step = "confirm" => Gone(c, m)')
    BY <1>2, <2>1, StaysGone DEF Doomed
  <2>3. b' = b
    BY <1>2
  <2> QED
    BY <2>1, <2>2, <2>3 DEF Gone
<1>4. AtLeast(c, Until(B, w)) /\ Promised(c, Until(B, w))
  BY <1>1 DEF Doomed
<1>5. PICK p \in Int, q \in Int : p = Until(B, w) /\ q = Until(B, x) /\ q <= p
  <2>1. w <= x /\ B \in Int /\ B <= B
    BY <1>2
  <2>2. Until(B, x) <= Until(B, w)
    BY <2>1, UntilMoves
  <2>3. Until(B, w) \in Int /\ Until(B, x) \in Int
    BY <2>1, UntilTyped
  <2> QED
    BY <2>2, <2>3
<1>6. AtLeast(c, q)' /\ Promised(c, q)'
  <2>1. CASE Calm(c)
    BY <1>0, <1>4, <1>5, <2>1, CalmFloors
  <2>2. CASE Copies(c, v)
    BY <1>0, <1>4, <1>5, <2>2, CopiesFloors
  <2>3. CASE Stores(c)
    BY <1>0, <1>4, <1>5, <2>3, StoresFloors
  <2> QED
    BY <2>1, <2>2, <2>3
<1>7. Until(Beating(c).began, Written(c))' = q
  BY <1>1, <1>2, <1>5 DEF Until, Beats
<1> QED
  BY <1>2, <1>3, <1>6, <1>7 DEF Doomed, AtLeast, Promised
LEMMA TimelyGoes ==
  ASSUME Prompt, TypeOK', NEW c \in Command, Running(c), Timely(c), NEW v \in Served,
         Calm(c) \/ Copies(c, v) \/ Stores(c)
  PROVE  Timely(c)'
<1>0. TypeOK /\ Inv /\ Heartbeat \in Nat
  BY PollTyped DEF Prompt, Inv
<1>1. PICK T \in Nat, D \in Nat, k \in Int, m \in Int :
         T = clock /\ D = due[c] /\ k = Spare(c) /\ m = Spare(c)'
  <2>1. clock' = clock /\ due'[c] = due[c]
    BY DEF Calm, Copies, Stores, Goes
  <2>2. Spare(c)' = Written(c)' - (clock - due[c]) /\ Written(c)' \in Int
    BY <2>1, WrittenNext DEF Spare
  <2> QED
    BY <1>0, <2>2, PhaseTyped
<1>2. /\ clock' = T /\ due'[c] = D /\ Beating(c)' = Beating(c)
      /\ m = k \/ m = k + 1
      /\ Calm(c) \/ (Copies(c, v) /\ m = k + 1) \/ (Stores(c) /\ m = k)
  <2>1. clock' = T /\ due'[c] = D /\ Beating(c)' = Beating(c)
    BY <1>1 DEF Calm, Copies, Stores, Goes
  <2>2. k = Written(c) - (T - D) /\ m = Written(c)' - (T - D)
    BY <1>1, <2>1 DEF Spare
  <2>3. Written(c) \in Int /\ Written(c)' \in Int
    BY <1>0, PhaseTyped, WrittenNext
  <2>4. /\ Calm(c) => Written(c)' = Written(c) \/ Written(c)' = Written(c) + 1
        /\ Copies(c, v) => Written(c)' = Written(c) + 1
        /\ Stores(c) => Written(c)' = Written(c)
    BY DEF Calm, Copies, Stores
  <2> QED
    BY <2>1, <2>2, <2>3, <2>4
<1>3. /\ AtLeast(c, Until(D, k)) /\ Promised(c, Until(D, k - 1))
      /\ replaced # {} \/ Beating(c).step = "confirm" => Newest(c, Until(D, k - 1))
      /\ LeaseOf(kv, c) /\ replaced # {} /\ Beating(c).step # "confirm" => k >= 1
      /\ Recording(c) => k >= 1
      /\ k >= 0 /\ T >= D
  BY <1>1 DEF Timely
<1>4. PICK p \in Int, q \in Int, r \in Int, s \in Int :
         /\ p = Until(D, k) /\ q = Until(D, k - 1) /\ r = Until(D, m) /\ s = Until(D, m - 1)
         /\ r <= p /\ s <= q /\ r <= q
         /\ m = k + 1 => s <= p
         /\ m = k => s = q
  <2>0. /\ k <= m /\ k - 1 <= m - 1 /\ k - 1 <= m /\ D <= D /\ D \in Int
        /\ k - 1 \in Int /\ m - 1 \in Int
        /\ m = k + 1 => k <= m - 1
    BY <1>2
  <2>1. Until(D, m) <= Until(D, k) /\ Until(D, m - 1) <= Until(D, k - 1) /\ Until(D, m) <= Until(D, k - 1)
    BY <2>0, UntilMoves
  <2>2. m = k + 1 => Until(D, m - 1) <= Until(D, k)
    BY <2>0, UntilMoves
  <2>3. Until(D, k) \in Int /\ Until(D, k - 1) \in Int /\ Until(D, m) \in Int /\ Until(D, m - 1) \in Int
    BY <2>0, UntilTyped
  <2> QED
    BY <2>1, <2>2, <2>3
<1>5. AtLeast(c, r)' /\ Promised(c, s)'
  <2>1. CASE Calm(c)
    BY <1>0, <1>3, <1>4, <2>1, CalmFloors
  <2>2. CASE Copies(c, v) /\ m = k + 1
    BY <1>0, <1>3, <1>4, <2>2, CopiesFloors
  <2>3. CASE Stores(c) /\ m = k
    BY <1>0, <1>3, <1>4, <2>3, StoresFloors
  <2> QED
    BY <1>2, <2>1, <2>2, <2>3
<1>6. /\ replaced' # {} \/ Beating(c)'.step = "confirm" => Newest(c, s)'
      /\ LeaseOf(kv', c) /\ replaced' # {} /\ Beating(c)'.step # "confirm" => m >= 1
      /\ Recording(c)' => m >= 1
  <2>1. CASE Calm(c)
    <3>1. (kv' = kv /\ replaced' = replaced) \/ ~LeaseOf(kv', c)
      BY <2>1 DEF Calm, Fades
    <3>2. ~LeaseOf(kv', c) => Newest(c, s)'
      BY DEF Newest, LeaseOf
    <3>3. Newest(c, q) => Newest(c, s)'
      BY <1>0, <1>4, <2>1, CalmFloors
    <3>4. Recording(c)' => Recording(c)
      BY <2>1 DEF Calm
    <3> QED
      BY <1>2, <1>3, <1>4, <3>1, <3>2, <3>3, <3>4
  <2>2. CASE Copies(c, v) /\ m = k + 1
    <3>1. kv' = kv /\ replaced' = replaced
      BY <2>2 DEF Copies
    <3>2. Newest(c, q) => Newest(c, s)'
      BY <1>0, <1>4, <2>2, CopiesFloors
    <3> QED
      BY <1>2, <1>3, <1>4, <2>2, <3>1, <3>2
  <2>3. CASE Stores(c) /\ m = k
    <3>1. Newest(c, q)'
      BY <1>0, <1>3, <1>4, <2>3, StoresFloors
    <3>2. Recording(c)
      BY <2>3 DEF Stores
    <3> QED
      BY <1>3, <1>4, <2>3, <3>1, <3>2
  <2> QED
    BY <1>2, <2>1, <2>2, <2>3
<1>7. Until(due[c], Spare(c))' = r /\ Until(due[c], Spare(c) - 1)' = s
  BY <1>1, <1>2, <1>4 DEF Until, Beats
<1>8. m >= 0 /\ (Beating(c).step = "idle" => T = D)
      /\ (Beating(c).step \in {"write", "confirm"} => Beating(c).began = T)
  BY <1>1, <1>2, <1>3 DEF Timely
<1> QED
  BY <1>1, <1>2, <1>3, <1>5, <1>6, <1>7, <1>8 DEF Timely, AtLeast, Newest, Promised, LeaseOf

LEMMA AwaitedGoes ==
  ASSUME Prompt, TypeOK', NEW c \in Command, Numbered(c), Running(c), Awaited(c), NEW v \in Served,
         Calm(c) \/ Copies(c, v) \/ Stores(c)
  PROVE  Awaited(c)'
<1>0. TypeOK /\ Inv /\ <<c, "heartbeat">> \in Fiber /\ <<c, "heartbeat">>[1] = c
  BY FiberTyped DEF Prompt, Inv
<1>1. ~Stores(c)
  BY DEF Awaited, Stores
<1>2. ~Copies(c, v)
  <2> SUFFICES ASSUME Copies(c, v) PROVE FALSE
    OBVIOUS
  <2>1. Op(c).from.lease = Beating(c).next.lease /\ LeaseOf(Op(c).from, c) /\ Op(c).from \in Own(c)
    BY DEF Copies, Awaited, OnlyLease, Own
  <2>2. Beating(c).step = "confirm" /\ Beating(c).kind = "renew"
    <3>1. CallFits(<<c, "heartbeat">>)
      BY <1>0 DEF Prompt, Mine
    <3> QED
      BY <1>0, <3>1 DEF Awaited, CallFits, Beating
  <2>3. Beating(c).next.lease.stamp = Beating(c).stamp
    <3>1. Beating(c).next.lease = NewLease(<<c, "heartbeat">>)
      BY <1>0, <2>2 DEF Numbered, CallNumbered, Leasing, Beating
    <3> QED
      BY <3>1 DEF NewLease, Beating
  <2>4. Op(c).from.lease.stamp # Beating(c).stamp
    BY <1>0, <2>1, <2>2 DEF Numbered, NewIsNew, Leasing, Beating
  <2> QED
    BY <2>1, <2>3, <2>4
<1>3. CASE Calm(c)
  <2>1. /\ clock' = clock /\ due'[c] = due[c] /\ Beating(c)' = Beating(c)
        /\ Written(c)' = Written(c) \/ Written(c)' = Written(c) + 1
        /\ \A u \in Served' : LeaseOf(u, c) => u \in Served
        /\ (kv' = kv /\ replaced' = replaced) \/ ~LeaseOf(kv', c)
        /\ ~Recording(c)'
    BY <1>3 DEF Calm, Goes, Fades, Awaited
  <2>2. Beating(c).began - due[c] <= Written(c)'
    <3>1. Written(c) \in Int /\ Beating(c).began \in Nat /\ due[c] \in Nat
          /\ Beating(c).began - due[c] <= Written(c)
      BY <1>0, PhaseTyped DEF Awaited
    <3> QED
      BY <2>1, <3>1
  <2>3. OnlyLease(c, Beating(c).next.lease)'
    BY <2>1 DEF Awaited, OnlyLease, LeaseOf
  <2> QED
    BY <2>1, <2>2, <2>3 DEF Awaited, LeaseOf
<1> QED
  BY <1>1, <1>2, <1>3

-----------------------------------------------------------------------------
(* Which step it is *)

LEMMA OthersCalm ==
  ASSUME Prompt, NEW b \in Command, Acts(b), NEW c \in Command, c # b, made[c] <= Records[role[c]]
  PROVE  Calm(c)
<1>1. SameFor(c) /\ Fades(c) /\ made[c] \in Nat
  BY OthersSame DEF Prompt, Inv, TypeOK
<1>2. Op(c)' = Op(c) /\ Beating(c)' = Beating(c)
  BY <1>1, FiberTyped DEF SameFor, Op, Beating
<1>3. Known(c)
  BY <1>1 DEF SameFor, Fades, Known
<1>4. Goes(c)
  BY <1>1, <1>2, <1>3 DEF Goes, SameFor
<1>5. Written(c)' = Written(c) /\ Recording(c)' = Recording(c)
  BY <1>1, <1>2 DEF Written, Recording, SameFor
<1> QED
  BY <1>1, <1>2, <1>4, <1>5 DEF Calm

\* The calls of a running command.
LEMMA RunningCalls ==
  ASSUME Prompt, NEW c \in Command, Numbered(c), Running(c)
  PROVE  /\ Op(c).kind \in {"none", "record", "finish", "delete"}
         /\ Beating(c).kind \in {"none", "renew"}
         /\ Op(c).kind = "none" => Op(c).step = "idle"
         /\ Beating(c).kind = "none" => Beating(c).step = "idle"
<1>1. /\ <<c, "operation">> \in Fiber /\ <<c, "operation">>[1] = c
      /\ <<c, "heartbeat">> \in Fiber /\ <<c, "heartbeat">>[1] = c /\ <<c, "heartbeat">>[2] = "heartbeat"
  BY FiberTyped
<1>2. CallFits(<<c, "operation">>) /\ CallFits(<<c, "heartbeat">>) /\ Op(c).kind \in Kind
  BY <1>1, CallTyped DEF Prompt, Mine, Inv, TypeOK, Op
<1>3. Op(c).kind # "renew"
  BY DEF Numbered, Running
<1> QED
  BY <1>1, <1>2, <1>3 DEF CallFits, Running, Op, Beating, Kind

LEMMA WorkIsCalm ==
  ASSUME Prompt, NEW c \in Command, made[c] <= Records[role[c]],
         NEW k \in {"record", "finish", "delete"}, Work(c, k)
  PROVE  Calm(c)
<1> DEFINE f == <<c, "operation">>
<1>0. /\ f \in Fiber /\ <<c, "heartbeat">> \in Fiber /\ f # <<c, "heartbeat">>
      /\ call \in [Fiber -> Call] /\ made \in [Command -> Nat] /\ Records[role[c]] \in Nat
  BY FiberTyped, LeaseConstants DEF Prompt, Inv, TypeOK
<1>1. /\ call'[f].kind = k /\ call'[f].step = "read" /\ call[f] = Idle
      /\ \A g \in Fiber : g # f => call'[g] = call[g]
      /\ UNCHANGED <<kv, replaced, clock, stage, due, role>>
  BY <1>0 DEF Work, Open
<1>2. /\ made'[c] = IF k = "record" THEN made[c] + 1 ELSE made[c]
      /\ k = "record" => made[c] < Records[role[c]]
  BY <1>0 DEF Work
<1>3. /\ Op(c)'.kind = k /\ Op(c)'.step = "read" /\ Op(c).kind = "none"
      /\ Beating(c)' = Beating(c)
  BY <1>0, <1>1 DEF Op, Beating, Idle
<1>4. Written(c)' = Written(c) /\ ~Recording(c)'
  BY <1>0, <1>2, <1>3 DEF Written, Recording
<1>5. Known(c)
  <2>1. Served' = Served
    BY <1>1 DEF Served
  <2> QED
    BY <1>1, <2>1 DEF Known
<1>6. made[c] <= made'[c] /\ made'[c] <= Records[role[c]]
  BY <1>0, <1>2
<1> QED
  BY <1>1, <1>3, <1>4, <1>5, <1>6 DEF Calm, Goes, Fades, Served

LEMMA DropIsCalm ==
  ASSUME Prompt, NEW c \in Command, Running(c), made[c] <= Records[role[c]], NEW f \in Fiber, f[1] = c, Drops(f)
  PROVE  Calm(c)
<1>0. /\ <<c, "operation">> \in Fiber /\ <<c, "heartbeat">> \in Fiber
      /\ <<c, "heartbeat">>[2] = "heartbeat"
      /\ call \in [Fiber -> Call] /\ made[c] \in Nat /\ CallFits(f)
  BY FiberTyped DEF Prompt, Inv, TypeOK, Mine
<1>1. call[f].kind \in {"record", "finish", "delete"} /\ stage' = stage
  BY <1>0 DEF Drops, Running, CallFits
<1>2. f = <<c, "operation">>
  BY <1>0, <1>1, TwoFibers DEF CallFits
<1>3. /\ call' = [call EXCEPT ![f] = Idle] /\ UNCHANGED <<clock, due, made, role>>
      /\ (kv' = kv /\ replaced' = replaced) \/ Write(NoReceipt)
  BY DEF Drops
<1>4. call'[f] = Idle /\ \A g \in Fiber : g # f => call'[g] = call[g]
  BY <1>0, <1>3
<1>5. Op(c)' = Idle /\ Beating(c)' = Beating(c)
  BY <1>0, <1>2, <1>4 DEF Op, Beating
<1>6. Written(c)' = Written(c) \/ Written(c)' = Written(c) + 1
  <2>1. Written(c)' = made[c] - 0
    BY <1>3, <1>5 DEF Written, Idle
  <2>2. CASE Op(c).kind = "record" /\ Op(c).step = "read"
    <3>1. Written(c) = made[c] - 1
      BY <2>2 DEF Written
    <3> QED
      BY <1>0, <2>1, <3>1
  <2>3. CASE ~(Op(c).kind = "record" /\ Op(c).step = "read")
    <3>1. Written(c) = made[c] - 0
      BY <2>3 DEF Written
    <3> QED
      BY <2>1, <3>1
  <2> QED
    BY <2>2, <2>3
<1>7. Known(c) /\ ~Recording(c)'
  <2>1. \A v \in Served' : LeaseOf(v, c) => v \in Served
    BY <1>3 DEF Served, Write, LeaseOf
  <2>2. call'[f].step # "write" /\ ~Recording(c)'
    BY <1>4, <1>5 DEF Idle, Recording
  <2> QED
    BY <1>4, <2>1, <2>2 DEF Known
<1>8. Goes(c)
  <2>1. made[c] <= made[c]
    BY <1>0
  <2> QED
    BY <1>1, <1>3, <1>5, <1>7, <2>1 DEF Goes
<1>9. Fades(c)
  BY <1>3 DEF Fades, Served, Write, LeaseOf
<1> QED
  BY <1>6, <1>7, <1>8, <1>9 DEF Calm

LEMMA WriteIsKnown ==
  ASSUME Prompt, NEW c \in Command, NEW f \in Fiber, f[1] = c, NEW v \in Served, NEW r, Writes(f, v, r),
         call[f].kind \in {"renew", "record", "delete", "finish"}
  PROVE  /\ call'[f].next = r /\ call'[f].step = "write" /\ call'[f].kind = call[f].kind
         /\ call'[f].began = clock /\ call'[f].now = call[f].now /\ call'[f].from = call[f].from
         /\ \A g \in Fiber : g # f => call'[g] = call[g]
         /\ UNCHANGED <<kv, replaced, clock, stage, due, made, role>>
         /\ Fades(c)
         /\ call[f].kind # "renew" => Known(c)
<1>1. /\ call'[f].next = r /\ call'[f].step = "write" /\ call'[f].kind = call[f].kind
      /\ call'[f].began = clock /\ call'[f].now = call[f].now /\ call'[f].from = call[f].from
      /\ \A g \in Fiber : g # f => call'[g] = call[g]
  BY DEF Writes, Proceed, Prompt, Inv, TypeOK
<1>2. UNCHANGED <<kv, replaced, clock, stage, due, made, role>>
  BY DEF Writes
<1>3. Fades(c) /\ Served' = Served
  BY <1>2 DEF Fades, Served
<1>4. ASSUME call[f].kind # "renew" PROVE Known(c)
  <2>1. ~LeaseOf(r, c) \/ (LeaseOf(v, c) /\ r.lease = v.lease)
    BY <1>4 DEF Writes, LeaseOf
  <2> QED
    BY <1>1, <1>3, <2>1 DEF Known
<1> QED
  BY <1>1, <1>2, <1>3, <1>4

LEMMA WriteIsCalm ==
  ASSUME Prompt, NEW c \in Command, Numbered(c), Running(c), made[c] <= Records[role[c]],
         NEW v \in Served, NEW r, Writes(<<c, "operation">>, v, r)
  PROVE  Calm(c) \/ Copies(c, v)
<1> DEFINE f == <<c, "operation">>
<1>0. /\ f \in Fiber /\ f[1] = c /\ <<c, "heartbeat">> \in Fiber /\ f # <<c, "heartbeat">>
      /\ made[c] \in Nat /\ made[c] <= made[c]
  BY FiberTyped DEF Prompt, Inv, TypeOK
<1>1. call[f].kind \in {"record", "finish", "delete"} /\ call[f].step = "read"
  BY RunningCalls DEF Writes, Op
<1>2. /\ call'[f].next = r /\ call'[f].step = "write" /\ call'[f].kind = call[f].kind
      /\ \A g \in Fiber : g # f => call'[g] = call[g]
      /\ UNCHANGED <<kv, replaced, clock, stage, due, made, role>>
      /\ Fades(c) /\ Known(c)
  BY <1>0, <1>1, WriteIsKnown
<1>3. Op(c)'.kind = Op(c).kind /\ Op(c)'.step = "write" /\ Op(c)'.next = r /\ Beating(c)' = Beating(c)
      /\ Op(c).step = "read" /\ Op(c).kind = call[f].kind
  BY <1>0, <1>1, <1>2 DEF Op, Beating
<1>4. Goes(c)
  BY <1>0, <1>2, <1>3 DEF Goes
<1>5. CASE call[f].kind = "record"
  <2>1. Written(c)' = made[c] - 0 /\ Written(c) = made[c] - 1
    BY <1>2, <1>3, <1>5 DEF Written
  <2>2. Written(c)' = Written(c) + 1
    BY <1>0, <2>1
  <2>3. r.lease = v.lease /\ LeaseOf(v, c) /\ v.lease = Op(c).from.lease
    BY <1>0, <1>5 DEF Writes, Op
  <2>4. LeaseOf(Op(c).from, c)
    BY <1>0, <1>5 DEF Prompt, Inv, AllMine, CallIsMine, Op
  <2> QED
    BY <1>2, <1>3, <1>4, <2>2, <2>3, <2>4 DEF Copies
<1>6. CASE call[f].kind # "record"
  <2>1. Written(c)' = Written(c) /\ ~Recording(c)'
    BY <1>2, <1>3, <1>6 DEF Written, Recording
  <2> QED
    BY <1>2, <1>4, <2>1 DEF Calm
<1> QED
  BY <1>5, <1>6

LEMMA PutIsKnown ==
  ASSUME Prompt, NEW c \in Command, NEW f \in Fiber, f[1] = c, Put(f)
  PROVE  /\ call[f].step = "write" /\ call'[f].step = "confirm" /\ call'[f].kind = call[f].kind
         /\ call'[f].next = call[f].next
         /\ call'[f].began = clock /\ call'[f].now = call[f].now
         /\ \A g \in Fiber : g # f => call'[g] = call[g]
         /\ UNCHANGED <<clock, stage, due, made, role>>
         /\ kv' = call[f].next /\ replaced' # {}
         /\ \A v \in Served' : v = kv' \/ v \in Served
         /\ Known(c)
<1>1. /\ call[f].step = "write" /\ call'[f].step = "confirm" /\ call'[f].kind = call[f].kind
      /\ call'[f].next = call[f].next
      /\ call'[f].began = clock /\ call'[f].now = call[f].now
      /\ \A g \in Fiber : g # f => call'[g] = call[g]
  BY DEF Put, Proceed, Prompt, Inv, TypeOK
<1>2. UNCHANGED <<clock, stage, due, made, role>> /\ Write(call[f].next)
  BY DEF Put
<1>3. /\ kv' = call[f].next /\ replaced' # {}
      /\ \A v \in Served' : v = kv' \/ v \in Served
  <2>1. kv' = call[f].next /\ replaced' = replaced \cup {[value |-> kv, until |-> clock + staleness]}
    BY <1>2 DEF Write
  <2>2. [value |-> kv, until |-> clock + staleness] \in replaced'
    BY <2>1
  <2>3. \A v \in Served' : v = kv' \/ v \in Served
    BY <2>1 DEF Served
  <2> QED
    BY <2>1, <2>2, <2>3
<1>4. Known(c)
  BY <1>1, <1>3 DEF Known
<1> QED
  BY <1>1, <1>2, <1>3, <1>4

LEMMA PutIsCalm ==
  ASSUME Prompt, NEW c \in Command, Numbered(c), Running(c), made[c] <= Records[role[c]],
         Put(<<c, "operation">>)
  PROVE  Calm(c) \/ Stores(c)
<1> DEFINE f == <<c, "operation">>
<1>0. /\ f \in Fiber /\ f[1] = c /\ <<c, "heartbeat">> \in Fiber /\ f # <<c, "heartbeat">>
      /\ made[c] \in Nat /\ made[c] <= made[c]
  BY FiberTyped DEF Prompt, Inv, TypeOK
<1>1. /\ call[f].step = "write" /\ call'[f].step = "confirm" /\ call'[f].kind = call[f].kind
      /\ \A g \in Fiber : g # f => call'[g] = call[g]
      /\ UNCHANGED <<clock, stage, due, made, role>>
      /\ kv' = call[f].next /\ replaced' # {} /\ \A v \in Served' : v = kv' \/ v \in Served
      /\ Known(c)
  BY <1>0, PutIsKnown
<1>2. call[f].kind \in {"record", "finish"}
  <2>1. call[f].kind # "delete"
    BY DEF Put
  <2> QED
    BY <1>1, <2>1, RunningCalls DEF Op
<1>3. Op(c)'.kind = Op(c).kind /\ Op(c)'.step = "confirm" /\ Op(c).step = "write"
      /\ Op(c).kind = call[f].kind /\ Op(c).next = call[f].next /\ Beating(c)' = Beating(c)
  BY <1>0, <1>1 DEF Op, Beating
<1>4. Goes(c)
  BY <1>0, <1>1, <1>3 DEF Goes
<1>5. Written(c)' = Written(c) /\ ~Recording(c)'
  BY <1>1, <1>3 DEF Written, Recording
<1>6. CASE call[f].kind = "record"
  BY <1>1, <1>3, <1>4, <1>5, <1>6 DEF Stores, Recording
<1>7. CASE call[f].kind = "finish"
  <2>1. call[f].next.lease = NoLease
    BY <1>0, <1>1, <1>7 DEF Numbered, CallNumbered
  <2>2. Fades(c)
    BY <1>1, <2>1 DEF Fades, LeaseOf
  <2> QED
    BY <1>4, <1>5, <2>2 DEF Calm
<1> QED
  BY <1>2, <1>6, <1>7

LEMMA ConfirmIsCalm ==
  ASSUME Prompt, NEW c \in Command, Numbered(c), Running(c), made[c] <= Records[role[c]],
         NEW v \in Served, Confirms(<<c, "operation">>, v)
  PROVE  Calm(c)
<1> DEFINE f == <<c, "operation">>
<1>0. /\ f \in Fiber /\ f[1] = c /\ <<c, "heartbeat">> \in Fiber /\ f # <<c, "heartbeat">>
      /\ made[c] \in Nat /\ made[c] <= made[c]
      /\ call \in [Fiber -> Call] /\ stage \in [Command -> Stage] /\ due \in [Command -> Nat]
  BY FiberTyped DEF Prompt, Inv, TypeOK
<1>1. call[f].kind = "record" /\ call[f].step = "confirm"
  BY RunningCalls DEF Confirms, Op
<1>2. UNCHANGED <<kv, replaced, clock, made, role>> /\ call' = [call EXCEPT ![f] = Idle]
  BY DEF Confirms
<1>3. stage'[c] = stage[c] /\ due'[c] = due[c]
  BY <1>0, <1>1 DEF Confirms, Running
<1>4. call'[f] = Idle /\ \A g \in Fiber : g # f => call'[g] = call[g]
  BY <1>0, <1>2
<1>5. Op(c)' = Idle /\ Beating(c)' = Beating(c) /\ Op(c).step = "confirm"
  BY <1>0, <1>1, <1>4 DEF Op, Beating
<1>6. Written(c)' = Written(c) /\ ~Recording(c)'
  BY <1>2, <1>5 DEF Written, Recording, Idle
<1>7. Fades(c) /\ Known(c)
  <2>1. Served' = Served
    BY <1>2 DEF Served
  <2>2. call'[f].step # "write"
    BY <1>4 DEF Idle
  <2> QED
    BY <1>2, <1>4, <2>1, <2>2 DEF Known, Fades
<1>8. Goes(c)
  BY <1>0, <1>2, <1>3, <1>5, <1>7 DEF Goes
<1> QED
  BY <1>6, <1>7, <1>8 DEF Calm

-----------------------------------------------------------------------------
(* The renewal goes on *)

\* It begins, or has read and is about to write.
LEMMA TimelyOn ==
  ASSUME NEW c \in Command, Timely(c), UNCHANGED <<kv, replaced, clock, due, made>>, Op(c)' = Op(c),
         Beating(c).step \in {"idle", "read"}, Beating(c)'.step \in {"read", "write"},
         Beating(c)'.step = "write" => Beating(c)'.began = clock
  PROVE  Timely(c)'
<1>1. Written(c)' = Written(c) /\ Recording(c)' = Recording(c)
  BY DEF Written, Recording
<1>2. Spare(c)' = Spare(c)
  BY <1>1 DEF Spare
<1>3. /\ Until(due[c], Spare(c))' = Until(due[c], Spare(c))
      /\ Until(due[c], Spare(c) - 1)' = Until(due[c], Spare(c) - 1)
  BY <1>2 DEF Until, Beats
<1>4. /\ AtLeast(c, Until(due[c], Spare(c)))'
      /\ replaced' # {} \/ Beating(c)'.step = "confirm" => Newest(c, Until(due[c], Spare(c) - 1))'
      /\ Promised(c, Until(due[c], Spare(c) - 1))'
  BY <1>1, <1>3 DEF Timely, AtLeast, Newest, Promised, Served, LeaseOf
<1> QED
  BY <1>1, <1>2, <1>4 DEF Timely, LeaseOf

LEMMA BeatRuns ==
  ASSUME Prompt, NEW c \in Command, RunningWell(c), Beat(c)
  PROVE  RunningWell(c)'
<1> DEFINE f == <<c, "heartbeat">>
<1>0. /\ f \in Fiber /\ <<c, "operation">> \in Fiber /\ f # <<c, "operation">>
      /\ call \in [Fiber -> Call]
  BY FiberTyped DEF Prompt, Inv, TypeOK
<1>1. /\ stage[c] = "running" /\ call[f] = Idle /\ clock >= due[c]
      /\ call'[f].step = "read" /\ call'[f].now = clock /\ call'[f].began = clock
      /\ \A g \in Fiber : g # f => call'[g] = call[g]
      /\ UNCHANGED <<kv, replaced, clock, stage, due, made, role>>
  BY <1>0 DEF Beat, Open
<1>2. /\ Beating(c).step = "idle" /\ Beating(c)'.step = "read" /\ Op(c)' = Op(c)
      /\ Beating(c)'.now = clock /\ Beating(c)'.began = clock
  BY <1>0, <1>1 DEF Beating, Op, Idle
<1>3. clock \in Nat /\ due[c] \in Nat
  BY DEF Prompt, Inv, TypeOK
<1>4. Timely(c)
  BY <1>1, <1>2, <1>3 DEF RunningWell, Early, Doomed, Awaited
<1>5. Timely(c)'
  BY <1>1, <1>2, <1>4, TimelyOn
<1>6. clock = due[c]
  BY <1>2, <1>4 DEF Timely
<1>7. Written(c)' = Written(c)
  BY <1>1, <1>2 DEF Written
<1> QED
  BY <1>1, <1>2, <1>5, <1>6, <1>7 DEF RunningWell

\* The renewal finds the lease.
LEMMA RenewalWrites ==
  ASSUME Prompt, NEW c \in Command, Running(c), RunningWell(c), NEW v \in Served, NEW r,
         Writes(<<c, "heartbeat">>, v, r), call[<<c, "heartbeat">>].kind = "renew"
  PROVE  RunningWell(c)'
<1> DEFINE f == <<c, "heartbeat">>
<1>0. /\ f \in Fiber /\ f[1] = c /\ <<c, "operation">> \in Fiber /\ f # <<c, "operation">>
  BY FiberTyped
<1>1. /\ call'[f].step = "write" /\ call'[f].began = clock /\ call'[f].now = call[f].now
      /\ \A g \in Fiber : g # f => call'[g] = call[g]
      /\ UNCHANGED <<kv, replaced, clock, stage, due, made, role>>
  BY <1>0, WriteIsKnown
<1>2. call[f].step = "read" /\ LeaseOf(v, c) /\ v.lease = call[f].from.lease
  BY <1>0 DEF Writes
<1>3. /\ Beating(c).step = "read" /\ Beating(c)'.step = "write" /\ Op(c)' = Op(c)
      /\ Beating(c)'.now = Beating(c).now /\ Beating(c)'.began = clock
      /\ v.lease = Beating(c).from.lease
  BY <1>0, <1>1, <1>2 DEF Beating, Op
<1>4. Timely(c)
  BY <1>2, <1>3 DEF RunningWell, Running, Early, Doomed, Awaited, Gone
<1>5. Timely(c)'
  BY <1>1, <1>3, <1>4, TimelyOn
<1>6. Written(c)' = Written(c)
  BY <1>1, <1>3 DEF Written
<1> QED
  BY <1>1, <1>3, <1>5, <1>6 DEF RunningWell, Running

LEMMA RenewalPuts ==
  ASSUME Prompt, NEW c \in Command, Numbered(c), Running(c), RunningWell(c), Put(<<c, "heartbeat">>)
  PROVE  RunningWell(c)'
<1> DEFINE f == <<c, "heartbeat">>
<1>0. /\ f \in Fiber /\ f[1] = c /\ <<c, "operation">> \in Fiber /\ f # <<c, "operation">>
      /\ Inv /\ TypeOK /\ Heartbeat \in Nat /\ Ttl \in Nat
  BY FiberTyped, PollTyped, TimesTyped DEF Prompt, Inv
<1>1. /\ call[f].step = "write" /\ call'[f].step = "confirm" /\ call'[f].began = clock
      /\ call'[f].now = call[f].now
      /\ \A g \in Fiber : g # f => call'[g] = call[g]
      /\ UNCHANGED <<clock, stage, due, made, role>>
      /\ kv' = call[f].next /\ \A v \in Served' : v = kv' \/ v \in Served
  BY <1>0, PutIsKnown
<1>2. /\ Beating(c).step = "write" /\ Beating(c)'.step = "confirm" /\ Op(c)' = Op(c)
      /\ Beating(c)'.now = Beating(c).now /\ Beating(c)'.began = clock /\ kv' = Beating(c).next
  BY <1>0, <1>1 DEF Beating, Op
<1>3. Timely(c)
  BY <1>2 DEF RunningWell, Running, Early, Doomed, Awaited
<1>4. /\ Written(c)' = Written(c) /\ Recording(c)' = Recording(c)
  BY <1>1, <1>2 DEF Written, Recording
<1>5. Spare(c)' = Spare(c)
  BY <1>1, <1>4 DEF Spare
<1>6. PICK D \in Nat, k \in Int, p \in Int, q \in Int :
         D = due[c] /\ k = Spare(c) /\ p = Until(D, k) /\ q = Until(D, k - 1)
  <2>1. due[c] \in Int /\ Spare(c) \in Int /\ Spare(c) - 1 \in Int
    BY <1>0, PhaseTyped
  <2> QED
    BY <1>0, <2>1, UntilTyped, PhaseTyped
<1>7. k >= 0 /\ p <= D + Ttl /\ q <= D + Ttl
  <2>1. k >= 0
    BY <1>3, <1>6 DEF Timely
  <2>2. Until(D, k - 1) <= Until(D, 0 - 1) /\ Until(D, k) <= Until(D, 0 - 1)
    <3>1. 0 - 1 <= k - 1 /\ 0 - 1 <= k /\ D <= D /\ 0 - 1 \in Int /\ k - 1 \in Int /\ D \in Int
      BY <2>1
    <3> QED
      BY <3>1, UntilMoves
  <2>3. Until(D, 0 - 1) <= D + Ttl /\ Until(D, 0 - 1) \in Int
    BY <1>0 DEF Until, Beats
  <2> QED
    BY <1>0, <1>6, <2>1, <2>2, <2>3
<1>8. kv'.lease.until = D + Ttl
  <2>1. CallFits(f) /\ CallNumbered(f)
    BY <1>0 DEF Prompt, Mine, Numbered
  <2>2. call[f].kind = "renew"
    BY <1>0, <1>1, <2>1, RunningCalls DEF Beating
  <2>3. call[f].next.lease = NewLease(f)
    BY <1>1, <2>1, <2>2 DEF CallNumbered, Leasing
  <2>4. call[f].now = D
    BY <1>2, <1>6 DEF RunningWell, Running, Beating
  <2> QED
    BY <1>1, <2>3, <2>4 DEF NewLease
<1>9. AtLeast(c, p) /\ Promised(c, q) /\ (Recording(c) => k >= 1) /\ clock >= D
  BY <1>3, <1>6 DEF Timely
<1>10. AtLeast(c, p)' /\ Newest(c, q)' /\ Promised(c, q)'
  <2>1. \A w \in Served' : LeaseOf(w, c) => w.lease.until >= p
    <3>1. kv'.lease.until >= p
      BY <1>6, <1>7, <1>8
    <3> QED
      BY <1>1, <1>9, <3>1 DEF AtLeast
  <2>2. kv'.lease.until >= q
    BY <1>6, <1>7, <1>8
  <2> QED
    BY <1>2, <1>4, <1>9, <2>1, <2>2 DEF AtLeast, Newest, Promised, LeaseOf
<1>11. Until(due[c], Spare(c))' = p /\ Until(due[c], Spare(c) - 1)' = q
  BY <1>1, <1>5, <1>6 DEF Until, Beats
<1>12. Timely(c)'
  BY <1>1, <1>2, <1>4, <1>5, <1>6, <1>7, <1>9, <1>10, <1>11 DEF Timely, AtLeast, Newest, Promised, LeaseOf
<1> QED
  BY <1>1, <1>2, <1>4, <1>12 DEF RunningWell, Running

\* The renewal is confirmed: the leases last till the next one and its polls.
LEMMA TimelyLasts ==
  ASSUME Heartbeat > 0, Inv, NEW c \in Command, Timely(c), Beating(c).step = "confirm"
  PROVE  /\ AtLeast(c, Until(clock, Written(c)))
         /\ Newest(c, Until(clock + Heartbeat, Written(c)))
         /\ Promised(c, Until(clock + Heartbeat, Written(c)))
<1>0. Heartbeat \in Nat /\ TypeOK
  BY PollTyped DEF Inv
<1>1. PICK T \in Nat, D \in Nat, w \in Int : T = clock /\ D = due[c] /\ w = Written(c)
  BY <1>0, PhaseTyped
<1>2. PICK x \in Nat : x = T - D /\ T = D + x
  <2>1. T >= D
    BY <1>1 DEF Timely
  <2>2. T - D \in Nat /\ T = D + (T - D)
    BY <2>1
  <2> QED
    BY <2>2
<1>3. PICK k \in Int : k = w - x /\ k - 1 \in Int
  BY <1>2
<1>4. Spare(c) = k
  BY <1>1, <1>2, <1>3 DEF Spare
<1>5. AtLeast(c, Until(D, k)) /\ Newest(c, Until(D, k - 1)) /\ Promised(c, Until(D, k - 1))
  BY <1>1, <1>4 DEF Timely
<1>6. Until(T, w) <= Until(D, k) /\ Until(T + Heartbeat, w) <= Until(D, k - 1)
  <2>0. /\ Until(T, w) \in Int /\ Until(D, k) \in Int /\ Until(D, k - 1) \in Int
        /\ T \in Int /\ D \in Int
    <3>1. T \in Int /\ D \in Int /\ w \in Int /\ k \in Int /\ k - 1 \in Int
      BY <1>3
    <3> QED
      BY <3>1, UntilTyped
  <2>1. Until(T, w) <= Until(D, k)
    <3>1. Until(D + x, w) <= Until(D, w - x)
      BY <2>0, UntilBehind
    <3> QED
      BY <1>2, <1>3, <3>1
  <2>2. Until(T + Heartbeat, w) = Until(T, w) + Heartbeat
    BY <1>0, <2>0, UntilMoves
  <2>3. Until(D, k) = Until(D, k - 1) - Heartbeat
    <3>1. Until(D, (k - 1) + 1) = Until(D, k - 1) - Heartbeat
      BY <1>3, <2>0, UntilMoves
    <3>2. (k - 1) + 1 = k
      BY <1>3
    <3> QED
      BY <3>1, <3>2
  <2> QED
    BY <1>0, <2>0, <2>1, <2>2, <2>3
<1>7. PICK p \in Int, q \in Int, r \in Int, s \in Int :
         p = Until(D, k) /\ q = Until(D, k - 1) /\ r = Until(T, w) /\ s = Until(T + Heartbeat, w)
  <2>1. T \in Int /\ D \in Int /\ T + Heartbeat \in Int
    BY <1>0
  <2> QED
    BY <1>3, <2>1, UntilTyped
<1>8. AtLeast(c, r) /\ Newest(c, s) /\ Promised(c, s)
  <2>0. r <= p /\ s <= q
    BY <1>6, <1>7
  <2>1. \A v \in Served : LeaseOf(v, c) => v.lease.until \in Nat
    BY <1>0, PhaseTyped
  <2>2. AtLeast(c, r)
    BY <1>5, <1>7, <2>0, <2>1 DEF AtLeast
  <2>3. Newest(c, s)
    <3>1. LeaseOf(kv, c) => kv.lease.until \in Nat
      BY <1>0, PhaseTyped
    <3> QED
      BY <1>5, <1>7, <2>0, <3>1 DEF Newest
  <2>4. Promised(c, s)
    BY <1>5, <1>7, <2>0, RecordingIsMine DEF Promised
  <2> QED
    BY <2>2, <2>3, <2>4
<1> QED
  BY <1>1, <1>7, <1>8

LEMMA AwaitedLasts ==
  ASSUME Heartbeat > 0, TypeOK, NEW c \in Command, Awaited(c), Written(c) >= 0,
         Beating(c).next.lease.until = due[c] + Ttl
  PROVE  /\ AtLeast(c, Until(clock, Written(c)))
         /\ Newest(c, Until(clock + Heartbeat, Written(c)))
         /\ Promised(c, Until(clock + Heartbeat, Written(c)))
<1>0. Heartbeat \in Nat /\ Ttl \in Nat
  BY PollTyped, TimesTyped
<1>1. PICK T \in Nat, D \in Nat, w \in Nat : T = clock /\ D = due[c] /\ w = Written(c)
  <2>1. Written(c) \in Nat
    BY PhaseTyped
  <2> QED
    BY <2>1, PhaseTyped
<1>2. T - 1 - D <= w
  <2>1. PICK B \in Nat : B = Beating(c).began
    BY PhaseTyped
  <2>2. T = B + 1 /\ B - D <= w
    BY <1>1, <2>1 DEF Awaited
  <2> QED
    BY <2>2
<1>3. w <= Beats(w) /\ Beats(w) \in Int
  <2>1. Beats(w - w) + w <= Beats(w)
    BY BeatsBehind
  <2>2. w - w = 0 /\ Beats(0) = 0
    BY <1>0 DEF Beats
  <2>3. Beats(w) \in Int
    BY BeatsTyped
  <2> QED
    BY <2>1, <2>2, <2>3
<1>4. PICK r \in Int, s \in Int :
         r = Until(T, w) /\ s = Until(T + Heartbeat, w) /\ r <= D + Ttl /\ s <= D + Ttl
  <2>1. Until(T, w) = T + (Ttl - Heartbeat - 2) - Beats(w)
    BY DEF Until
  <2>2. Until(T + Heartbeat, w) = (T + Heartbeat) + (Ttl - Heartbeat - 2) - Beats(w)
    BY DEF Until
  <2>3. /\ T + (Ttl - Heartbeat - 2) - Beats(w) \in Int
        /\ (T + Heartbeat) + (Ttl - Heartbeat - 2) - Beats(w) \in Int
        /\ T + (Ttl - Heartbeat - 2) - Beats(w) <= D + Ttl
        /\ (T + Heartbeat) + (Ttl - Heartbeat - 2) - Beats(w) <= D + Ttl
    BY <1>0, <1>2, <1>3
  <2> QED
    BY <2>1, <2>2, <2>3
<1>5. \A v \in Served : LeaseOf(v, c) => v.lease.until = D + Ttl
  BY <1>1 DEF Awaited, OnlyLease
<1>6. AtLeast(c, r) /\ Newest(c, s)
  BY <1>4, <1>5 DEF AtLeast, Newest, Served
<1>7. Promised(c, s)
  BY DEF Awaited, Promised
<1> QED
  BY <1>1, <1>4, <1>6, <1>7

LEMMA RenewalConfirms ==
  ASSUME Heartbeat > 0, Prompt, NEW c \in Command, Numbered(c), Running(c), RunningWell(c),
         NEW v \in Served, Confirms(<<c, "heartbeat">>, v), call[<<c, "heartbeat">>].kind = "renew"
  PROVE  RunningWell(c)'
<1> DEFINE f == <<c, "heartbeat">>
<1>0. /\ f \in Fiber /\ f[1] = c /\ <<c, "operation">> \in Fiber /\ f # <<c, "operation">>
      /\ Inv /\ TypeOK /\ Heartbeat \in Nat
      /\ call \in [Fiber -> Call] /\ stage \in [Command -> Stage] /\ due \in [Command -> Nat]
      /\ clock \in Nat
  BY FiberTyped, PollTyped DEF Prompt, Inv, TypeOK
<1>1. /\ call[f].step = "confirm" /\ v # NoReceipt /\ v.lease = call[f].next.lease
      /\ call'[f] = Idle /\ \A g \in Fiber : g # f => call'[g] = call[g]
      /\ stage'[c] = "running" /\ due'[c] = clock + Heartbeat
      /\ UNCHANGED <<kv, replaced, clock, made, role>>
  BY <1>0 DEF Confirms, NextBeat
<1>2. /\ Beating(c).step = "confirm" /\ Beating(c)' = Idle /\ Op(c)' = Op(c)
      /\ v.lease = Beating(c).next.lease
  BY <1>0, <1>1 DEF Beating, Op
<1>3. LeaseOf(v, c)
  <2>1. LeaseOf(call[f].next, c)
    BY <1>0, <1>1 DEF Prompt, Inv, AllMine, CallIsMine
  <2> QED
    BY <1>1, <2>1 DEF LeaseOf
<1>4. Timely(c) \/ Awaited(c)
  BY <1>2, <1>3 DEF RunningWell, Running, Early, Doomed, Gone
<1>5. Beating(c).next.lease.until = due[c] + Ttl
  <2>1. call[f].next.lease = NewLease(f)
    BY <1>0, <1>1 DEF Numbered, CallNumbered, Leasing
  <2>2. call[f].now = due[c]
    BY <1>2 DEF RunningWell, Running, Beating
  <2> QED
    BY <2>1, <2>2 DEF NewLease, Beating
<1>6. /\ AtLeast(c, Until(clock, Written(c)))
      /\ Newest(c, Until(clock + Heartbeat, Written(c)))
      /\ Promised(c, Until(clock + Heartbeat, Written(c)))
  <2>1. Written(c) >= 0
    BY DEF RunningWell, Running
  <2> QED
    BY <1>0, <1>2, <1>4, <1>5, <2>1, TimelyLasts, AwaitedLasts
<1>7. Written(c)' = Written(c) /\ Recording(c)' = Recording(c)
  BY <1>1, <1>2 DEF Written, Recording
<1>8. Until(clock, Written(c))' = Until(clock, Written(c))
      /\ Until(due[c], Written(c))' = Until(clock + Heartbeat, Written(c))
  BY <1>1, <1>7 DEF Until, Beats
<1>9. clock < clock + Heartbeat
  BY <1>0
<1>10. Early(c)'
  BY <1>1, <1>2, <1>6, <1>7, <1>8, <1>9 DEF Early, AtLeast, Newest, Promised, Served, LeaseOf, Idle
<1> QED
  BY <1>1, <1>2, <1>7, <1>10 DEF RunningWell, Running, Idle

-----------------------------------------------------------------------------
(* A running command goes on *)

LEMMA RunningGoes ==
  ASSUME Prompt, TypeOK', NEW c \in Command, Numbered(c), Running(c), RunningWell(c), NEW v \in Served,
         Calm(c) \/ Copies(c, v) \/ Stores(c)
  PROVE  RunningWell(c)'
<1>1. Early(c)' \/ Timely(c)' \/ Doomed(c)' \/ Awaited(c)'
  BY EarlyGoes, TimelyGoes, DoomedGoes, AwaitedGoes DEF RunningWell, Running
<1>2. /\ Beating(c)' = Beating(c) /\ due'[c] = due[c] /\ role' = role
      /\ made'[c] <= Records[role[c]]
      /\ Written(c)' = Written(c) \/ Written(c)' = Written(c) + 1
  BY DEF Calm, Copies, Stores, Goes
<1>3. Written(c)' >= 0
  <2>1. Written(c) >= 0 /\ Written(c) \in Int
    BY PhaseTyped DEF RunningWell, Running, Prompt, Inv
  <2> QED
    BY <1>2, <2>1
<1> QED
  BY <1>1, <1>2, <1>3 DEF RunningWell, Running

LEMMA RunningActs ==
  ASSUME Heartbeat > 0, Prompt, TypeOK', NEW c \in Command, Numbered(c), Running(c), RunningWell(c),
         NEW b \in Command, Acts(b)
  PROVE  RunningWell(c)'
<1>0. /\ kv \in Served /\ stage[c] = "running" /\ made[c] <= Records[role[c]]
      /\ stage \in [Command -> Stage]
  BY DEF Served, RunningWell, Running, Prompt, Inv, TypeOK
<1>1. CASE b # c
  BY <1>0, <1>1, OthersCalm, RunningGoes
<1>2. CASE b = c
  <2>1. CASE \E k \in {"create", "acquire", "release"} : Begin(c, k)
    BY <1>0, <2>1 DEF Begin
  <2>2. CASE Fence(c)
    BY <1>0, <2>2 DEF Fence
  <2>3. CASE Beat(c)
    BY <2>3, BeatRuns
  <2>4. CASE \E k \in {"record", "finish", "delete"} : Work(c, k)
    BY <1>0, <2>4, WorkIsCalm, RunningGoes
  <2>5. CASE Stops(c)
    <3>1. stage'[c] \in {"ended", "settled", "released"}
      BY <1>0, <2>5 DEF Stops, Stop
    <3> QED
      BY <3>1 DEF RunningWell
  <2>6. ASSUME NEW f \in Fiber, f[1] = c, Drops(f) PROVE RunningWell(c)'
    BY <1>0, <2>6, DropIsCalm, RunningGoes
  <2>7. ASSUME Put(<<c, "operation">>) PROVE RunningWell(c)'
    BY <1>0, <2>7, PutIsCalm, RunningGoes
  <2>8. ASSUME NEW v \in Served, Confirms(<<c, "operation">>, v) PROVE RunningWell(c)'
    BY <1>0, <2>8, ConfirmIsCalm, RunningGoes
  <2>9. ASSUME NEW v \in Served, NEW r, Writes(<<c, "operation">>, v, r) PROVE RunningWell(c)'
    BY <1>0, <2>9, WriteIsCalm, RunningGoes
  <2>10. ASSUME Put(<<c, "heartbeat">>) PROVE RunningWell(c)'
    BY <2>10, RenewalPuts
  <2>11. ASSUME NEW v \in Served, Confirms(<<c, "heartbeat">>, v) PROVE RunningWell(c)'
    <3>1. call[<<c, "heartbeat">>].kind = "renew"
      BY <2>11, RunningCalls DEF Confirms, Beating
    <3> QED
      BY <2>11, <3>1, RenewalConfirms
  <2>12. ASSUME NEW v \in Served, NEW r, Writes(<<c, "heartbeat">>, v, r) PROVE RunningWell(c)'
    <3>1. call[<<c, "heartbeat">>].kind = "renew"
      BY <2>12, RunningCalls DEF Writes, Beating
    <3> QED
      BY <2>12, <3>1, RenewalWrites
  <2>13. ASSUME NEW f \in Fiber, f[1] = c, Steps(f) PROVE RunningWell(c)'
    <3>1. CASE f = <<c, "operation">>
      BY <2>6, <2>7, <2>8, <2>9, <2>13, <3>1 DEF Steps
    <3>2. CASE f = <<c, "heartbeat">>
      BY <2>6, <2>10, <2>11, <2>12, <2>13, <3>2 DEF Steps
    <3> QED
      BY <2>13, <3>1, <3>2, TwoFibers
  <2> QED
    BY <1>2, <2>1, <2>2, <2>3, <2>4, <2>5, <2>13, Forms
<1> QED
  BY <1>1, <1>2

-----------------------------------------------------------------------------
(* A tick for a running command *)

\* What a tick leaves: the stored receipt, which is as new as a call may ask for
\* when it has the lease the call knows.
LEMMA TickServes ==
  ASSUME Prompt, Tick, NEW c \in Command, Numbered(c)
  PROVE  /\ UNCHANGED <<kv, stamp, stage, held, call, due, made, role>> /\ clock' = clock + 1
         /\ replaced' = {} /\ Served' = {kv} /\ kv \in Served
         /\ \A f \in Fiber : MayWait(f) /\ call[f].step # "write"
         /\ Op(c)' = Op(c) /\ Beating(c)' = Beating(c)
         /\ \A f \in Fiber : f[1] = c /\ call[f].kind = "renew" /\ call[f].step = "read"
               /\ LeaseOf(kv, c) /\ kv.lease = call[f].from.lease => Fresh(kv, call[f].from.updatedAt)
         /\ \A f \in Fiber : f[1] = c /\ call[f].kind \in Leasing /\ call[f].step = "confirm"
               /\ LeaseOf(kv, c) /\ kv.lease = call[f].next.lease => Fresh(kv, call[f].next.updatedAt)
<1>1. /\ UNCHANGED <<kv, stamp, stage, held, call, due, made, role>> /\ clock' = clock + 1
      /\ \A f \in Fiber : MayWait(f) /\ call[f].step # "write"
  BY DEF Tick, MayWait
<1>2. replaced' = {}
  <2>1. \A r \in replaced : ~(r.until > clock)
    <3>1. \A r \in replaced : r.until \in Nat /\ r.until <= clock /\ clock \in Nat
      BY DEF Prompt, Inv, TypeOK
    <3> QED
      BY <3>1
  <2> QED
    BY <2>1 DEF Tick
<1>3. Served' = {kv} /\ kv \in Served
  BY <1>1, <1>2 DEF Served
<1>4. Op(c)' = Op(c) /\ Beating(c)' = Beating(c)
  BY <1>1 DEF Op, Beating
<1>5. ASSUME NEW f \in Fiber, f[1] = c, call[f].kind = "renew", LeaseOf(kv, c), kv.lease = call[f].from.lease
      PROVE  Fresh(kv, call[f].from.updatedAt)
  <2>1. LeaseOf(call[f].from, c)
    BY <1>5 DEF Prompt, Inv, AllMine, CallIsMine
  <2>2. call[f].from \in Values(c)
    BY <1>5, <2>1, TwoFibers DEF Values, Own, Op, Beating
  <2> QED
    BY <1>5, <2>2 DEF Numbered, Ordered, Fresh, LeaseOf
<1>6. ASSUME NEW f \in Fiber, f[1] = c, call[f].kind \in Leasing, call[f].step = "confirm",
             LeaseOf(kv, c), kv.lease = call[f].next.lease
      PROVE  Fresh(kv, call[f].next.updatedAt)
  <2>1. call[f].next.updatedAt = call[f].stamp /\ call[f].next.lease.stamp = call[f].stamp
    <3>1. CallNumbered(f)
      BY <1>6 DEF Numbered
    <3>2. call[f].next.updatedAt = call[f].stamp /\ call[f].next.lease = NewLease(f)
      BY <1>6, <3>1 DEF CallNumbered
    <3> QED
      BY <3>2 DEF NewLease
  <2>2. kv \in Values(c)
    BY <1>3, <1>6 DEF Values
  <2>3. kv.lease.stamp <= kv.updatedAt
    BY <2>2 DEF Numbered, Counted
  <2> QED
    BY <1>6, <2>1, <2>3 DEF Fresh, LeaseOf
<1> QED
  BY <1>1, <1>2, <1>3, <1>4, <1>5, <1>6

\* The renewal waits for what it polls for.
LEMMA BeatWaits ==
  ASSUME Prompt, Tick, NEW c \in Command, Numbered(c), Running(c)
  PROVE  /\ Beating(c).step \in {"idle", "read", "confirm"} /\ ~Recording(c)
         /\ Beating(c).step = "idle" => clock < due[c]
         /\ Beating(c).step = "read" =>
               /\ clock < Beating(c).began + PollLimit
               /\ \E v \in Served : ~Fresh(v, Beating(c).from.updatedAt)
         /\ Beating(c).step = "confirm" =>
               /\ clock < Beating(c).began + PollLimit
               /\ \E v \in Served : ~Fresh(v, Beating(c).next.updatedAt)
         /\ Beating(c).step = "read" => LeaseOf(Beating(c).from, c)
         /\ Beating(c).step = "confirm" => LeaseOf(Beating(c).next, c)
         /\ Beating(c).step = "read" /\ LeaseOf(kv, c) /\ kv.lease = Beating(c).from.lease =>
               \E v \in Served : v # kv
         /\ Beating(c).step = "confirm" /\ LeaseOf(kv, c) /\ kv.lease = Beating(c).next.lease =>
               \E v \in Served : v # kv
<1> DEFINE f == <<c, "heartbeat">>
<1>0. /\ f \in Fiber /\ f[1] = c /\ f[2] = "heartbeat" /\ <<c, "operation">> \in Fiber
      /\ call[f].step \in Step
  BY FiberTyped, CallTyped DEF Prompt, Inv, TypeOK
<1>1. /\ MayWait(f) /\ call[f].step # "write" /\ ~Recording(c)
      /\ call[f].kind = "renew" /\ call[f].step = "read" /\ LeaseOf(kv, c) /\ kv.lease = call[f].from.lease =>
            Fresh(kv, call[f].from.updatedAt)
      /\ call[f].kind = "renew" /\ call[f].step = "confirm" /\ LeaseOf(kv, c) /\ kv.lease = call[f].next.lease =>
            Fresh(kv, call[f].next.updatedAt)
  BY <1>0, TickServes DEF Leasing, Recording, Op
<1>2. call[f].step # "idle" => call[f].kind = "renew"
  BY RunningCalls DEF Beating
<1>3. /\ call[f].step = "idle" => clock < due[c]
      /\ call[f].step = "read" => /\ clock < call[f].began + PollLimit
                                  /\ \E v \in Served : ~Fresh(v, call[f].from.updatedAt)
      /\ call[f].step = "confirm" => /\ clock < call[f].began + PollLimit
                                     /\ \E v \in Served : ~Fresh(v, call[f].next.updatedAt)
  BY <1>0, <1>1, <1>2 DEF MayWait, Running
<1>4. /\ call[f].step = "read" => LeaseOf(call[f].from, c)
      /\ call[f].step = "confirm" => LeaseOf(call[f].next, c)
  BY <1>0, <1>2 DEF Prompt, Inv, AllMine, CallIsMine
<1>5. call[f].step \in {"idle", "read", "confirm"}
  BY <1>0, <1>1 DEF Step
<1> HIDE DEF f
<1>6. Beating(c) = call[f]
  BY DEF f, Beating
<1> QED
  BY <1>1, <1>2, <1>3, <1>4, <1>5, <1>6

LEMMA TickEarly ==
  ASSUME Prompt, Tick, NEW c \in Command, Numbered(c), Running(c), Early(c), Written(c) >= 0
  PROVE  Early(c)' \/ Timely(c)'
<1>0. /\ UNCHANGED <<kv, due, made>> /\ clock' = clock + 1 /\ replaced' = {} /\ Served' = {kv}
      /\ Op(c)' = Op(c) /\ Beating(c)' = Beating(c) /\ ~Recording(c) /\ TypeOK
  BY TickServes, BeatWaits DEF Prompt, Inv
<1>1. PICK T \in Nat, D \in Nat, w \in Int : T = clock /\ D = due[c] /\ w = Written(c)
  BY <1>0, PhaseTyped
<1>2. Written(c)' = w /\ ~Recording(c)' /\ T < D /\ w >= 0
  BY <1>0, <1>1 DEF Written, Recording, Early
<1>3. PICK p \in Int, q \in Int : p = Until(T + 1, w) /\ q = Until(D, w) /\ p <= q
  <2>1. T + 1 \in Int /\ D \in Int /\ T + 1 <= D /\ w <= w
    BY <1>2
  <2> QED
    BY <2>1, UntilMoves, UntilTyped
<1>4. LeaseOf(kv, c) => kv.lease.until \in Nat /\ kv.lease.until >= q
  BY <1>0, <1>1, <1>3, PhaseTyped DEF Early, Newest
<1>5. LeaseOf(kv, c) => kv.lease.until >= p
  BY <1>3, <1>4
<1>6. CASE T + 1 < D
  <2>1. Until(clock, Written(c))' = p /\ Until(due[c], Written(c))' = q
    BY <1>0, <1>1, <1>2, <1>3 DEF Until, Beats
  <2> QED
    BY <1>0, <1>1, <1>2, <1>4, <1>5, <1>6, <2>1 DEF Early, AtLeast, Newest, Promised, LeaseOf
<1>7. CASE T + 1 = D
  <2>1. Spare(c)' = w - (D - D)
    BY <1>0, <1>1, <1>2, <1>7 DEF Spare
  <2>2. Spare(c)' = w
    BY <2>1
  <2>3. Until(due[c], Spare(c))' = q
    BY <1>0, <1>1, <1>3, <2>2 DEF Until, Beats
  <2>4. Beating(c)'.step = "idle"
    BY <1>0 DEF Early
  <2>5. clock' = D /\ D >= D
    BY <1>0, <1>1, <1>7
  <2> QED
    BY <1>0, <1>1, <1>2, <1>4, <2>2, <2>3, <2>4, <2>5 DEF Timely, AtLeast, Newest, Promised, LeaseOf
<1> QED
  BY <1>2, <1>6, <1>7

LEMMA TickTimely ==
  ASSUME Heartbeat > 0, Prompt, Tick, NEW c \in Command, Numbered(c), Running(c), Timely(c),
         Beating(c).step = "read" => Beating(c).began = due[c]
  PROVE  Timely(c)' \/ Doomed(c)' \/ Awaited(c)'
<1>0. /\ UNCHANGED <<kv, due, made, call>> /\ clock' = clock + 1 /\ replaced' = {} /\ Served' = {kv}
      /\ Op(c)' = Op(c) /\ Beating(c)' = Beating(c) /\ ~Recording(c) /\ TypeOK
      /\ \A f \in Fiber : call[f].step # "write"
  BY TickServes, BeatWaits DEF Prompt, Inv
<1>1. PICK T \in Nat, D \in Nat, w \in Int, B \in Nat :
         T = clock /\ D = due[c] /\ w = Written(c) /\ B = Beating(c).began
  BY <1>0, PhaseTyped
<1>2. Written(c)' = w /\ ~Recording(c)' /\ T >= D
  BY <1>0, <1>1 DEF Written, Recording, Timely
<1>3. PICK k \in Int : k = w - (T - D) /\ k = Spare(c) /\ k >= 0 /\ k <= w
  BY <1>1, <1>2 DEF Spare, Timely
<1>4. Spare(c)' = w - ((T + 1) - D)
  BY <1>0, <1>1, <1>2 DEF Spare
<1>5. Spare(c)' = k - 1 /\ k - 1 \in Int /\ T + 1 >= D
  BY <1>2, <1>3, <1>4
<1>6. AtLeast(c, Until(D, k)) /\ (replaced # {} \/ Beating(c).step = "confirm" => Newest(c, Until(D, k - 1)))
  BY <1>1, <1>3 DEF Timely
<1>7. /\ LeaseOf(kv, c) => kv.lease.until \in Nat /\ kv.lease.until >= Until(D, k)
      /\ Until(D, k) \in Int /\ Until(D, w) \in Int /\ Until(B, w) \in Int
  <2>1. D \in Int /\ B \in Int
    OBVIOUS
  <2> QED
    BY <1>0, <1>6, <2>1, PhaseTyped, UntilTyped DEF AtLeast, Served
<1>8. Beating(c).step # "idle"
  <2>1. Beating(c).step = "idle" => T < D
    BY <1>1, BeatWaits
  <2> QED
    BY <1>2, <2>1
<1>9. CASE Beating(c).step = "read"
  <2>0. B = D /\ T + 1 <= B + PollLimit /\ PollLimit \in Nat
    <3>1. T < B + PollLimit
      BY <1>1, <1>9, BeatWaits
    <3> QED
      BY <1>1, <1>9, <3>1, PollTyped
  <2>1. CASE LeaseOf(kv, c) /\ kv.lease = Beating(c).from.lease
    <3>1. replaced # {}
      <4>1. \E v \in Served : v # kv
        BY <1>9, <2>1, BeatWaits
      <4> QED
        BY <4>1 DEF Served
    <3>2. k >= 1 /\ Newest(c, Until(D, k - 1))
      BY <1>3, <1>6, <1>9, <2>1, <3>1 DEF Timely
    <3>3. Until(due[c], Spare(c))' = Until(D, k - 1)
      BY <1>0, <1>1, <1>5 DEF Until, Beats
    <3>4. k - 1 >= 0
      BY <3>2
    <3> QED
      BY <1>0, <1>1, <1>2, <1>5, <1>9, <3>2, <3>3, <3>4 DEF Timely, AtLeast, Newest, Promised, LeaseOf
  <2>2. CASE ~(LeaseOf(kv, c) /\ kv.lease = Beating(c).from.lease)
    <3>1. Gone(c, Beating(c).from.lease)'
      BY <1>0, <2>2 DEF Gone, LeaseOf
    <3>2. Until(B, w) <= Until(D, k)
      <4>1. D \in Int /\ D <= D
        OBVIOUS
      <4> QED
        BY <1>3, <2>0, <4>1, UntilMoves
    <3>3. LeaseOf(kv, c) => kv.lease.until >= Until(B, w)
      BY <1>7, <3>2
    <3>4. Until(Beating(c).began, Written(c))' = Until(B, w)
      BY <1>0, <1>1, <1>2 DEF Until, Beats
    <3>5. AtLeast(c, Until(Beating(c).began, Written(c)))'
      BY <1>0, <3>3, <3>4 DEF AtLeast, LeaseOf
    <3>6. B >= D /\ clock' <= B + PollLimit
      BY <1>0, <1>1, <2>0
    <3> QED
      BY <1>0, <1>1, <1>2, <1>9, <3>1, <3>5, <3>6 DEF Doomed, Promised
  <2> QED
    BY <2>1, <2>2
<1>10. CASE Beating(c).step = "confirm"
  <2>0. B = T /\ T + 1 <= B + PollLimit /\ PollLimit \in Nat
    <3>1. T < B + PollLimit
      BY <1>1, <1>10, BeatWaits
    <3> QED
      BY <1>1, <1>10, <3>1, PollTyped DEF Timely
  <2>1. CASE LeaseOf(kv, c) /\ kv.lease = Beating(c).next.lease
    <3>1. B - D <= w /\ clock' = B + 1 /\ B >= D
      BY <1>0, <1>1, <1>2, <1>3, <2>0
    <3>2. OnlyLease(c, Beating(c).next.lease)'
      BY <1>0, <2>1 DEF OnlyLease, LeaseOf
    <3> QED
      BY <1>0, <1>1, <1>2, <1>10, <3>1, <3>2 DEF Awaited
  <2>2. CASE ~(LeaseOf(kv, c) /\ kv.lease = Beating(c).next.lease)
    <3>1. Gone(c, Beating(c).next.lease)'
      BY <1>0, <2>2 DEF Gone, LeaseOf
    <3>2. Until(B, w) <= Until(D, k)
      <4>1. PICK x \in Nat : x = T - D /\ T = D + x /\ k = w - x
        <5>1. T - D \in Nat /\ T = D + (T - D)
          BY <1>2
        <5> QED
          BY <1>3, <5>1
      <4>2. D \in Int
        OBVIOUS
      <4>3. Until(D + x, w) <= Until(D, w - x)
        BY <4>2, UntilBehind
      <4> QED
        BY <2>0, <4>1, <4>3
    <3>3. LeaseOf(kv, c) => kv.lease.until >= Until(B, w)
      BY <1>7, <3>2
    <3>4. Until(Beating(c).began, Written(c))' = Until(B, w)
      BY <1>0, <1>1, <1>2 DEF Until, Beats
    <3>5. AtLeast(c, Until(Beating(c).began, Written(c)))'
      BY <1>0, <3>3, <3>4 DEF AtLeast, LeaseOf
    <3>6. B >= D /\ clock' <= B + PollLimit
      BY <1>0, <1>1, <1>2, <2>0
    <3> QED
      BY <1>0, <1>1, <1>2, <1>10, <3>1, <3>5, <3>6 DEF Doomed, Promised
  <2> QED
    BY <2>1, <2>2
<1> QED
  BY <1>8, <1>9, <1>10, BeatWaits

LEMMA TickDoomed ==
  ASSUME Prompt, Tick, NEW c \in Command, Numbered(c), Running(c), Doomed(c)
  PROVE  Doomed(c)'
<1>0. /\ UNCHANGED <<kv, due, made, call>> /\ clock' = clock + 1 /\ Served' = {kv} /\ kv \in Served
      /\ Op(c)' = Op(c) /\ Beating(c)' = Beating(c) /\ ~Recording(c) /\ TypeOK
  BY TickServes, BeatWaits DEF Prompt, Inv
<1>1. Written(c)' = Written(c) /\ ~Recording(c)'
  BY <1>0 DEF Written, Recording
<1>2. Until(Beating(c).began, Written(c))' = Until(Beating(c).began, Written(c))
  BY <1>0, <1>1 DEF Until, Beats
<1>3. AtLeast(c, Until(Beating(c).began, Written(c)))' /\ Promised(c, Until(Beating(c).began, Written(c)))'
  BY <1>0, <1>1, <1>2 DEF Doomed, AtLeast, Promised, LeaseOf
<1>4. /\ Beating(c).step = "read" => Gone(c, Beating(c).from.lease)'
      /\ Beating(c).step = "confirm" => Gone(c, Beating(c).next.lease)'
  BY <1>0 DEF Doomed, Gone, LeaseOf
<1>5. clock' <= Beating(c).began + PollLimit
  <2>1. clock < Beating(c).began + PollLimit /\ clock \in Nat /\ Beating(c).began \in Nat /\ PollLimit \in Nat
    BY <1>0, BeatWaits, PhaseTyped DEF Doomed
  <2> QED
    BY <1>0, <2>1
<1> QED
  BY <1>0, <1>3, <1>4, <1>5 DEF Doomed

LEMMA TickAwaited ==
  ASSUME Prompt, Tick, NEW c \in Command, Numbered(c), Running(c), Awaited(c)
  PROVE  Doomed(c)'
<1>0. /\ UNCHANGED <<kv, due, made, call>> /\ clock' = clock + 1 /\ Served' = {kv} /\ kv \in Served
      /\ Op(c)' = Op(c) /\ Beating(c)' = Beating(c) /\ ~Recording(c) /\ TypeOK
      /\ \A f \in Fiber : call[f].step # "write"
  BY TickServes, BeatWaits DEF Prompt, Inv
<1>1. ~LeaseOf(kv, c)
  <2> SUFFICES ASSUME LeaseOf(kv, c) PROVE FALSE
    OBVIOUS
  <2>1. replaced = {} /\ kv.lease = Beating(c).next.lease /\ Beating(c).step = "confirm"
    BY <1>0 DEF Awaited, OnlyLease
  <2>2. \E v \in Served : v # kv
    BY <2>1, BeatWaits
  <2> QED
    BY <2>1, <2>2 DEF Served
<1>2. /\ AtLeast(c, Until(Beating(c).began, Written(c)))' /\ Promised(c, Until(Beating(c).began, Written(c)))'
      /\ Gone(c, Beating(c).next.lease)'
  <2>1. ~Recording(c)'
    BY <1>0 DEF Recording
  <2> QED
    BY <1>0, <1>1, <2>1 DEF AtLeast, Promised, Gone, LeaseOf
<1>3. clock' <= Beating(c).began + PollLimit
  <2>1. clock < Beating(c).began + PollLimit /\ clock \in Nat /\ Beating(c).began \in Nat /\ PollLimit \in Nat
    BY <1>0, BeatWaits, PhaseTyped DEF Awaited
  <2> QED
    BY <1>0, <2>1
<1> QED
  BY <1>0, <1>2, <1>3 DEF Awaited, Doomed

LEMMA TickRuns ==
  ASSUME Heartbeat > 0, Prompt, Tick, NEW c \in Command, Numbered(c), Running(c), RunningWell(c)
  PROVE  RunningWell(c)'
<1>1. /\ UNCHANGED <<due, made, role>> /\ Op(c)' = Op(c) /\ Beating(c)' = Beating(c)
  BY TickServes
<1>2. Early(c)' \/ Timely(c)' \/ Doomed(c)' \/ Awaited(c)'
  BY TickEarly, TickTimely, TickDoomed, TickAwaited DEF RunningWell, Running
<1>3. Written(c)' = Written(c)
  BY <1>1 DEF Written
<1> QED
  BY <1>1, <1>2, <1>3 DEF RunningWell, Running

-----------------------------------------------------------------------------
(* Until it runs *)

\* What only takes leases of c away keeps what is known of them.
LEMMA LessIsFine ==
  ASSUME NEW c \in Command, \A v \in Served' : LeaseOf(v, c) => v \in Served, NEW l
  PROVE  /\ NoLeaseOf(c) => NoLeaseOf(c)'
         /\ OnlyLease(c, l) => OnlyLease(c, l)'
         /\ \A t : AtLeast(c, t) => AtLeast(c, t)'
BY DEF NoLeaseOf, OnlyLease, AtLeast, LeaseOf

LEMMA OthersWait ==
  ASSUME NEW c \in Command, SameFor(c), Fades(c), NEW l, NEW t, Waited(c, l, t)
  PROVE  Waited(c, l, t)'
<1>1. clock' = clock /\ (Gone(c, l) => Gone(c, l)')
  BY DEF SameFor, Fades, Gone, LeaseOf
<1>2. OnlyLease(c, l) => OnlyLease(c, l)'
  BY LessIsFine DEF Fades
<1>3. (LeaseOf(kv, c) => replaced = {}) => (LeaseOf(kv', c) => replaced' = {})
  BY DEF Fades
<1> QED
  BY <1>1, <1>2, <1>3 DEF Waited, LeaseOf

LEMMA OthersPhases ==
  ASSUME NEW c \in Command, SameFor(c), Fades(c), Bare(c), Acquiring(c), Fencing(c)
  PROVE  (Bare(c) /\ Acquiring(c) /\ Fencing(c))'
<1>1. /\ clock' = clock /\ stage'[c] = stage[c] /\ made'[c] = made[c] /\ held'[c] = held[c]
      /\ Op(c)' = Op(c) /\ \A v \in Served' : LeaseOf(v, c) => v \in Served
  BY FiberTyped DEF SameFor, Fades, Op
<1>2. Bare(c)'
  BY <1>1, LessIsFine DEF Bare
<1>3. PICK x : x = Op(c)
  OBVIOUS
<1>4. Acquiring(c)'
  <2>1. NoLeaseOf(c) => NoLeaseOf(c)'
    BY <1>1, LessIsFine
  <2>2. OnlyLease(c, x.next.lease) => OnlyLease(c, x.next.lease)'
    BY <1>1, LessIsFine
  <2>3. Waited(c, x.next.lease, x.began) => Waited(c, x.next.lease, x.began)'
    BY OthersWait
  <2>4. OnlyLease(c, Op(c).next.lease)' = OnlyLease(c, x.next.lease)'
    BY <1>1, <1>3 DEF OnlyLease
  <2>5. Waited(c, Op(c).next.lease, Op(c).began)' = Waited(c, x.next.lease, x.began)'
    BY <1>1, <1>3 DEF Waited, OnlyLease, Gone
  <2> QED
    BY <1>1, <1>3, <2>1, <2>2, <2>3, <2>4, <2>5 DEF Acquiring
<1>5. Fencing(c)'
  <2>1. PICK h, t : h = held[c] /\ t = x.now + Ttl - 1
    OBVIOUS
  <2>2. /\ OnlyLease(c, h.lease) => OnlyLease(c, h.lease)'
        /\ OnlyLease(c, x.from.lease) => OnlyLease(c, x.from.lease)'
        /\ AtLeast(c, t) => AtLeast(c, t)'
    BY <1>1, LessIsFine
  <2>3. /\ Waited(c, x.from.lease, x.now) => Waited(c, x.from.lease, x.now)'
        /\ Waited(c, x.next.lease, x.began) => Waited(c, x.next.lease, x.began)'
    BY OthersWait
  <2>4. /\ OnlyLease(c, held[c].lease)' = OnlyLease(c, h.lease)'
        /\ OnlyLease(c, Op(c).from.lease)' = OnlyLease(c, x.from.lease)'
        /\ AtLeast(c, Op(c).now + Ttl - 1)' = AtLeast(c, t)'
    BY <1>1, <1>3, <2>1 DEF OnlyLease, AtLeast
  <2>5. /\ Waited(c, Op(c).from.lease, Op(c).now)' = Waited(c, x.from.lease, x.now)'
        /\ Waited(c, Op(c).next.lease, Op(c).began)' = Waited(c, x.next.lease, x.began)'
    BY <1>1, <1>3 DEF Waited, OnlyLease, Gone
  <2>6. (LeaseOf(kv, c) => kv.lease = x.next.lease) => (LeaseOf(kv', c) => kv'.lease = x.next.lease)
    BY DEF Fades
  <2> QED
    BY <1>1, <1>3, <2>1, <2>2, <2>3, <2>4, <2>5, <2>6 DEF Fencing, LeaseOf
<1> QED
  BY <1>2, <1>4, <1>5

LEMMA TickWaits ==
  ASSUME Prompt, Tick, NEW c \in Command, Numbered(c), NEW l, NEW t, Waited(c, l, t),
         LeaseOf(kv, c) => kv.lease = l /\ \E v \in Served : v # kv
  PROVE  Waited(c, l, t)' /\ OnlyLease(c, l)'
<1>0. /\ kv' = kv /\ clock' = clock + 1 /\ replaced' = {} /\ Served' = {kv} /\ call' = call
      /\ \A f \in Fiber : call[f].step # "write"
  BY TickServes
<1>1. OnlyLease(c, l)'
  BY <1>0 DEF OnlyLease, LeaseOf
<1>2. CASE clock = t
  BY <1>0, <1>1, <1>2 DEF Waited, LeaseOf
<1>3. CASE Gone(c, l)
  <2>1. Gone(c, l)'
    BY <1>0, <1>3 DEF Gone, LeaseOf, Served
  <2> QED
    BY <1>1, <2>1 DEF Waited
<1>4. CASE LeaseOf(kv, c) => replaced = {}
  <2>1. ~LeaseOf(kv, c)
    BY <1>4 DEF Served
  <2>2. Gone(c, l)'
    BY <1>0, <2>1 DEF Gone, LeaseOf
  <2> QED
    BY <1>1, <2>2 DEF Waited
<1> QED
  BY <1>1, <1>2, <1>3, <1>4 DEF Waited

LEMMA TickPhases ==
  ASSUME Prompt, Tick, NEW c \in Command, Numbered(c), Bare(c), Acquiring(c), Fencing(c)
  PROVE  (Bare(c) /\ Acquiring(c) /\ Fencing(c))'
<1> DEFINE f == <<c, "operation">>
<1>0. /\ UNCHANGED <<kv, stage, held, call, made>> /\ clock' = clock + 1 /\ replaced' = {}
      /\ Served' = {kv} /\ kv \in Served /\ Op(c)' = Op(c)
      /\ f \in Fiber /\ f[1] = c /\ f[2] = "operation"
      /\ MayWait(f) /\ call[f].step # "write" /\ call[f].step \in Step /\ CallFits(f) /\ CallIsMine(f)
      /\ TypeOK
  BY TickServes, FiberTyped, CallTyped DEF Prompt, Inv, TypeOK, Mine, AllMine
<1>1. \A v \in Served' : LeaseOf(v, c) => v \in Served
  BY <1>0
<1>2. Bare(c)'
  BY <1>0, <1>1, LessIsFine DEF Bare
<1>3. /\ call[f].kind = "renew" /\ call[f].step = "read" /\ LeaseOf(kv, c) /\ kv.lease = call[f].from.lease =>
            \E v \in Served : v # kv
      /\ call[f].kind \in Leasing /\ call[f].step = "confirm" /\ LeaseOf(kv, c) /\ kv.lease = call[f].next.lease =>
            \E v \in Served : v # kv
  <2>1. /\ call[f].kind = "renew" /\ call[f].step = "read" =>
              \E v \in Served : ~Fresh(v, call[f].from.updatedAt)
        /\ call[f].step = "confirm" => \E v \in Served : ~Fresh(v, call[f].next.updatedAt)
    BY <1>0 DEF MayWait
  <2> QED
    BY <1>0, <2>1, TickServes
<1>4. PICK x : x = Op(c) /\ x = call[f]
  BY DEF Op
<1>5. Acquiring(c)'
  <2> SUFFICES ASSUME stage[c] = "acquiring" PROVE Acquiring(c)'
    BY <1>0 DEF Acquiring
  <2>1. /\ x.kind \in {"create", "acquire", "release"}
        /\ x.kind = "release" \/ x.step # "confirm" => NoLeaseOf(c)
        /\ x.kind # "release" =>
             /\ x.began = x.now
             /\ x.step = "confirm" => OnlyLease(c, x.next.lease) /\ Waited(c, x.next.lease, x.began)
    BY <1>4 DEF Acquiring
  <2>2. x.step \in {"read", "write"} => x.kind = "release"
    BY <1>0, <1>4, <2>1 DEF MayWait
  <2>3. NoLeaseOf(c) => NoLeaseOf(c)'
    BY <1>1, LessIsFine
  <2>4. x.kind # "release" /\ x.step = "confirm" =>
           OnlyLease(c, x.next.lease)' /\ Waited(c, x.next.lease, x.began)'
    <3> SUFFICES ASSUME x.kind # "release", x.step = "confirm"
                 PROVE  OnlyLease(c, x.next.lease)' /\ Waited(c, x.next.lease, x.began)'
      OBVIOUS
    <3>1. LeaseOf(kv, c) => kv.lease = x.next.lease
      BY <1>0, <2>1 DEF OnlyLease
    <3>2. LeaseOf(kv, c) => \E v \in Served : v # kv
      BY <1>3, <1>4, <2>1, <3>1 DEF Leasing
    <3> QED
      BY <2>1, <3>1, <3>2, TickWaits
  <2>5. OnlyLease(c, Op(c).next.lease)' = OnlyLease(c, x.next.lease)'
    BY <1>0, <1>4 DEF OnlyLease
  <2>6. Waited(c, Op(c).next.lease, Op(c).began)' = Waited(c, x.next.lease, x.began)'
    BY <1>0, <1>4 DEF Waited, OnlyLease, Gone
  <2> QED
    BY <1>0, <1>4, <2>1, <2>2, <2>3, <2>4, <2>5, <2>6 DEF Acquiring
<1>6. Fencing(c)'
  <2> SUFFICES ASSUME stage[c] = "fencing" PROVE Fencing(c)'
    BY <1>0 DEF Fencing
  <2>1. x.step \in {"read", "confirm"} /\ x.kind = "renew"
    <3>1. x.step # "idle"
      BY <1>0, <1>4 DEF MayWait
    <3>2. x.kind = "renew"
      <4>1. call[f].kind \in Kind
        BY <1>0, CallTyped DEF TypeOK
      <4> QED
        BY <1>0, <1>4, <3>1, <4>1 DEF CallFits, Running, Kind
    <3> QED
      BY <1>0, <1>4, <3>1, <3>2 DEF Step
  <2>2. PICK t : t = x.now + Ttl - 1
    OBVIOUS
  <2>3. /\ x.step = "read" => OnlyLease(c, x.from.lease) /\ Waited(c, x.from.lease, x.now)
        /\ x.step = "read" => x.from.lease.until >= t
        /\ x.step = "confirm" => /\ x.began <= x.now + 1 /\ AtLeast(c, t)
                                 /\ LeaseOf(kv, c) => kv.lease = x.next.lease
                                 /\ Waited(c, x.next.lease, x.began)
    BY <1>4, <2>2 DEF Fencing
  <2>4. x.step = "read" => OnlyLease(c, x.from.lease)' /\ Waited(c, x.from.lease, x.now)'
    <3> SUFFICES ASSUME x.step = "read"
                 PROVE  OnlyLease(c, x.from.lease)' /\ Waited(c, x.from.lease, x.now)'
      OBVIOUS
    <3>1. LeaseOf(kv, c) => kv.lease = x.from.lease
      BY <1>0, <2>3 DEF OnlyLease
    <3>2. LeaseOf(kv, c) => \E v \in Served : v # kv
      BY <1>3, <1>4, <2>1, <3>1
    <3> QED
      BY <2>3, <3>1, <3>2, TickWaits
  <2>5. x.step = "confirm" => Waited(c, x.next.lease, x.began)'
    <3> SUFFICES ASSUME x.step = "confirm" PROVE Waited(c, x.next.lease, x.began)'
      OBVIOUS
    <3>1. LeaseOf(kv, c) => kv.lease = x.next.lease
      BY <2>3
    <3>2. LeaseOf(kv, c) => \E v \in Served : v # kv
      BY <1>3, <1>4, <2>1, <3>1 DEF Leasing
    <3> QED
      BY <2>3, <3>1, <3>2, TickWaits
  <2>6. AtLeast(c, t) => AtLeast(c, t)'
    BY <1>1, LessIsFine
  <2>7. /\ OnlyLease(c, Op(c).from.lease)' = OnlyLease(c, x.from.lease)'
        /\ AtLeast(c, Op(c).now + Ttl - 1)' = AtLeast(c, t)'
    BY <1>0, <1>4, <2>2 DEF OnlyLease, AtLeast
  <2>8. /\ Waited(c, Op(c).from.lease, Op(c).now)' = Waited(c, x.from.lease, x.now)'
        /\ Waited(c, Op(c).next.lease, Op(c).began)' = Waited(c, x.next.lease, x.began)'
    BY <1>0, <1>4 DEF Waited, OnlyLease, Gone
  <2> QED
    BY <1>0, <1>4, <2>1, <2>2, <2>3, <2>4, <2>5, <2>6, <2>7, <2>8 DEF Fencing, LeaseOf
<1> QED
  BY <1>2, <1>5, <1>6

\* Where the steps of a command happen.
LEMMA WhereSteps ==
  ASSUME Prompt, NEW c \in Command, NEW f \in Fiber, f[1] = c, Steps(f)
  PROVE  /\ stage[c] \in {"acquiring", "fencing", "running"}
         /\ stage[c] = "acquiring" => call[f].kind \in {"create", "acquire", "release"}
         /\ stage[c] = "fencing" => call[f].kind = "renew"
         /\ stage[c] # "running" => f = <<c, "operation">>
         /\ stage[c] = "running" => call[f].kind \in {"renew", "record", "finish", "delete"}
<1>0. CallFits(f) /\ call[f].kind \in Kind
  BY CallTyped DEF Prompt, Inv, TypeOK, Mine
<1>1. call[f].kind # "none"
  BY <1>0 DEF Steps, Drops, Put, Confirms, Writes, CallFits
<1>2. <<c, "heartbeat">>[2] = "heartbeat"
  OBVIOUS
<1> QED
  BY <1>0, <1>1, <1>2, TwoFibers DEF CallFits, Running, Kind

\* A command begins; it asks for the lease.
LEMMA BeginPhases ==
  ASSUME Prompt, NEW c \in Command, Bare(c), NEW k \in {"create", "acquire", "release"}, Begin(c, k)
  PROVE  (Bare(c) /\ Acquiring(c) /\ Fencing(c) /\ RunningWell(c))'
<1> DEFINE f == <<c, "operation">>
<1>0. f \in Fiber /\ call \in [Fiber -> Call] /\ stage \in [Command -> Stage]
  BY FiberTyped DEF Prompt, Inv, TypeOK
<1>1. /\ call'[f].kind = k /\ call'[f].step = "read" /\ call'[f].now = clock /\ call'[f].began = clock
      /\ stage'[c] = "acquiring" /\ UNCHANGED <<kv, replaced, clock, made>>
      /\ stage[c] \in {"new", "released"}
  BY <1>0 DEF Begin, Open
<1>2. Op(c)'.kind = k /\ Op(c)'.step = "read" /\ Op(c)'.now = clock /\ Op(c)'.began = clock
  BY <1>1 DEF Op
<1>3. NoLeaseOf(c)' /\ made'[c] = 0
  BY <1>1 DEF Bare, NoLeaseOf, Served, LeaseOf
<1> QED
  BY <1>1, <1>2, <1>3 DEF Bare, Acquiring, Fencing, RunningWell

LEMMA FencePhases ==
  ASSUME Prompt, NEW c \in Command, Bare(c), Fencing(c), Fence(c)
  PROVE  (Bare(c) /\ Acquiring(c) /\ Fencing(c) /\ RunningWell(c))'
<1> DEFINE f == <<c, "operation">>
<1>0. /\ f \in Fiber /\ call \in [Fiber -> Call] /\ TypeOK
      /\ stage[c] = "fencing" => LeaseOf(held[c], c)
  BY FiberTyped DEF Prompt, Inv, TypeOK, AllMine, HeldIsMine
<1>1. /\ call'[f].step = "read" /\ call'[f].now = clock /\ call'[f].from = held[c] /\ call[f] = Idle
      /\ stage[c] = "fencing" /\ UNCHANGED <<kv, replaced, clock, stage, made>>
  BY <1>0 DEF Fence, Open
<1>2. /\ Op(c)'.step = "read" /\ Op(c)'.now = clock /\ Op(c)'.from = held[c] /\ Op(c).step = "idle"
  BY <1>1 DEF Op, Idle
<1>3. OnlyLease(c, held[c].lease) /\ held[c].lease.until >= clock + Ttl - 1
  BY <1>1, <1>2 DEF Fencing
<1>4. PICK h : h = held[c]
  OBVIOUS
<1>5. OnlyLease(c, h.lease)' /\ Waited(c, h.lease, clock)'
  BY <1>1, <1>3, <1>4 DEF OnlyLease, Served, Waited, LeaseOf
<1>6. OnlyLease(c, Op(c).from.lease)' = OnlyLease(c, h.lease)'
  BY <1>2, <1>4 DEF OnlyLease
<1>7. Waited(c, Op(c).from.lease, Op(c).now)'
  BY <1>1, <1>2 DEF Waited
<1>8. Op(c)'.from.lease.until >= Op(c)'.now + Ttl - 1
  BY <1>2, <1>3
<1> QED
  BY <1>1, <1>2, <1>5, <1>6, <1>7, <1>8 DEF Bare, Acquiring, Fencing, RunningWell

LEMMA StopPhases ==
  ASSUME Prompt, NEW c \in Command, Acquiring(c), Stops(c)
  PROVE  (Bare(c) /\ Acquiring(c) /\ Fencing(c) /\ RunningWell(c))'
<1>0. /\ stage \in [Command -> Stage] /\ made \in [Command -> Nat]
      /\ <<c, "operation">> \in Fiber /\ <<c, "operation">>[1] = c
      /\ CallFits(<<c, "operation">>)
  BY FiberTyped DEF Prompt, Inv, TypeOK, Mine
<1>1. PICK s \in {"ended", "settled", "released"} : Stop(c, s) /\ (s = "released" => Op(c).kind = "release")
  BY DEF Stops
<1>2. stage'[c] = s /\ made'[c] = 0
  BY <1>0, <1>1 DEF Stop
<1>3. s = "released" => NoLeaseOf(c)
  <2>1. s = "released" => stage[c] = "acquiring" /\ Op(c).kind = "release"
    BY <1>0, <1>1 DEF CallFits, Op
  <2> QED
    BY <2>1 DEF Acquiring
<1>4. \A v \in Served' : LeaseOf(v, c) => v \in Served
  <2>1. CASE UNCHANGED <<kv, replaced>>
    BY <2>1 DEF Served
  <2>2. CASE Write(NoReceipt)
    BY <2>2 DEF Write, Served, LeaseOf
  <2> QED
    BY <2>1, <2>2 DEF Stops
<1>5. s = "released" => NoLeaseOf(c)'
  BY <1>3, <1>4, LessIsFine
<1> QED
  BY <1>2, <1>5 DEF Bare, Acquiring, Fencing, RunningWell

\* A waiting call that finds its lease does so within the next tick.
LEMMA FoundInTime ==
  ASSUME NEW c \in Command, NEW l, NEW t, Waited(c, l, t), NEW v \in Served, LeaseOf(v, c), v.lease = l
  PROVE  clock = t \/ clock = t + 1
BY DEF Waited, Gone

LEMMA AcquiringSteps ==
  ASSUME Prompt, NEW c \in Command, Numbered(c), Bare(c), Acquiring(c), stage[c] = "acquiring",
         Steps(<<c, "operation">>)
  PROVE  (Bare(c) /\ Acquiring(c) /\ Fencing(c) /\ RunningWell(c))'
<1> DEFINE f == <<c, "operation">>
<1>0. /\ f \in Fiber /\ f[1] = c /\ call \in [Fiber -> Call] /\ TypeOK
      /\ stage \in [Command -> Stage] /\ held \in [Command -> Receipt \cup {NoReceipt}]
      /\ CallNumbered(f) /\ CallIsMine(f) /\ clock \in Nat /\ Ttl \in Nat
      /\ call[f].kind \in {"create", "acquire", "release"}
  BY FiberTyped, WhereSteps, TimesTyped DEF Prompt, Inv, TypeOK, AllMine, Numbered
<1>1. made[c] = 0
  BY DEF Bare
<1>2. PICK x : x = Op(c) /\ x = call[f]
  BY DEF Op
<1>3. /\ x.kind = "release" \/ x.step # "confirm" => NoLeaseOf(c)
      /\ x.kind # "release" =>
             /\ x.began = x.now
             /\ x.step \in {"read", "write"} => clock = x.now
             /\ x.step = "confirm" => OnlyLease(c, x.next.lease) /\ Waited(c, x.next.lease, x.began)
  BY <1>2 DEF Acquiring
<1>4. CASE Drops(f)
  <2>1. /\ stage'[c] = "released" /\ call[f].kind = "release" /\ made' = made
        /\ (kv' = kv /\ replaced' = replaced) \/ Write(NoReceipt)
    BY <1>0, <1>4 DEF Drops
  <2>2. NoLeaseOf(c)'
    BY <1>2, <1>3, <2>1 DEF NoLeaseOf, Served, Write, LeaseOf
  <2> QED
    BY <1>1, <2>1, <2>2 DEF Bare, Acquiring, Fencing, RunningWell
<1>5. CASE Put(f)
  <2>1. /\ call[f].step = "write" /\ call'[f].step = "confirm" /\ call'[f].kind = call[f].kind
        /\ call'[f].next = call[f].next /\ call'[f].began = clock /\ call'[f].now = call[f].now
        /\ UNCHANGED <<clock, stage, made>>
        /\ kv' = call[f].next /\ \A v \in Served' : v = kv' \/ v \in Served
    BY <1>0, <1>5, PutIsKnown
  <2>2. /\ Op(c)'.step = "confirm" /\ Op(c)'.kind = x.kind /\ Op(c)'.next = x.next
        /\ Op(c)'.began = clock /\ Op(c)'.now = x.now /\ x.step = "write"
    BY <1>2, <2>1 DEF Op
  <2>3. \A v \in Served' : LeaseOf(v, c) => v = x.next
    BY <1>2, <1>3, <2>1, <2>2 DEF NoLeaseOf
  <2>4. CASE x.kind = "release"
    <3>1. ~LeaseOf(x.next, c)
      BY <1>0, <1>2, <2>1, <2>4 DEF CallNumbered, LeaseOf
    <3>2. NoLeaseOf(c)'
      BY <2>3, <3>1 DEF NoLeaseOf, LeaseOf
    <3> QED
      BY <1>1, <2>1, <2>2, <2>4, <3>2 DEF Bare, Acquiring, Fencing, RunningWell
  <2>5. CASE x.kind # "release"
    <3>1. OnlyLease(c, x.next.lease)'
      BY <2>3 DEF OnlyLease, LeaseOf
    <3>2. OnlyLease(c, Op(c).next.lease)' = OnlyLease(c, x.next.lease)'
      BY <2>2 DEF OnlyLease
    <3>3. Waited(c, Op(c).next.lease, Op(c).began)' /\ Op(c)'.began = Op(c)'.now
      BY <1>3, <2>1, <2>2, <2>5 DEF Waited
    <3> QED
      BY <1>0, <1>1, <1>2, <2>1, <2>2, <2>5, <3>1, <3>2, <3>3 DEF Bare, Acquiring, Fencing, RunningWell
  <2> QED
    BY <2>4, <2>5
<1>6. ASSUME NEW v \in Served, Confirms(f, v) PROVE (Bare(c) /\ Acquiring(c) /\ Fencing(c) /\ RunningWell(c))'
  <2>1. /\ call[f].step = "confirm" /\ call[f].kind \in {"create", "acquire"}
        /\ v # NoReceipt /\ v.lease = call[f].next.lease
        /\ call'[f] = Idle /\ held'[c] = v /\ stage'[c] = "fencing"
        /\ UNCHANGED <<kv, replaced, clock, made>>
    BY <1>0, <1>6 DEF Confirms
  <2>2. LeaseOf(v, c)
    BY <1>0, <2>1 DEF CallIsMine, LeaseOf
  <2>3. OnlyLease(c, v.lease) /\ (clock = call[f].now \/ clock = call[f].now + 1)
    BY <1>2, <1>3, <2>1, <2>2, FoundInTime
  <2>4. v.lease.until >= clock + Ttl - 1
    <3>1. v.lease = NewLease(f)
      BY <1>0, <2>1 DEF CallNumbered, Leasing
    <3>2. v.lease.until = call[f].now + Ttl /\ call[f].now \in Nat
      BY <1>0, <3>1, CallTyped DEF NewLease, TypeOK
    <3> QED
      BY <1>0, <2>3, <3>2
  <2>5. OnlyLease(c, held[c].lease)'
    BY <2>1, <2>3 DEF OnlyLease, Served, LeaseOf
  <2>6. Op(c)'.step = "idle"
    BY <2>1 DEF Op, Idle
  <2> QED
    BY <1>1, <2>1, <2>4, <2>5, <2>6 DEF Bare, Acquiring, Fencing, RunningWell
<1>7. ASSUME NEW v \in Served, NEW r, Writes(f, v, r)
      PROVE  (Bare(c) /\ Acquiring(c) /\ Fencing(c) /\ RunningWell(c))'
  <2>1. /\ call[f].step = "read" /\ call'[f].step = "write" /\ call'[f].kind = call[f].kind
        /\ call'[f].began = clock /\ call'[f].now = call[f].now
        /\ UNCHANGED <<kv, replaced, clock, stage, made>>
    BY <1>0, <1>7 DEF Writes, Proceed
  <2>2. /\ Op(c)'.step = "write" /\ Op(c)'.kind = x.kind /\ Op(c)'.began = clock /\ Op(c)'.now = x.now
    BY <1>2, <2>1 DEF Op
  <2>3. NoLeaseOf(c)'
    BY <1>2, <1>3, <2>1 DEF NoLeaseOf, Served, LeaseOf
  <2> QED
    BY <1>0, <1>1, <1>2, <1>3, <2>1, <2>2, <2>3 DEF Bare, Acquiring, Fencing, RunningWell
<1> QED
  BY <1>4, <1>5, <1>6, <1>7 DEF Steps

LEMMA FencingSteps ==
  ASSUME Heartbeat > 0, Prompt, NEW c \in Command, Numbered(c), Bare(c), Fencing(c), stage[c] = "fencing",
         Steps(<<c, "operation">>)
  PROVE  (Bare(c) /\ Acquiring(c) /\ Fencing(c) /\ RunningWell(c))'
<1> DEFINE f == <<c, "operation">>
<1>0. /\ f \in Fiber /\ f[1] = c /\ call \in [Fiber -> Call] /\ TypeOK
      /\ stage \in [Command -> Stage] /\ held \in [Command -> Receipt \cup {NoReceipt}]
      /\ due \in [Command -> Nat]
      /\ CallNumbered(f) /\ CallIsMine(f) /\ clock \in Nat /\ Ttl \in Nat /\ Heartbeat \in Nat
      /\ call[f].kind = "renew"
  BY FiberTyped, WhereSteps, TimesTyped DEF Prompt, Inv, TypeOK, AllMine, Numbered
<1>1. made[c] = 0
  BY DEF Bare
<1>2. PICK x : x = Op(c) /\ x = call[f]
  BY DEF Op
<1>3. PICK n \in Nat, b \in Nat : n = x.now /\ b = x.began
  BY <1>0, <1>2, CallTyped DEF TypeOK
<1>4. /\ x.step = "read" => /\ OnlyLease(c, x.from.lease) /\ x.from.lease.until >= n + Ttl - 1
                            /\ Waited(c, x.from.lease, n)
      /\ x.step = "write" => clock = b /\ clock <= n + 1 /\ AtLeast(c, n + Ttl - 1)
      /\ x.step = "confirm" => /\ b <= n + 1 /\ AtLeast(c, n + Ttl - 1)
                               /\ LeaseOf(kv, c) => kv.lease = x.next.lease
                               /\ Waited(c, x.next.lease, b)
  BY <1>2, <1>3 DEF Fencing
<1>5. ~Drops(f)
  BY <1>0 DEF Drops
<1>6. CASE Put(f)
  <2>1. /\ call[f].step = "write" /\ call'[f].step = "confirm"
        /\ call'[f].next = call[f].next /\ call'[f].began = clock /\ call'[f].now = call[f].now
        /\ UNCHANGED <<clock, stage, made>>
        /\ kv' = call[f].next /\ \A v \in Served' : v = kv' \/ v \in Served
    BY <1>0, <1>6, PutIsKnown
  <2>2. /\ Op(c)'.step = "confirm" /\ Op(c)'.next = x.next /\ Op(c)'.began = clock /\ Op(c)'.now = n
        /\ x.step = "write" /\ kv' = x.next
    BY <1>2, <1>3, <2>1 DEF Op
  <2>3. x.next.lease.until = n + Ttl
    <3>1. call[f].next.lease = NewLease(f)
      BY <1>0, <2>1 DEF CallNumbered, Leasing
    <3> QED
      BY <1>2, <1>3, <3>1 DEF NewLease
  <2>4. \A v \in Served' : LeaseOf(v, c) => v.lease.until >= n + Ttl - 1
    <3>1. x.next.lease.until >= n + Ttl - 1
      BY <1>0, <2>3
    <3> QED
      BY <1>4, <2>1, <2>2, <3>1 DEF AtLeast
  <2>5. AtLeast(c, Op(c).now + Ttl - 1)'
    BY <2>2, <2>4 DEF AtLeast, LeaseOf
  <2>6. Waited(c, Op(c).next.lease, Op(c).began)' /\ Op(c)'.began <= Op(c)'.now + 1
    BY <1>4, <2>1, <2>2 DEF Waited
  <2> QED
    BY <1>1, <2>1, <2>2, <2>5, <2>6 DEF Bare, Acquiring, Fencing, RunningWell
<1>7. ASSUME NEW v \in Served, NEW r, Writes(f, v, r)
      PROVE  (Bare(c) /\ Acquiring(c) /\ Fencing(c) /\ RunningWell(c))'
  <2>1. /\ call'[f].step = "write" /\ call'[f].began = clock /\ call'[f].now = call[f].now
        /\ UNCHANGED <<kv, replaced, clock, stage, made>>
    BY <1>0, <1>7, WriteIsKnown
  <2>2. call[f].step = "read" /\ LeaseOf(v, c) /\ v.lease = call[f].from.lease
    BY <1>0, <1>7 DEF Writes
  <2>3. Op(c)'.step = "write" /\ Op(c)'.began = clock /\ Op(c)'.now = n
    BY <1>2, <1>3, <2>1 DEF Op
  <2>4. clock <= n + 1
    <3>1. clock = n \/ clock = n + 1
      BY <1>2, <1>4, <2>2, FoundInTime
    <3> QED
      BY <3>1
  <2>5. AtLeast(c, n + Ttl - 1)
    BY <1>2, <1>4, <2>2 DEF AtLeast, OnlyLease
  <2>6. AtLeast(c, Op(c).now + Ttl - 1)'
    BY <2>1, <2>3, <2>5 DEF AtLeast, Served, LeaseOf
  <2> QED
    BY <1>1, <2>1, <2>3, <2>4, <2>6 DEF Bare, Acquiring, Fencing, RunningWell
<1>8. ASSUME NEW v \in Served, Confirms(f, v) PROVE (Bare(c) /\ Acquiring(c) /\ Fencing(c) /\ RunningWell(c))'
  <2>1. /\ call[f].step = "confirm" /\ v # NoReceipt /\ v.lease = call[f].next.lease
        /\ call'[f] = Idle /\ stage'[c] = "running" /\ due'[c] = clock + Heartbeat
        /\ \A g \in Fiber : g # f => call'[g] = call[g]
        /\ UNCHANGED <<kv, replaced, clock, made, role>>
    BY <1>0, <1>8 DEF Confirms, NextBeat
  <2>2. LeaseOf(v, c)
    BY <1>0, <2>1 DEF CallIsMine, LeaseOf
  <2>3. clock <= n + 2
    <3>1. clock = b \/ clock = b + 1
      BY <1>2, <1>4, <2>1, <2>2, FoundInTime
    <3>2. b <= n + 1
      BY <1>2, <1>4, <2>1
    <3> QED
      BY <3>1, <3>2
  <2>4. LeaseOf(kv, c) => kv.lease.until = n + Ttl
    <3>1. call[f].next.lease = NewLease(f)
      BY <1>0, <2>1 DEF CallNumbered, Leasing
    <3> QED
      BY <1>2, <1>3, <1>4, <2>1, <3>1 DEF NewLease
  <2>5. /\ Op(c)' = Idle /\ Beating(c)' = Beating(c) /\ Beating(c).step = "idle"
    <3>1. <<c, "heartbeat">> \in Fiber /\ <<c, "heartbeat">>[1] = c /\ <<c, "heartbeat">>[2] = "heartbeat"
          /\ f # <<c, "heartbeat">>
      BY FiberTyped
    <3>2. CallFits(<<c, "heartbeat">>)
      BY <3>1 DEF Prompt, Mine
    <3> QED
      BY <2>1, <3>1, <3>2 DEF Op, Beating, CallFits, Running
  <2>6. Written(c)' = 0 /\ ~Recording(c)'
    BY <1>1, <2>1, <2>5 DEF Written, Recording, Idle
  <2>7. PICK p \in Int, q \in Int :
           /\ p = Until(clock, 0) /\ q = Until(clock + Heartbeat, 0)
           /\ p <= n + Ttl - 1 /\ q <= n + Ttl
    <3>1. Until(clock, 0) = clock + (Ttl - Heartbeat - 2) - 0
      BY <1>0 DEF Until, Beats
    <3>2. Until(clock + Heartbeat, 0) = (clock + Heartbeat) + (Ttl - Heartbeat - 2) - 0
      BY <1>0 DEF Until, Beats
    <3>3. /\ clock + (Ttl - Heartbeat - 2) - 0 \in Int
          /\ (clock + Heartbeat) + (Ttl - Heartbeat - 2) - 0 \in Int
          /\ clock + (Ttl - Heartbeat - 2) - 0 <= n + Ttl - 1
          /\ (clock + Heartbeat) + (Ttl - Heartbeat - 2) - 0 <= n + Ttl
      BY <1>0, <2>3
    <3> QED
      BY <3>1, <3>2, <3>3
  <2>8. AtLeast(c, p) /\ Newest(c, q)
    <3>1. \A w \in Served : LeaseOf(w, c) => w.lease.until \in Nat
      BY <1>0, PhaseTyped
    <3>2. AtLeast(c, n + Ttl - 1)
      BY <1>2, <1>4, <2>1
    <3>3. \A w \in Served : LeaseOf(w, c) => w.lease.until >= p
      BY <1>0, <2>7, <3>1, <3>2 DEF AtLeast
    <3> QED
      BY <2>4, <2>7, <3>3, <1>0 DEF AtLeast, Newest
  <2>9. /\ Until(clock, Written(c))' = p /\ Until(due[c], Written(c))' = q
    BY <2>1, <2>6, <2>7 DEF Until, Beats
  <2>10. clock < clock + Heartbeat
    BY <1>0
  <2>11. Early(c)'
    BY <2>1, <2>5, <2>6, <2>8, <2>9, <2>10 DEF Early, AtLeast, Newest, Promised, Served, LeaseOf
  <2>12. made'[c] <= Records[role[c]]
    <3>1. Records[role[c]] \in Nat
      BY <1>0, LeaseConstants DEF TypeOK
    <3> QED
      BY <1>1, <2>1, <3>1
  <2> QED
    BY <2>1, <2>5, <2>6, <2>11, <2>12 DEF Bare, Acquiring, Fencing, RunningWell
<1> QED
  BY <1>5, <1>6, <1>7, <1>8 DEF Steps

-----------------------------------------------------------------------------
(* Every step keeps the phases *)

LEMMA StaysRunning ==
  ASSUME Prompt, NEW c \in Command, Running(c),
         \/ Beat(c) \/ \E k \in {"record", "finish", "delete"} : Work(c, k)
         \/ \E f \in Fiber : f[1] = c /\ Steps(f)
  PROVE  stage'[c] = "running"
<1>1. stage \in [Command -> Stage] /\ stage[c] = "running"
  BY DEF Prompt, Inv, TypeOK, Running
<1>2. CASE Beat(c) \/ \E k \in {"record", "finish", "delete"} : Work(c, k)
  BY <1>1, <1>2 DEF Beat, Work
<1>3. ASSUME NEW f \in Fiber, f[1] = c, Steps(f) PROVE stage'[c] = "running"
  <2>1. call[f].kind \in {"renew", "record", "finish", "delete"}
    BY <1>1, <1>3, WhereSteps
  <2>2. CASE Drops(f) \/ Put(f)
    BY <1>1, <2>1, <2>2 DEF Drops, Put
  <2>3. ASSUME NEW v \in Served, Confirms(f, v) PROVE stage'[c] = "running"
    BY <1>1, <1>3, <2>1, <2>3 DEF Confirms
  <2>4. ASSUME NEW v \in Served, NEW r, Writes(f, v, r) PROVE stage'[c] = "running"
    BY <1>1, <2>4 DEF Writes
  <2> QED
    BY <1>3, <2>2, <2>3, <2>4 DEF Steps
<1> QED
  BY <1>2, <1>3

LEMMA ActsPhased ==
  ASSUME Heartbeat > 0, Prompt, TypeOK', NEW c \in Command, Numbered(c), Phased(c), NEW b \in Command, Acts(b)
  PROVE  Phased(c)'
<1>0. Bare(c) /\ Acquiring(c) /\ Fencing(c) /\ RunningWell(c)
  BY DEF Phased
<1>1. CASE b # c
  <2>1. SameFor(c) /\ Fades(c)
    BY <1>1, OthersSame
  <2>2. (Bare(c) /\ Acquiring(c) /\ Fencing(c))'
    BY <1>0, <2>1, OthersPhases
  <2>3. RunningWell(c)'
    <3>1. CASE Running(c)
      BY <1>0, <3>1, RunningActs
    <3>2. CASE ~Running(c)
      BY <2>1, <3>2 DEF SameFor, Running, RunningWell
    <3> QED
      BY <3>1, <3>2
  <2> QED
    BY <2>2, <2>3 DEF Phased
<1>2. CASE b = c
  <2>1. ASSUME NEW k \in {"create", "acquire", "release"}, Begin(c, k) PROVE Phased(c)'
    BY <1>0, <2>1, BeginPhases DEF Phased
  <2>2. CASE Fence(c)
    BY <1>0, <2>2, FencePhases DEF Phased
  <2>3. CASE Stops(c)
    BY <1>0, <2>3, StopPhases DEF Phased
  <2>4. CASE Beat(c) \/ \E k \in {"record", "finish", "delete"} : Work(c, k)
    <3>1. Running(c)
      BY <2>4 DEF Beat, Work, Running
    <3>2. stage'[c] = "running"
      BY <2>4, <3>1, StaysRunning
    <3>3. RunningWell(c)'
      BY <1>0, <1>2, <3>1, RunningActs
    <3> QED
      BY <3>2, <3>3 DEF Phased, Bare, Acquiring, Fencing
  <2>5. ASSUME NEW f \in Fiber, f[1] = c, Steps(f) PROVE Phased(c)'
    <3>1. CASE stage[c] = "acquiring"
      BY <1>0, <2>5, <3>1, WhereSteps, AcquiringSteps DEF Phased
    <3>2. CASE stage[c] = "fencing"
      BY <1>0, <2>5, <3>2, WhereSteps, FencingSteps DEF Phased
    <3>3. CASE stage[c] = "running"
      <4>1. Running(c)
        BY <3>3 DEF Running
      <4>2. stage'[c] = "running"
        BY <2>5, <4>1, StaysRunning
      <4>3. RunningWell(c)'
        BY <1>0, <1>2, <4>1, RunningActs
      <4> QED
        BY <4>2, <4>3 DEF Phased, Bare, Acquiring, Fencing
    <3> QED
      BY <2>5, <3>1, <3>2, <3>3, WhereSteps
  <2> QED
    BY <1>2, <2>1, <2>2, <2>3, <2>4, <2>5, Forms
<1> QED
  BY <1>1, <1>2

LEMMA TickPhased ==
  ASSUME Heartbeat > 0, Prompt, Tick, NEW c \in Command, Numbered(c), Phased(c)
  PROVE  Phased(c)'
<1>1. (Bare(c) /\ Acquiring(c) /\ Fencing(c))'
  BY TickPhases DEF Phased
<1>2. RunningWell(c)'
  <2>1. CASE Running(c)
    BY <2>1, TickRuns DEF Phased
  <2>2. CASE ~Running(c)
    BY <2>2, TickServes DEF Running, RunningWell
  <2> QED
    BY <2>1, <2>2
<1> QED
  BY <1>1, <1>2 DEF Phased

LEMMA StutterPhased == ASSUME NEW c \in Command, Phased(c), UNCHANGED vars PROVE Phased(c)'
<1>1. UNCHANGED <<kv, replaced, clock, stage, held, call, due, made, role>>
  BY DEF vars
<1>2. Served' = Served /\ Op(c)' = Op(c) /\ Beating(c)' = Beating(c)
  BY <1>1 DEF Served, Op, Beating
<1>3. /\ Written(c)' = Written(c) /\ Recording(c)' = Recording(c) /\ Spare(c)' = Spare(c)
  BY <1>1, <1>2 DEF Written, Recording, Spare
<1>4. Bare(c)' /\ Acquiring(c)' /\ Fencing(c)'
  BY <1>1, <1>2 DEF Phased, Bare, Acquiring, Fencing, NoLeaseOf, OnlyLease, AtLeast, Waited, Gone, LeaseOf
<1>5. Early(c)' = Early(c) /\ Timely(c)' = Timely(c)
  BY <1>1, <1>2, <1>3 DEF Early, Timely, AtLeast, Newest, Promised, Until, Beats, LeaseOf
<1>6. Doomed(c)' = Doomed(c) /\ Awaited(c)' = Awaited(c)
  BY <1>1, <1>2, <1>3 DEF Doomed, Awaited, AtLeast, Promised, OnlyLease, Gone, Until, Beats, LeaseOf
<1>7. RunningWell(c)'
  BY <1>1, <1>2, <1>3, <1>5, <1>6 DEF Phased, RunningWell
<1> QED
  BY <1>4, <1>7 DEF Phased

LEMMA PhasedAtFirst == ASSUME Init, NEW c \in Command PROVE Phased(c)
<1>1. stage[c] = "new" /\ made[c] = 0 /\ replaced = {}
  BY DEF Init
<1>2. ~LeaseOf(kv, c)
  <2>1. PICK s \in Scenarios : kv = s.receipt
    BY DEF Init
  <2>2. kv # NoReceipt => Earlier(kv)
    BY <2>1, LeaseConstants
  <2> QED
    BY <2>2, LeaseConstants DEF Earlier, LeaseOf
<1>3. NoLeaseOf(c)
  BY <1>1, <1>2 DEF NoLeaseOf, Served
<1> QED
  BY <1>1, <1>3 DEF Phased, Bare, Acquiring, Fencing, RunningWell

LEMMA PhasedAlways ==
  ASSUME \A s \in Scenarios : s.staleness = 0, Heartbeat > 0
  PROVE  Spec => [](\A c \in Command : Phased(c))
<1> DEFINE N == \A c \in Command : Numbered(c)
           P == \A c \in Command : Phased(c)
<1>1. Init => P
  BY PhasedAtFirst
<1>2. Prompt /\ Inv' /\ N /\ P /\ [Next]_vars => P'
  <2> SUFFICES ASSUME Prompt, Inv', N, P, [Next]_vars, NEW c \in Command PROVE Phased(c)'
    OBVIOUS
  <2>1. CASE Tick
    BY <2>1, TickPhased
  <2>2. CASE UNCHANGED vars
    BY <2>2, StutterPhased
  <2>3. ASSUME NEW b \in Command, Acts(b) PROVE Phased(c)'
    BY <2>3, ActsPhased DEF Inv
  <2> QED
    BY <2>1, <2>2, <2>3, NextActs
<1>3. Spec => []N
  BY NumberedAlways
<1> HIDE DEF N, P
<1>4. Spec => []P
  BY <1>1, <1>2, <1>3, PromptAlways, InvAlways, PTL DEF Spec
<1> QED
  BY <1>4 DEF P

-----------------------------------------------------------------------------
(* No lease of a command that lives is found expired *)

\* Such a lease lasts for three ticks, the pause and the polls.
LEMMA OutlastsMore ==
  ASSUME Heartbeat > 0, NEW r \in Role, Outlasts(r)
  PROVE  /\ Records[r] \in Nat /\ Until(0, Records[r]) \in Int
         /\ Ttl > Heartbeat + 2 + PollLimit + Records[r]
         /\ Until(0, Records[r]) > PollLimit
         /\ \A t \in Int, k \in Int : k <= Records[r] => Until(t, k) >= t + Until(0, Records[r])
<1>0. Ttl \in Nat /\ Heartbeat \in Nat /\ PollLimit \in Nat
  BY PollTyped, TimesTyped
<1>1. PICK n \in Nat : n = Records[r]
  BY LeaseConstants
<1>2. Until(0, n) \in Int /\ Until(0, n) > PollLimit
  <2>1. 0 \in Int /\ n \in Int
    OBVIOUS
  <2>2. Until(0, n) > PollLimit
    BY <1>1 DEF Outlasts
  <2> QED
    BY <2>1, <2>2, UntilTyped
<1>3. Ttl > Heartbeat + 2 + PollLimit + n
  <2>1. n <= Beats(n) /\ Beats(n) \in Int
    <3>1. Beats(n - n) + n <= Beats(n)
      BY BeatsBehind
    <3>2. n - n = 0 /\ Beats(0) = 0
      BY <1>0 DEF Beats
    <3>3. Beats(n) \in Int
      BY BeatsTyped
    <3> QED
      BY <3>1, <3>2, <3>3
  <2>2. Until(0, n) = 0 + (Ttl - Heartbeat - 2) - Beats(n)
    BY DEF Until
  <2> QED
    BY <1>0, <1>2, <2>1, <2>2
<1>4. ASSUME NEW t \in Int, NEW k \in Int, k <= n PROVE Until(t, k) >= t + Until(0, n)
  <2>1. t <= t /\ 0 \in Int /\ n \in Int
    OBVIOUS
  <2>2. Until(t, n) <= Until(t, k)
    BY <1>4, <2>1, UntilMoves
  <2>3. Until(0 + t, n) = Until(0, n) + t
    BY <2>1, UntilMoves
  <2>4. Until(t, n) \in Int /\ Until(t, k) \in Int
    BY <2>1, UntilTyped
  <2>5. 0 + t = t
    OBVIOUS
  <2> QED
    BY <1>2, <2>2, <2>3, <2>4, <2>5
<1> QED
  BY <1>1, <1>2, <1>3, <1>4

LEMMA RunningUnexpired ==
  ASSUME Heartbeat > 0, Prompt, NEW c \in Command, Numbered(c), Running(c), RunningWell(c), Outlasts(role[c])
  PROVE  AtLeast(c, clock + 1)
<1> DEFINE R == Records[role[c]]
<1>0. /\ TypeOK /\ role[c] \in Role /\ Ttl \in Nat /\ Heartbeat \in Nat /\ PollLimit \in Nat
      /\ \A v \in Served : LeaseOf(v, c) => v.lease.until \in Nat
  BY PhaseTyped DEF Prompt, Inv, TypeOK
<1>1. PICK n \in Nat, u \in Int :
         /\ n = R /\ u = Until(0, n) /\ u > PollLimit /\ Ttl > Heartbeat + 2 + PollLimit + n
         /\ \A t \in Int, k \in Int : k <= n => Until(t, k) >= t + u
  BY <1>0, OutlastsMore
<1>2. PICK T \in Nat, D \in Nat, w \in Int, B \in Nat :
         T = clock /\ D = due[c] /\ w = Written(c) /\ B = Beating(c).began
  BY <1>0, PhaseTyped
<1>3. w >= 0 /\ w <= n
  <2>1. w <= made[c] /\ made[c] \in Nat
    BY <1>0, <1>2 DEF Written, TypeOK
  <2>2. w >= 0 /\ made[c] <= n
    BY <1>1, <1>2 DEF RunningWell, Running
  <2> QED
    BY <2>1, <2>2
<1>4. ASSUME NEW p \in Int, AtLeast(c, p), p >= T + 1 PROVE AtLeast(c, clock + 1)
  BY <1>0, <1>2, <1>4 DEF AtLeast
<1>5. ASSUME NEW t \in Int, NEW k \in Int, AtLeast(c, Until(t, k)), Until(t, k) >= T + 1
      PROVE  AtLeast(c, clock + 1)
  BY <1>4, <1>5, UntilTyped
<1>6. Until(T, w) >= T + 1
  <2>1. T \in Int /\ Until(T, w) >= T + u
    BY <1>1, <1>3
  <2>2. Until(T, w) \in Int
    BY <2>1, UntilTyped
  <2> QED
    BY <1>0, <1>1, <2>1, <2>2
<1>7. CASE Early(c)
  <2>1. AtLeast(c, Until(T, w)) /\ T \in Int
    BY <1>2, <1>7 DEF Early
  <2> QED
    BY <1>5, <1>6, <2>1
<1>8. CASE Timely(c)
  <2>1. PICK x \in Nat : T = D + x
    <3>1. T >= D
      BY <1>2, <1>8 DEF Timely
    <3>2. T - D \in Nat /\ T = D + (T - D)
      BY <3>1
    <3> QED
      BY <3>2
  <2>2. Spare(c) = w - x
    <3>1. Spare(c) = w - (T - D)
      BY <1>2 DEF Spare
    <3> QED
      BY <2>1, <3>1
  <2>3. AtLeast(c, Until(D, w - x)) /\ D \in Int /\ w - x \in Int
    BY <1>2, <1>8, <2>2 DEF Timely
  <2>4. Until(T, w) <= Until(D, w - x)
    BY <2>1, <2>3, UntilBehind
  <2>5. Until(T, w) \in Int /\ Until(D, w - x) \in Int
    <3>1. T \in Int
      OBVIOUS
    <3> QED
      BY <2>3, <3>1, UntilTyped
  <2>6. Until(D, w - x) >= T + 1
    BY <1>6, <2>4, <2>5
  <2> QED
    BY <1>5, <2>3, <2>6
<1>9. CASE Doomed(c)
  <2>1. AtLeast(c, Until(B, w)) /\ T <= B + PollLimit /\ B \in Int
    BY <1>2, <1>9 DEF Doomed
  <2>2. Until(B, w) >= B + u /\ Until(B, w) \in Int
    BY <1>1, <1>3, <2>1, UntilTyped
  <2>3. Until(B, w) >= T + 1
    BY <1>0, <1>1, <2>1, <2>2
  <2> QED
    BY <1>5, <2>1, <2>3
<1>10. CASE Awaited(c)
  <2>1. T = B + 1 /\ B - D <= w /\ OnlyLease(c, Beating(c).next.lease) /\ Beating(c).step = "confirm"
    BY <1>2, <1>10 DEF Awaited
  <2>2. Beating(c).next.lease.until = D + Ttl
    <3>1. <<c, "heartbeat">> \in Fiber /\ <<c, "heartbeat">>[1] = c
      BY FiberTyped
    <3>2. Beating(c).kind = "renew"
      BY <2>1, RunningCalls
    <3>3. Beating(c).next.lease = NewLease(<<c, "heartbeat">>)
      BY <2>1, <3>1, <3>2 DEF Numbered, CallNumbered, Leasing, Beating
    <3>4. Beating(c).now = D
      BY <1>2, <2>1 DEF RunningWell, Running
    <3> QED
      BY <3>3, <3>4 DEF NewLease, Beating
  <2>3. D + Ttl >= T + 1
    BY <1>0, <1>1, <1>3, <2>1
  <2>4. \A v \in Served : LeaseOf(v, c) => v.lease.until = D + Ttl
    BY <2>1, <2>2 DEF OnlyLease
  <2> QED
    BY <1>2, <2>3, <2>4 DEF AtLeast
<1> QED
  BY <1>7, <1>8, <1>9, <1>10 DEF RunningWell, Running

LEMMA PhasedUnexpired ==
  ASSUME Heartbeat > 0, Prompt, NEW c \in Command, Numbered(c), Phased(c)
  PROVE  Unexpired(c)
<1> SUFFICES ASSUME Outlasts(role[c]), stage[c] \in Living PROVE AtLeast(c, clock + 1)
  BY DEF Unexpired
<1>0. /\ TypeOK /\ role[c] \in Role /\ Ttl \in Nat /\ Heartbeat \in Nat /\ PollLimit \in Nat
      /\ \A v \in Served : LeaseOf(v, c) => v.lease.until \in Nat
  BY PhaseTyped DEF Prompt, Inv, TypeOK
<1>1. Ttl > 3
  <2>1. Ttl > Heartbeat + 2 + PollLimit + Records[role[c]] /\ Records[role[c]] \in Nat
    BY <1>0, OutlastsMore
  <2> QED
    BY <1>0, <2>1
<1>2. PICK T \in Nat, n \in Nat, b \in Nat : T = clock /\ n = Op(c).now /\ b = Op(c).began
  BY <1>0, PhaseTyped
<1>3. Op(c).step \in Step
  BY <1>0, PhaseTyped
<1>4. ASSUME NoLeaseOf(c) PROVE AtLeast(c, clock + 1)
  BY <1>4 DEF NoLeaseOf, AtLeast
<1>5. ASSUME NEW l, OnlyLease(c, l), Gone(c, l) PROVE AtLeast(c, clock + 1)
  BY <1>5 DEF OnlyLease, Gone, AtLeast
<1>6. ASSUME NEW l, NEW t \in Nat, Waited(c, l, t) PROVE AtLeast(c, clock + 1) \/ T <= t + 1
  <2>1. AtLeast(c, clock + 1) \/ T = t \/ T = t + 1
    BY <1>2, <1>5, <1>6 DEF Waited
  <2> QED
    BY <2>1
<1>7. <<c, "operation">> \in Fiber /\ <<c, "operation">>[1] = c
  BY FiberTyped
<1>8. CASE stage[c] \in {"new", "released"}
  BY <1>4, <1>8 DEF Phased, Bare
<1>9. CASE stage[c] = "acquiring"
  <2>1. CASE Op(c).kind = "release" \/ Op(c).step # "confirm"
    BY <1>4, <1>9, <2>1 DEF Phased, Acquiring
  <2>2. CASE Op(c).kind # "release" /\ Op(c).step = "confirm"
    <3>1. /\ OnlyLease(c, Op(c).next.lease) /\ Waited(c, Op(c).next.lease, b) /\ b = n
          /\ Op(c).kind \in {"create", "acquire"}
      BY <1>2, <1>9, <2>2 DEF Phased, Acquiring
    <3>2. Op(c).next.lease = NewLease(<<c, "operation">>)
      BY <1>7, <2>2, <3>1 DEF Numbered, CallNumbered, Leasing, Op
    <3>3. Op(c).next.lease.until = n + Ttl
      BY <1>2, <3>2 DEF NewLease, Op
    <3>4. CASE T <= b + 1
      <4>1. n + Ttl >= T + 1
        BY <1>0, <1>1, <3>1, <3>4
      <4> QED
        BY <1>2, <3>1, <3>3, <4>1 DEF AtLeast, OnlyLease
    <3> QED
      BY <1>6, <3>1, <3>4
  <2> QED
    BY <2>1, <2>2
<1>10. CASE stage[c] = "fencing"
  <2>1. CASE Op(c).step = "idle"
    <3>1. PICK h : h = held[c].lease
      OBVIOUS
    <3>2. OnlyLease(c, h) /\ h.until >= T + Ttl - 1
      BY <1>2, <1>10, <2>1, <3>1 DEF Phased, Fencing
    <3>3. \A v \in Served : LeaseOf(v, c) => v.lease.until \in Nat /\ v.lease.until >= T + Ttl - 1
      BY <1>0, <3>2 DEF OnlyLease
    <3> QED
      BY <1>0, <1>1, <1>2, <3>3 DEF AtLeast
  <2>2. CASE Op(c).step = "read"
    <3>1. PICK h : h = Op(c).from.lease
      OBVIOUS
    <3>2. OnlyLease(c, h) /\ h.until >= n + Ttl - 1 /\ Waited(c, h, n)
      BY <1>2, <1>10, <2>2, <3>1 DEF Phased, Fencing
    <3>3. \A v \in Served : LeaseOf(v, c) => v.lease.until \in Nat /\ v.lease.until >= n + Ttl - 1
      BY <1>0, <3>2 DEF OnlyLease
    <3>4. CASE T <= n + 1
      BY <1>0, <1>1, <1>2, <3>3, <3>4 DEF AtLeast
    <3> QED
      BY <1>6, <3>2, <3>4
  <2>3. CASE Op(c).step = "write"
    <3>1. T <= n + 1 /\ AtLeast(c, n + Ttl - 1)
      BY <1>2, <1>10, <2>3 DEF Phased, Fencing
    <3>2. n + Ttl - 1 >= T + 1
      BY <1>0, <1>1, <3>1
    <3> QED
      BY <1>0, <1>2, <3>1, <3>2 DEF AtLeast
  <2>4. CASE Op(c).step = "confirm"
    <3>1. b <= n + 1 /\ AtLeast(c, n + Ttl - 1) /\ Waited(c, Op(c).next.lease, b)
      BY <1>2, <1>10, <2>4 DEF Phased, Fencing
    <3>2. CASE T <= b + 1
      <4>1. n + Ttl - 1 >= T + 1
        BY <1>0, <1>1, <3>1, <3>2
      <4> QED
        BY <1>0, <1>2, <3>1, <4>1 DEF AtLeast
    <3> QED
      BY <1>6, <3>1, <3>2
  <2> QED
    BY <1>3, <2>1, <2>2, <2>3, <2>4 DEF Step
<1>11. CASE stage[c] = "running"
  BY <1>11, RunningUnexpired DEF Phased, Running
<1> QED
  BY <1>8, <1>9, <1>10, <1>11 DEF Living

-----------------------------------------------------------------------------
(* No receipt says that a living command was interrupted *)

\* No entry of the history, no receipt anywhere, says that c was interrupted.
Unmarked(h, c) == \A i \in DOMAIN h : h[i] # [by |-> c, outcome |-> "interrupted"]
Tidy(c) == \A r \in Receipts : Unmarked(r.history, c)

LEMMA LogUnmarked ==
  ASSUME NEW h \in Seq(Entry), NEW c \in Command, Unmarked(h, c),
         NEW d \in Command, NEW o \in {"open", "completed"}
  PROVE  Unmarked(Log(h, d, o), c)
<1> DEFINE e == [by |-> d, outcome |-> o]
           g == Append(h, e)
           l == LastEntries(g)
<1>1. e \in Entry /\ e # [by |-> c, outcome |-> "interrupted"]
  <2>1. e.outcome # "interrupted"
    OBVIOUS
  <2> QED
    BY <2>1, EntryTyped DEF Outcome
<1> HIDE DEF e
<1>2. /\ g \in Seq(Entry) /\ g # << >> /\ Len(g) = Len(h) + 1 /\ g[Len(g)] = e
      /\ \A j \in DOMAIN g : j # Len(g) => (j \in DOMAIN h /\ g[j] = h[j])
  BY <1>1
<1> HIDE DEF g
<1>3. Unmarked(g, c)
  BY <1>1, <1>2 DEF Unmarked
<1>4. /\ l[Len(l)] = g[Len(g)]
      /\ \A i \in DOMAIN l : i # Len(l) => \E j \in DOMAIN g : l[i] = g[j]
  BY <1>2, LastEntriesOf
<1> HIDE DEF l
<1>5. Unmarked(l, c)
  BY <1>2, <1>3, <1>4 DEF Unmarked
<1> QED
  BY <1>5 DEF Log, l, g, e

LEMMA CloseUnmarked ==
  ASSUME NEW h \in Seq(Entry), NEW c \in Command, Unmarked(h, c), NEW d, NEW o,
         o = "interrupted" => d # c
  PROVE  Unmarked(CloseHistory(h, d, o), c)
<1> DEFINE e == [by |-> d, outcome |-> o]
<1>1. e # [by |-> c, outcome |-> "interrupted"]
  <2>1. e.by = d /\ e.outcome = o
    OBVIOUS
  <2> QED
    BY <2>1
<1>2. CASE h # << >>
  <2>1. Unmarked([h EXCEPT ![Len(h)] = e], c)
    BY <1>1 DEF Unmarked
  <2> QED
    BY <2>1 DEF CloseHistory
<1> QED
  BY <1>2 DEF CloseHistory

\* Receipts that are copied stay as they are.
LEMMA TidyStays ==
  ASSUME TypeOK, NEW c \in Command, Tidy(c),
         \A v \in Served' : v \in Receipts \cup {NoReceipt},
         \A d \in Command : held'[d] \in Receipts \cup {NoReceipt},
         \A f \in Fiber : \/ call'[f].next \in Receipts \cup {NoReceipt}
                          \/ Unmarked(call'[f].next.history, c)
  PROVE  Tidy(c)'
BY DEF Tidy, Receipts

LEMMA Copied ==
  /\ \A v \in Served : v \in Receipts \cup {NoReceipt}
  /\ \A d \in Command : held[d] \in Receipts \cup {NoReceipt}
  /\ \A f \in Fiber : call[f].next \in Receipts \cup {NoReceipt}
BY DEF Receipts

LEMMA ServedCopied ==
  ASSUME NEW v \in Receipts \cup {NoReceipt}, Write(v) \/ (kv' = kv /\ replaced' \subseteq replaced)
  PROVE  \A w \in Served' : w \in Receipts \cup {NoReceipt}
<1>1. ASSUME NEW w \in Served' PROVE w = v \/ w \in Served
  <2>1. CASE w = kv'
    BY <2>1 DEF Write, Served
  <2>2. ASSUME NEW x \in replaced', w = x.value PROVE w \in Served
    BY <2>2 DEF Write, Served
  <2> QED
    BY <2>1, <2>2 DEF Served
<1> QED
  BY <1>1, Copied

LEMMA PrepareTidy ==
  ASSUME TypeOK, NEW c \in Command, Tidy(c), NEW f \in Fiber, NEW i, NEW l, NEW p, NEW h,
         Prepare(f, i, l, p, h), Unmarked(h, c)
  PROVE  Tidy(c)'
<1> DEFINE r == [id |-> i, lease |-> l, updatedAt |-> call[f].stamp, progress |-> p, history |-> h]
<1>1. Proceed(f, "write", r) /\ UNCHANGED <<kv, replaced, held>> /\ r.history = h
  BY DEF Prepare
<1> HIDE DEF r
<1>2. \A g \in Fiber : call'[g].next = r \/ call'[g] = call[g]
  BY <1>1 DEF Proceed, TypeOK
<1>3. NoReceipt \in Receipts \cup {NoReceipt}
  OBVIOUS
<1> QED
  BY <1>1, <1>2, <1>3, Copied, ServedCopied, TidyStays

LEMMA StopTidy ==
  ASSUME TypeOK, NEW c \in Command, Tidy(c), NEW b \in Command, NEW s, Stop(b, s),
         Write(NoReceipt) \/ UNCHANGED <<kv, replaced>>
  PROVE  Tidy(c)'
<1>1. \A d \in Command : held'[d] = NoReceipt \/ held'[d] = held[d]
  BY DEF Stop, TypeOK
<1>2. \A g \in Fiber : call'[g].next = NoReceipt \/ call'[g] = call[g]
  BY IdleTyped DEF Stop
<1>3. NoReceipt \in Receipts \cup {NoReceipt}
  OBVIOUS
<1> QED
  BY <1>1, <1>2, <1>3, Copied, ServedCopied, TidyStays

LEMMA QuietTidy ==
  ASSUME TypeOK, NEW c \in Command, Tidy(c), kv' = kv, replaced' \subseteq replaced,
         \A d \in Command : held'[d] \in Receipts \cup {NoReceipt},
         \A g \in Fiber : call'[g].next = NoReceipt \/ call'[g] = call[g]
  PROVE  Tidy(c)'
<1>1. NoReceipt \in Receipts \cup {NoReceipt}
  OBVIOUS
<1> QED
  BY <1>1, Copied, ServedCopied, TidyStays

LEMMA DropTidy ==
  ASSUME TypeOK, NEW c \in Command, Tidy(c), NEW f \in Fiber, Drop(f),
         Write(NoReceipt) \/ UNCHANGED <<kv, replaced>>
  PROVE  Tidy(c)'
<1>1. CASE GoesOn(f)
  <2>1. held' = held /\ call' = [call EXCEPT ![f] = Idle]
    BY <1>1 DEF GoesOn
  <2>2. \A g \in Fiber : call'[g].next = NoReceipt \/ call'[g] = call[g]
    BY <2>1, IdleTyped DEF TypeOK
  <2>3. NoReceipt \in Receipts \cup {NoReceipt}
    OBVIOUS
  <2> QED
    BY <2>1, <2>2, <2>3, Copied, ServedCopied, TidyStays
<1>2. CASE Stop(f[1], "ended")
  BY <1>2, FiberTyped, StopTidy
<1> QED
  BY <1>1, <1>2, DropMeans

LEMMA FailTidy ==
  ASSUME TypeOK, NEW c \in Command, Tidy(c), NEW f \in Fiber, Fail(f)
  PROVE  Tidy(c)'
BY DropTidy DEF Fail

LEMMA OpenTidy ==
  ASSUME TypeOK, NEW c \in Command, Tidy(c), NEW f \in Fiber, NEW k, NEW r, Open(f, k, r),
         UNCHANGED <<kv, replaced, held>>
  PROVE  Tidy(c)'
<1>1. \A g \in Fiber : call'[g].next = NoReceipt \/ call'[g] = call[g]
  BY DEF Open, TypeOK
<1> QED
  BY <1>1, Copied, QuietTidy

\* What a read of a receipt writes: only the release of an expired lease marks a
\* command as interrupted, and that lease is not the command's.
LEMMA ReadTidy ==
  ASSUME Inv, NEW c \in Command, Tidy(c), AtLeast(c, clock + 1), NEW f \in Fiber, call[f].now <= clock,
         NEW v \in Served,
         ReadToCreate(f, v) \/ ReadToAcquire(f, v) \/ ReadToRelease(f, v) \/ ReadHeld(f, v)
  PROVE  Tidy(c)'
<1>0. /\ TypeOK /\ f[1] \in Command
      /\ v # NoReceipt => v \in Receipts /\ v.history \in Seq(Entry) /\ Unmarked(v.history, c)
  <2>1. v # NoReceipt => v \in Receipts /\ v \in Receipt
    BY Copied, ServedTyped DEF Inv
  <2> QED
    BY <2>1, FiberTyped, ReceiptTyped DEF Inv, Tidy
<1>1. CASE Fail(f)
  BY <1>0, <1>1, FailTidy
<1>2. CASE ReadToCreate(f, v) /\ ~Fail(f)
  <2>1. Prepare(f, f[1], NewLease(f), {}, <<[by |-> f[1], outcome |-> "open"]>>)
    BY <1>2 DEF ReadToCreate
  <2>2. Unmarked(<<[by |-> f[1], outcome |-> "open"]>>, c)
    BY DEF Unmarked
  <2> QED
    BY <1>0, <2>1, <2>2, PrepareTidy
<1>3. CASE ReadToAcquire(f, v) /\ ~Fail(f)
  <2>1. v # NoReceipt /\ Prepare(f, v.id, NewLease(f), v.progress, Log(v.history, f[1], "open"))
    BY <1>3 DEF ReadToAcquire
  <2>2. Unmarked(Log(v.history, f[1], "open"), c)
    BY <1>0, <2>1, LogUnmarked
  <2> QED
    BY <1>0, <2>1, <2>2, PrepareTidy
<1>4. CASE ReadToRelease(f, v) /\ ~Fail(f)
  <2>1. CASE v # NoReceipt /\ v.lease = NoLease
    <3>1. UNCHANGED <<kv, replaced, held>> /\ call' = [call EXCEPT ![f] = Idle]
      BY <1>4, <2>1 DEF ReadToRelease
    <3>2. \A g \in Fiber : call'[g].next = NoReceipt \/ call'[g] = call[g]
      BY <1>0, <3>1, IdleTyped DEF TypeOK
    <3> QED
      BY <1>0, <3>1, <3>2, Copied, QuietTidy
  <2>2. CASE ~(v # NoReceipt /\ v.lease = NoLease)
    <3> DEFINE h == CloseHistory(v.history, v.lease.by, "interrupted")
    <3>1. /\ v # NoReceipt /\ v.lease # NoLease /\ v.lease.until <= call[f].now
          /\ Prepare(f, v.id, NoLease, v.progress, Log(h, f[1], "completed"))
      BY <1>4, <2>2 DEF ReadToRelease
    <3>2. v.lease.by # c
      <4>1. v.lease \in Lease /\ clock \in Nat /\ call[f].now \in Nat
        BY <1>0, <3>1, ServedTyped, ReceiptTyped, CallTyped DEF TypeOK
      <4>2. v.lease.until \in Nat
        BY <4>1, LeaseTyped
      <4>3. LeaseOf(v, c) => v.lease.until >= clock + 1
        BY DEF AtLeast
      <4> QED
        BY <3>1, <4>1, <4>2, <4>3 DEF LeaseOf
    <3>3. Unmarked(h, c)
      BY <1>0, <3>1, <3>2, CloseUnmarked
    <3>4. h \in Seq(Entry)
      <4>1. v.lease.by \in Command \cup {NoCommand}
        BY <1>0, <3>1, ServedTyped, ReceiptTyped, LeaseTyped
      <4> QED
        BY <1>0, <3>1, <4>1, CloseTyped DEF Outcome
    <3> HIDE DEF h
    <3>5. Unmarked(Log(h, f[1], "completed"), c)
      BY <1>0, <3>3, <3>4, LogUnmarked
    <3> QED
      BY <1>0, <3>1, <3>5, PrepareTidy
  <2> QED
    BY <2>1, <2>2
<1>5. CASE ReadHeld(f, v) /\ ~Fail(f)
  <2>1. v # NoReceipt
    BY <1>5 DEF ReadHeld, LeaseIsMine
  <2>2. Unmarked(CloseHistory(v.history, f[1], "completed"), c)
    <3>1. "completed" # "interrupted"
      OBVIOUS
    <3> QED
      BY <1>0, <2>1, <3>1, CloseUnmarked
  <2>3. PICK i, l, p, h : /\ Prepare(f, i, l, p, h)
                          /\ h = v.history \/ h = CloseHistory(v.history, f[1], "completed")
    BY <1>5 DEF ReadHeld
  <2> QED
    BY <1>0, <2>1, <2>2, <2>3, PrepareTidy
<1> QED
  BY <1>1, <1>2, <1>3, <1>4, <1>5

LEMMA ActsTidy ==
  ASSUME Inv, NEW c \in Command, Tidy(c), AtLeast(c, clock + 1),
         \A f \in Fiber : call[f].now <= clock, NEW b \in Command, Acts(b)
  PROVE  Tidy(c)'
<1>0. TypeOK /\ call \in [Fiber -> Call]
  BY DEF Inv, TypeOK
<1>1. CASE \/ \E k \in {"create", "acquire", "release"} : Begin(b, k)
           \/ Fence(b) \/ Beat(b) \/ \E k \in {"record", "finish", "delete"} : Work(b, k)
  <2>1. PICK f, k, r : f \in Fiber /\ Open(f, k, r) /\ UNCHANGED <<kv, replaced, held>>
    BY <1>1, FiberTyped DEF Begin, Fence, Beat, Work
  <2> QED
    BY <1>0, <2>1, OpenTidy
<1>2. CASE Crash(b)
  BY <1>0, <1>2, StopTidy DEF Crash
<1>3. ASSUME NEW f \in Fiber, NEW v \in Served,
             ReadToCreate(f, v) \/ ReadToAcquire(f, v) \/ ReadToRelease(f, v) \/ ReadHeld(f, v)
      PROVE  Tidy(c)'
  BY <1>3, ReadTidy
<1>4. ASSUME NEW f \in Fiber, NEW v \in Served, ConfirmLease(f, v) PROVE Tidy(c)'
  <2>1. CASE Fail(f)
    BY <1>0, <2>1, FailTidy
  <2>2. CASE ~Fail(f)
    <3>1. /\ held' = [held EXCEPT ![f[1]] = v] /\ call' = [call EXCEPT ![f] = Idle]
          /\ UNCHANGED <<kv, replaced>>
      BY <1>4, <2>2 DEF ConfirmLease
    <3>2. \A g \in Fiber : call'[g].next = NoReceipt \/ call'[g] = call[g]
      BY <1>0, <3>1, IdleTyped
    <3>3. \A d \in Command : held'[d] = v \/ held'[d] = held[d]
      BY <1>0, <3>1 DEF TypeOK
    <3> QED
      BY <1>0, <3>1, <3>2, <3>3, Copied, QuietTidy
  <2> QED
    BY <2>1, <2>2
<1>5. ASSUME NEW f \in Fiber, NEW v \in Served, ConfirmReleased(f, v) PROVE Tidy(c)'
  <2>1. CASE Fail(f)
    BY <1>0, <2>1, FailTidy
  <2>2. CASE ~Fail(f)
    <3>1. PICK s : Stop(f[1], s) /\ UNCHANGED <<kv, replaced>>
      BY <1>5, <2>2 DEF ConfirmReleased
    <3> QED
      BY <1>0, <3>1, FiberTyped, StopTidy
  <2> QED
    BY <2>1, <2>2
<1>6. ASSUME NEW f \in Fiber, Put(f) PROVE Tidy(c)'
  <2>1. /\ Write(call[f].next) /\ held' = held
        /\ \A g \in Fiber : call'[g].next = call[g].next
    BY <1>0, <1>6 DEF Put, Proceed
  <2>2. call[f].next \in Receipts \cup {NoReceipt}
    BY Copied
  <2> QED
    BY <1>0, <2>1, <2>2, Copied, ServedCopied, TidyStays
<1>7. ASSUME NEW f \in Fiber, Remove(f) PROVE Tidy(c)'
  BY <1>0, <1>7, FiberTyped, StopTidy, DropTidy DEF Remove
<1>8. ASSUME NEW f \in Fiber, RequestFails(f) PROVE Tidy(c)'
  BY <1>0, <1>8, FailTidy DEF RequestFails
<1> QED
  BY <1>1, <1>2, <1>3, <1>4, <1>5, <1>6, <1>7, <1>8 DEF Acts

\* A command that is over does not come back, and stays what it was.
LEMMA LivingWas ==
  ASSUME Prompt, NEW c \in Command, NEW b \in Command, Acts(b), stage'[c] \in Living
  PROVE  stage[c] \in Living /\ role' = role
<1>0. Inv /\ TypeOK /\ stage \in [Command -> Stage]
  BY DEF Prompt, Inv, TypeOK
<1>1. CASE b # c
  BY <1>1, OthersSame DEF SameFor
<1>2. CASE b = c
  <2>1. CASE \/ \E k \in {"create", "acquire", "release"} : Begin(c, k)
             \/ Fence(c) \/ Beat(c) \/ \E k \in {"record", "finish", "delete"} : Work(c, k)
    BY <2>1 DEF Begin, Fence, Beat, Work, Living
  <2>2. CASE Stops(c)
    <3>1. PICK s \in {"ended", "settled", "released"} :
             Stop(c, s) /\ (s = "released" => Op(c).kind = "release") /\ role' = role
      BY <2>2 DEF Stops
    <3>2. s = "released"
      BY <1>0, <3>1 DEF Stop, Living
    <3>3. stage[c] = "acquiring"
      BY <1>0, <3>1, <3>2, FiberTyped DEF Prompt, Mine, CallFits, Op
    <3> QED
      BY <3>1, <3>3 DEF Living
  <2>3. ASSUME NEW f \in Fiber, f[1] = c, Steps(f) PROVE stage[c] \in Living /\ role' = role
    <3>1. stage[c] \in Living
      BY <2>3, WhereSteps DEF Living
    <3>2. role' = role
      BY <2>3 DEF Steps, Drops, Put, Confirms, Writes
    <3> QED
      BY <3>1, <3>2
  <2> QED
    BY <1>2, <2>1, <2>2, <2>3, Forms
<1> QED
  BY <1>1, <1>2

LEMMA SparedMeans ==
  ASSUME NEW c \in Command
  PROVE  Spared(c) <=> (stage[c] \in Living => Tidy(c))
BY DEF Spared, Tidy, Unmarked

LEMMA TidyAtFirst == ASSUME Init, NEW c \in Command PROVE Tidy(c)
<1>1. PICK s \in Scenarios : kv = s.receipt
  BY DEF Init
<1>2. kv # NoReceipt => Earlier(kv)
  BY <1>1, LeaseConstants
<1>3. \A r \in Receipts : r = kv /\ kv # NoReceipt
  BY IdleTyped DEF Init, Receipts, Served
<1>4. NoCommand # c
  BY LeaseConstants
<1>5. kv # NoReceipt => Unmarked(kv.history, c)
  <2> SUFFICES ASSUME kv # NoReceipt, NEW i \in DOMAIN kv.history,
                      kv.history[i] = [by |-> c, outcome |-> "interrupted"]
               PROVE  FALSE
    BY DEF Unmarked
  <2>1. kv.history[i].by = c
    OBVIOUS
  <2> QED
    BY <1>2, <1>4, <2>1 DEF Earlier
<1> QED
  BY <1>3, <1>5 DEF Tidy

\* No receipt ever says that repair freed the lease of a command that has not
\* failed and is not over, when the leases of its role outlast a slow renewal.
THEOREM LivingAlwaysSpared ==
  ASSUME \A s \in Scenarios : s.staleness = 0, Heartbeat > 0
  PROVE  Spec => [](\A c \in Command : Outlasts(role[c]) => Spared(c))
<1> DEFINE N == \A c \in Command : Numbered(c)
           P == \A c \in Command : Phased(c)
           S == \A c \in Command : Outlasts(role[c]) => Spared(c)
<1>1. Init => S
  BY TidyAtFirst, SparedMeans
<1>2. Prompt /\ N /\ P /\ S /\ [Next]_vars => S'
  <2> SUFFICES ASSUME Prompt, N, P, S, [Next]_vars, NEW c \in Command, Outlasts(role[c])',
                      stage'[c] \in Living
               PROVE  Tidy(c)'
    BY SparedMeans DEF Spared, Tidy, Unmarked
  <2>0. Inv /\ TypeOK
    BY DEF Prompt, Inv
  <2>1. CASE Tick \/ UNCHANGED vars
    <3>1. /\ UNCHANGED <<kv, held, call, stage, role>> /\ replaced' \subseteq replaced
      BY <2>1 DEF Tick, vars
    <3>2. Tidy(c)
      BY <3>1, SparedMeans DEF Outlasts, Until, Beats
    <3> QED
      BY <2>0, <3>1, <3>2, Copied, QuietTidy
  <2>2. ASSUME NEW b \in Command, Acts(b) PROVE Tidy(c)'
    <3>1. stage[c] \in Living /\ role' = role
      BY <2>2, LivingWas
    <3>2. Outlasts(role[c])
      BY <3>1 DEF Outlasts, Until, Beats
    <3>3. Tidy(c) /\ AtLeast(c, clock + 1)
      BY <3>1, <3>2, SparedMeans, PhasedUnexpired DEF Unexpired
    <3>4. \A f \in Fiber : call[f].now <= clock
      BY FiberTyped DEF Numbered, CallNumbered
    <3> QED
      BY <2>0, <2>2, <3>3, <3>4, ActsTidy
  <2> QED
    BY <2>1, <2>2, NextActs
<1>3. (Spec => []N) /\ (Spec => []P)
  BY NumberedAlways, PhasedAlways
<1> HIDE DEF N, P, S
<1>4. Spec => []S
  BY <1>1, <1>2, <1>3, PromptAlways, PTL DEF Spec
<1> QED
  BY <1>4 DEF S

\* The times of the code in minutes: a lease outlasts a command that records one
\* update, as an upgrade or a rollback does.
LEMMA OneRecordOutlasted ==
  ASSUME Ttl = 15, Heartbeat = 5, PollLimit = 2, NEW r \in Role, Records[r] <= 1
  PROVE  Outlasts(r)
<1>1. Records[r] \in Nat
  BY LeaseConstants
<1>2. Records[r] = 0 \/ Records[r] = 1
  BY <1>1
<1>3. Beats(0) = 0 /\ Beats(1) = 5
  BY DEF Beats
<1>4. Until(0, 0) = 8 /\ Until(0, 1) = 3
  BY <1>3 DEF Until
<1> QED
  BY <1>2, <1>4 DEF Outlasts
=============================================================================
