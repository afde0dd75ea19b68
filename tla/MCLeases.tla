------------------------------ MODULE MCLeases ------------------------------
(* Small instances of Leases for TLC. *)
EXTENDS Leases, TLC

CONSTANTS c1, c2

Installed == [id |-> NoCommand, lease |-> NoLease, updatedAt |-> 0, progress |-> {},
              history |-> <<[by |-> NoCommand, outcome |-> "completed"]>>]

\* Upgrade and rollback make one update.  The single update of repair and the two or
\* three of adopt and deploy are left to the proofs and to lease_rolled_back.cfg.
ChangeRecords == [r \in Role |-> IF r = "change" THEN 1 ELSE 0]

\* The roles of the commands, in either order: Command is a symmetry set.
Two(r, s) == {roles \in [Command -> {r, s}] : \A c, d \in Command : c # d /\ r # s => roles[c] # roles[d]}
Left == [Installed EXCEPT !.lease = [by |-> NoCommand, stamp |-> 0, until |-> 0],
                          !.history = <<[by |-> NoCommand, outcome |-> "open"]>>]

\* Ticks are minutes.  A store that is stale for a minute: a release, decided on what
\* was read before, that takes the lease of a repair, for as long as it takes the repair
\* to find out; two deploys, or an upgrade and a destroy, that race.  A store that is stale for
\* seconds: three beats, the end of a lease, and a repair that waits for it.
Rivals ==
    [receipt : {Left}, role : Two("repair", "free"), staleness : {1}, ticks : {9}]
    \cup [receipt : {NoReceipt}, role : Two("install", "install"), staleness : {1}, ticks : {0}]
    \cup [receipt : {Installed}, role : Two("change", "destroy"), staleness : {1}, ticks : {0}]
    \cup [receipt : {Installed}, role : Two("change", "free"), staleness : {0}, ticks : {18}]
Alone == [receipt : {Installed}, role : [Command -> {"change"}], staleness : {0}, ticks : {7}]

\* A deploy makes three updates; two are enough to show what they do to its lease.
InstallRecords == [r \in Role |-> IF r = "install" THEN 2 ELSE 0]
RolledBack == [receipt : {NoReceipt}, role : Two("install", "free"),
               staleness : {0}, ticks : {16}]

Symmetry == Permutations(Command)
=============================================================================
