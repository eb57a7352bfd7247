--------------------------- MODULE ArtifactQuota ---------------------------
(***************************************************************************)
(* artifact_quota.py and the upload unit of compat.py: uploads of several  *)
(* processes reserve live bytes in one database, write the file, and       *)
(* finalise the reservation; a one-shot read takes the file and releases   *)
(* it. The ArtifactStore is external. Artifact n is the one of the n-th    *)
(* reservation, so its token and its id are the same number.               *)
(***************************************************************************)
EXTENDS Naturals, FiniteSets, FiniteSetsExt

CONSTANTS
    Uploaders,      \* upload requests, each in a gateway process
    Principals,
    Sizes,          \* body sizes
    Cap,            \* the store's max_bytes
    PrincipalLimit, \* live bytes of one principal
    GlobalLimit,    \* live bytes of all
    Ttl,            \* life of a receipt
    Grace,          \* life of an open reservation (3600 s, at least Ttl + 60 s)
    MaxStores,      \* bound on the reservations
    MaxNow,         \* bound on the clock
    Faults          \* whether processes crash and the quota database fails

Shape ==
    /\ {Cap, PrincipalLimit, GlobalLimit, Ttl, Grace, MaxStores, MaxNow} \subseteq Nat
    /\ Sizes \subseteq Nat /\ Faults \in BOOLEAN /\ Ttl < Grace

VARIABLES
    now,
    rows,      \* rows[n]: the reservation, or None
    disk,      \* disk[n]: the file, or None
    up,        \* up[w]: the upload's place and its reservation
    issued,    \* reservations made so far
    receipts,  \* artifacts whose receipt was returned
    reading,   \* reads between the file and the release
    returned,  \* reads that returned the bytes
    spent      \* artifacts taken from the store by a read

vars == <<now, rows, disk, up, issued, receipts, reading, returned, spent>>

Ids == 1..MaxStores
None == [by |-> "none", size |-> 0, exp |-> 0, final |-> FALSE]
Held(table) == {n \in Ids : table[n] # None}
LiveIn(table) == {n \in Held(table) : table[n].exp > now}
Bytes(table, ids) == MapThenSumSet(LAMBDA n : table[n].size, ids)
Idle == [pc |-> "idle", n |-> 0]

\* A reservation or a file: the body that was stored passed the cap.
Row == [by : Principals, size : 1..Cap, exp : Nat, final : BOOLEAN]

\* Types, and each open upload has a reservation of its own.
TypeOK ==
    /\ now \in 0..MaxNow /\ issued \in 0..MaxStores
    /\ rows \in [Ids -> Row \cup {None}] /\ disk \in [Ids -> Row \cup {None}]
    /\ up \in [Uploaders -> [pc : {"idle", "reserved", "stored"}, n : {0} \cup Ids]]
    /\ \A v, w \in Uploaders : v # w /\ up[v].n = up[w].n => up[v] = Idle
    /\ receipts \subseteq Ids /\ reading \subseteq spent /\ spent \subseteq receipts
    /\ returned \subseteq spent

Init ==
    /\ now = 0 /\ rows = [n \in Ids |-> None] /\ disk = rows
    /\ up = [w \in Uploaders |-> Idle] /\ issued = 0
    /\ receipts = {} /\ reading = {} /\ returned = {} /\ spent = {}

-----------------------------------------------------------------------------
\* The body is read up to one byte past the cap: too long and empty are
\* refused.
Accepted(size) == size \in 1..Cap

\* The quota of the principal and the one of all.
Fits(table, p, size) ==
    /\ Bytes(table, {n \in Held(table) : table[n].by = p}) + size <= PrincipalLimit
    /\ Bytes(table, Held(table)) + size <= GlobalLimit

\* DELETE ... WHERE expires_at <= now.
Purged(table) == [n \in Ids |-> IF n \in LiveIn(table) THEN table[n] ELSE None]

\* Mutant: an open reservation lives as long as a receipt would from now on.
OpenUntil_Ttl == now + Ttl - 1

OpenUntil == now + Grace

\* reserve(), one immediate transaction; a refusal rolls back.
Reserve(w, p, size) ==
    LET n == issued + 1
        left == Purged(rows)
    IN
    /\ up[w] = Idle /\ issued < MaxStores /\ Accepted(size) /\ Fits(left, p, size)
    /\ rows' = [left EXCEPT ![n] = [by |-> p, size |-> size, exp |-> OpenUntil, final |-> FALSE]]
    /\ up' = [up EXCEPT ![w] = [pc |-> "reserved", n |-> n]] /\ issued' = n
    /\ UNCHANGED <<now, disk, receipts, reading, returned, spent>>

\* ArtifactStore.store wrote the file.
Stores(w) ==
    LET n == up[w].n IN
    /\ up[w].pc = "reserved" /\ rows[n] # None
    /\ disk' = [disk EXCEPT ![n] = [by |-> rows[n].by, size |-> rows[n].size, exp |-> now + Ttl, final |-> TRUE]]
    /\ up' = [up EXCEPT ![w].pc = "stored"]
    /\ UNCHANGED <<now, rows, issued, receipts, reading, returned, spent>>

\* cancel(), which may itself fail.
Cancelled(n) == \/ rows' = [rows EXCEPT ![n] = None]
                \/ Faults /\ UNCHANGED rows

\* ArtifactStore.store raised.
StoreFails(w) ==
    /\ up[w].pc = "reserved" /\ Cancelled(up[w].n) /\ up' = [up EXCEPT ![w] = Idle]
    /\ UNCHANGED <<now, disk, issued, receipts, reading, returned, spent>>

Open(n) == rows[n] # None /\ ~rows[n].final

\* finalize(): the row gets the artifact and its expiry; the receipt goes out.
Finalizes(w) ==
    LET n == up[w].n IN
    /\ up[w].pc = "stored" /\ Open(n)
    /\ rows' = [rows EXCEPT ![n] = [@ EXCEPT !.exp = disk[n].exp, !.final = TRUE]]
    /\ receipts' = receipts \cup {n} /\ up' = [up EXCEPT ![w] = Idle]
    /\ UNCHANGED <<now, disk, issued, reading, returned, spent>>

\* The reservation was lost or the database failed: the file is discarded.
FinalizeFails(w) ==
    LET n == up[w].n IN
    /\ up[w].pc = "stored" /\ (Faults \/ ~Open(n))
    /\ disk' = [disk EXCEPT ![n] = None] /\ Cancelled(n) /\ up' = [up EXCEPT ![w] = Idle]
    /\ UNCHANGED <<now, issued, receipts, reading, returned, spent>>

Crash(w) ==
    /\ Faults /\ up[w] # Idle /\ up' = [up EXCEPT ![w] = Idle]
    /\ UNCHANGED <<now, rows, disk, issued, receipts, reading, returned, spent>>

-----------------------------------------------------------------------------
\* ArtifactStore.load: the file is taken, once.
Loads(n) ==
    /\ n \in receipts \cap LiveIn(disk) /\ disk' = [disk EXCEPT ![n] = None]
    /\ reading' = reading \cup {n} /\ spent' = spent \cup {n}
    /\ UNCHANGED <<now, rows, up, issued, receipts, returned>>

\* release(): the row of this very artifact.
Released(n) == [rows EXCEPT ![n] = IF @.final THEN None ELSE @]

Returns(n) ==
    /\ n \in reading /\ rows' = Released(n) /\ reading' = reading \ {n} /\ returned' = returned \cup {n}
    /\ UNCHANGED <<now, disk, up, issued, receipts, spent>>

\* release() raised, or the process died: the read fails.
ReadFails(n) ==
    /\ Faults /\ n \in reading /\ reading' = reading \ {n}
    /\ UNCHANGED <<now, rows, disk, up, issued, receipts, returned, spent>>

\* prune_expired with expire().
Prune ==
    /\ disk' = Purged(disk) /\ rows' = Purged(rows) /\ <<disk, rows>> # <<disk', rows'>>
    /\ UNCHANGED <<now, up, issued, receipts, reading, returned, spent>>

\* The write of a body that is in memory takes less than the margin between
\* the life of an open reservation and that of a receipt.
Prompt == \A w \in Uploaders : up[w].pc = "reserved" => now + 1 + Ttl <= rows[up[w].n].exp

Tick ==
    /\ Prompt /\ now < MaxNow /\ now' = now + 1
    /\ UNCHANGED <<rows, disk, up, issued, receipts, reading, returned, spent>>

Next ==
    \/ \E w \in Uploaders : \/ \E p \in Principals, size \in Sizes : Reserve(w, p, size)
                            \/ Stores(w) \/ StoreFails(w) \/ Finalizes(w) \/ FinalizeFails(w) \/ Crash(w)
    \/ \E n \in Ids : Loads(n) \/ Returns(n) \/ ReadFails(n)
    \/ Prune \/ Tick

Spec == Init /\ [][Next]_vars

-----------------------------------------------------------------------------
\* Every live file is covered by a reservation of its size, whatever crashed
\* between the reservation and the receipt.
LiveIsReserved == \A n \in LiveIn(disk) : n \in LiveIn(rows) /\ rows[n].size = disk[n].size

\* The live files of a principal, and of all, are within the quota.
WithinQuota ==
    /\ Bytes(disk, LiveIn(disk)) <= GlobalLimit
    /\ \A p \in Principals : Bytes(disk, {n \in LiveIn(disk) : disk[n].by = p}) <= PrincipalLimit

\* Without faults the quota leaks nothing: a finalised reservation has its
\* file, or a read that is about to release it, or has expired.
NoLeak == \A n \in LiveIn(rows) : rows[n].final => n \in Held(disk) \cup reading

\* Together: what is kept is charged, within the limits, and only as long.
ArtifactsCharged == LiveIsReserved /\ WithinQuota /\ (~Faults => NoLeak)

\* An artifact a read has taken is returned by that read.
TakenIsReturned == spent \subseteq returned \cup reading
=============================================================================
