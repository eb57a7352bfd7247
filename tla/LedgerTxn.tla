----------------------------- MODULE LedgerTxn ------------------------------
(***************************************************************************)
(* The one SQLite connection of wake_ledger.db that every thread of the    *)
(* gateway shares (compat/auto_wake_store.py:open_ledger). Operations of   *)
(* the ledger (admit, release) hold LEDGER_LOCK around a transaction of two*)
(* writes. audit, chain_note, chain_fail and fault_fuse of self_wake.py    *)
(* take the lock only to fetch the connection, then write and commit on it *)
(* without the lock: their commit commits whatever the connection holds.   *)
(*                                                                         *)
(* The connection's transaction is a set of writes; commit makes it        *)
(* durable, rollback and a crash drop it. BEGIN IMMEDIATE inside an open   *)
(* transaction raises, and the context manager then rolls back.            *)
(***************************************************************************)
EXTENDS Naturals, FiniteSets

CONSTANTS
    Ops,        \* locked operations, each with a first and a second write
    Audits,     \* calls of the unlocked writers; {} with self-wake off
    MaxCrashes  \* bound on crashes, for model checking

Shape == Ops \cap Audits = {} /\ "free" \notin Ops \cup Audits /\ MaxCrashes \in Nat

VARIABLES
    op,       \* op[o]: where a locked operation stands
    audit,    \* audit[a]: where an unlocked writer stands
    lock,     \* holder of LEDGER_LOCK, "free" when none
    open,     \* whether the connection is inside a transaction
    txn,      \* writes of the open transaction
    disk,     \* committed writes
    crashes

vars == <<op, audit, lock, open, txn, disk, crashes>>

Writes == (Ops \X {1, 2}) \cup (Audits \X {1})

TypeOK ==
    /\ op \in [Ops -> {"idle", "locked", "begun", "half", "full", "done", "failed"}]
    /\ audit \in [Audits -> {"idle", "fetched", "written", "done"}]
    /\ lock \in Ops \cup {"free"}
    /\ open \in BOOLEAN /\ txn \subseteq Writes /\ disk \subseteq Writes
    /\ crashes \in Nat

Init ==
    /\ op = [o \in Ops |-> "idle"] /\ audit = [a \in Audits |-> "idle"]
    /\ lock = "free" /\ open = FALSE /\ txn = {} /\ disk = {} /\ crashes = 0

Moves(o, pc) == op' = [op EXCEPT ![o] = pc]
Commit == disk' = disk \cup txn /\ txn' = {} /\ open' = FALSE
Rollback == txn' = {} /\ open' = FALSE /\ UNCHANGED disk
Writing(x) == txn' = txn \cup {x} /\ open' = TRUE /\ UNCHANGED disk

Lock(o) ==
    /\ op[o] = "idle" /\ lock = "free"
    /\ lock' = o /\ Moves(o, "locked")
    /\ UNCHANGED <<audit, open, txn, disk, crashes>>

\* BEGIN IMMEDIATE; a transaction an audit left open makes it raise.
Begin(o) ==
    /\ op[o] = "locked"
    /\ IF open THEN Rollback /\ Moves(o, "failed") /\ lock' = "free"
       ELSE open' = TRUE /\ Moves(o, "begun") /\ UNCHANGED <<txn, disk, lock>>
    /\ UNCHANGED <<audit, crashes>>

\* Mutant: the first write is committed on its own.
First_Commits(o) ==
    /\ op[o] = "begun"
    /\ disk' = disk \cup txn \cup {<<o, 1>>} /\ txn' = {} /\ open' = FALSE
    /\ Moves(o, "half")
    /\ UNCHANGED <<audit, lock, crashes>>

First(o) ==
    /\ op[o] = "begun"
    /\ Writing(<<o, 1>>) /\ Moves(o, "half")
    /\ UNCHANGED <<audit, lock, crashes>>

Second(o) ==
    /\ op[o] = "half"
    /\ Writing(<<o, 2>>) /\ Moves(o, "full")
    /\ UNCHANGED <<audit, lock, crashes>>

Finish(o) ==
    /\ op[o] = "full"
    /\ Commit /\ Moves(o, "done") /\ lock' = "free"
    /\ UNCHANGED <<audit, crashes>>

\* A statement raises (busy, locked, disk full): the context manager rolls
\* the connection back.
Fails(o) ==
    /\ op[o] \in {"begun", "half", "full"}
    /\ Rollback /\ Moves(o, "failed") /\ lock' = "free"
    /\ UNCHANGED <<audit, crashes>>

\* open_ledger: the lock is held only while the connection is fetched.
AuditFetches(a) ==
    /\ audit[a] = "idle" /\ lock = "free"
    /\ audit' = [audit EXCEPT ![a] = "fetched"]
    /\ UNCHANGED <<op, lock, open, txn, disk, crashes>>

AuditWrites(a) ==
    /\ audit[a] = "fetched"
    /\ audit' = [audit EXCEPT ![a] = "written"]
    /\ Writing(<<a, 1>>)
    /\ UNCHANGED <<op, lock, crashes>>

AuditCommits(a) ==
    /\ audit[a] = "written"
    /\ audit' = [audit EXCEPT ![a] = "done"]
    /\ Commit
    /\ UNCHANGED <<op, lock, crashes>>

Crash ==
    /\ crashes < MaxCrashes
    /\ crashes' = crashes + 1
    /\ Rollback /\ lock' = "free"
    /\ op' = [o \in Ops |-> IF op[o] \in {"done", "failed"} THEN op[o] ELSE "idle"]
    /\ audit' = [a \in Audits |-> IF audit[a] = "done" THEN "done" ELSE "idle"]

Next ==
    \/ \E o \in Ops : Lock(o) \/ Begin(o) \/ First(o) \/ Second(o) \/ Finish(o) \/ Fails(o)
    \/ \E a \in Audits : AuditFetches(a) \/ AuditWrites(a) \/ AuditCommits(a)
    \/ Crash
Spec == Init /\ [][Next]_vars

-----------------------------------------------------------------------------
\* "Validate + claim one batch inside ONE ledger transaction": the file never
\* holds one write of an operation without the other, whatever crashes.
AllOrNothing == \A o \in Ops : <<o, 1>> \in disk <=> <<o, 2>> \in disk

\* What an operation answered is in the file, even when an audit shares or
\* ends its transaction.
AnswersAreDurable ==
    \A o \in Ops : op[o] = "done" => {<<o, 1>>, <<o, 2>>} \subseteq disk

\* Both, as far as they hold: an unlocked writer may commit half an operation.
LedgerAtomic == AnswersAreDurable /\ (Audits = {} => AllOrNothing)

\* "One durable audit row per dispatch decision": a call that returned left
\* its row in the file.
AuditDurable == \A a \in Audits : audit[a] = "done" => <<a, 1>> \in disk

=============================================================================
