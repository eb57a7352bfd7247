----------------------------- MODULE CronBridge -----------------------------
(***************************************************************************)
(* The cron bridge (compat/cron_delivery_store.py): a report of one cron   *)
(* execution is spooled in cron_bridge.db, then written into the session   *)
(* database in a transaction of its own, then acknowledged in              *)
(* cron_bridge.db. There is no transaction over both, so a process may die *)
(* between any two steps, and a deliver call, the platform's drainer, the  *)
(* recovery drainer and an out-of-process sender may all be at work on one *)
(* report. An acknowledged fresh delivery registers a self-wake intent in  *)
(* the same transaction; compat/self_wake.py's reconcile is to make up for *)
(* what a crash lost.                                                      *)
(*                                                                         *)
(* Each action is one SQLite transaction. Whether the session database     *)
(* accepts a write (turn lease, lock, target policy) is its own business   *)
(* and left open. Calls that a validation refuses change nothing.          *)
(***************************************************************************)
EXTENDS Naturals, FiniteSets

CONSTANTS
    Reports,             \* delivery keys
    Contents,            \* digests of report texts
    Senders,             \* deliver calls in progress
    Standalone,          \* those of them in a process of their own
    Drainers,            \* passes of drain_home in progress
    DRAIN_MAX_ATTEMPTS,
    IntentMayFail,       \* whether registering an intent may raise
    WasOn,               \* self-wake is on and has its generation at the start
    MaxCalls, MaxCrashes, MaxEdits, MaxRetired   \* bounds, for model checking

ASSUME Processes == Standalone \subseteq Senders /\ Senders \cap Drainers = {}
ASSUME Attempts == DRAIN_MAX_ATTEMPTS \in Nat \ {0}
ASSUME Bounds == /\ IntentMayFail \in BOOLEAN /\ WasOn \in BOOLEAN
                 /\ MaxCalls \in Nat /\ MaxCrashes \in Nat
                 /\ MaxEdits \in Nat /\ MaxRetired \in Nat
ASSUME NullIsNoContent == "no content" \notin Contents

VARIABLES
    row,       \* row[k]: the digest of the committed report row
    inserts,   \* inserts[k]: how many rows were ever written (history)
    pending,   \* table pending
    receipt,   \* table receipts
    intent,    \* state column of table selfwake_intents
    passed,    \* reports at or before the reconcile seek or the cutoff
    based,     \* meta selfwake_generation exists
    mode,      \* wake.selfwake of the profile's config
    seen,      \* the worker's _mode_seen
    task,      \* task[p]: what a deliver call or a drain pass is doing
    todo,      \* todo[p]: rows a drain pass selected and has not tried yet
    gap,       \* reports committed by a process that died before the ack, or
               \* whose intent could not be written (history)
    offEra,    \* reports that got no intent because self-wake was off (history)
    used       \* calls, crashes, config edits and retirements so far

tables == <<pending, receipt, intent>>
wake == <<passed, based, mode, seen>>
vars == <<row, inserts, pending, receipt, intent, passed, based, mode, seen,
          task, todo, gap, offEra, used>>

Procs == Senders \cup Drainers
NoContent == "no content"
Modes == {"off", "shadow", "on"}
Outcomes == {"delivered", "dedup", "retry", "permanent"}

PendingRow == [content : Contents \cup {NoContent}, attempts : Nat, due : BOOLEAN]
NoPending == [content |-> NoContent, attempts |-> 0, due |-> FALSE]
ReceiptRow == [status : {"none", "queued", "delivered", "failed"},
               digest : Contents \cup {NoContent},
               error : {"none", "intent-failed", "other"}]
NoReceipt == [status |-> "none", digest |-> NoContent, error |-> "none"]
IntentStates == {"none", "pending", "shadow", "void"}

\* One selected row of pending, or the arguments of one deliver call.
Job == [key : Reports, content : Contents, attempts : Nat]
TaskRow == [pc : {"spooled", "echo", "write", "ack"}, job : Job, outcome : Outcomes]
Idle == [pc |-> "idle"]

TypeOK ==
    /\ row \in [Reports -> Contents \cup {NoContent}]
    /\ inserts \in [Reports -> Nat]
    /\ pending \in [Reports -> PendingRow]
    /\ receipt \in [Reports -> ReceiptRow]
    /\ intent \in [Reports -> IntentStates]
    /\ passed \subseteq Reports /\ gap \subseteq Reports /\ offEra \subseteq Reports
    /\ based \in BOOLEAN
    /\ mode \in Modes /\ seen \in Modes \cup {"unknown"}
    /\ task \in [Procs -> TaskRow \cup {Idle}]
    /\ todo \in [Procs -> SUBSET Job]
    /\ used \in [{"calls", "crashes", "edits", "retired"} -> Nat]

Init ==
    /\ row = [k \in Reports |-> NoContent]
    /\ inserts = [k \in Reports |-> 0]
    /\ pending = [k \in Reports |-> NoPending]
    /\ receipt = [k \in Reports |-> NoReceipt]
    /\ intent = [k \in Reports |-> "none"]
    /\ passed = {} /\ gap = {} /\ offEra = {}
    /\ based = WasOn
    /\ mode \in (IF WasOn THEN {"on"} ELSE {"off", "on"}) /\ seen = "unknown"
    /\ task = [p \in Procs |-> Idle]
    /\ todo = [p \in Procs |-> {}]
    /\ used = [u \in {"calls", "crashes", "edits", "retired"} |-> 0]

Spooled(k) == pending[k].content # NoContent
Committed == {k \in Reports : row[k] # NoContent}
Busy(k) == \E p \in Procs : \/ task[p] # Idle /\ task[p].job.key = k
                            \/ \E j \in todo[p] : j.key = k

-----------------------------------------------------------------------------
(* deliver: spool first.                                                   *)

Deliver(p, k, c) ==
    /\ task[p] = Idle
    /\ used["calls"] < MaxCalls
    /\ used' = [used EXCEPT !["calls"] = @ + 1]
    /\ pending' = IF Spooled(k) THEN pending
                  ELSE [pending EXCEPT ![k] = [content |-> c, attempts |-> 0, due |-> TRUE]]
    /\ task' = [task EXCEPT ![p] = [pc |-> "spooled", outcome |-> "retry",
                                    job |-> [key |-> k, content |-> c, attempts |-> 0]]]
    /\ UNCHANGED <<row, inserts, receipt, intent, wake, todo, gap, offEra>>

\* A delivered receipt of the same text answers the call without a write.
ReadReceipt(p) ==
    LET j == task[p].job
        r == receipt[j.key] IN
    /\ task[p].pc = "spooled"
    /\ task' = [task EXCEPT ![p].pc =
                   IF r.status = "delivered" /\ r.digest = j.content THEN "echo" ELSE "write"]
    /\ UNCHANGED <<row, inserts, tables, wake, todo, gap, offEra, used>>

EchoDrops(p) ==
    /\ task[p].pc = "echo"
    /\ pending' = [pending EXCEPT ![task[p].job.key] = NoPending]
    /\ task' = [task EXCEPT ![p] = Idle]
    /\ UNCHANGED <<row, inserts, receipt, intent, wake, todo, gap, offEra, used>>

-----------------------------------------------------------------------------
(* _attempt and _write_once: one transaction on the session database.      *)

\* Mutant: writes without looking for an earlier row of the same key.
AttemptOutcomes_NoLookup(j) == Outcomes \ {"dedup"}

\* What the attempt may come to: an existing row decides, else the target does.
AttemptOutcomes(j) ==
    {"retry"} \cup
    (IF row[j.key] = NoContent THEN {"delivered", "permanent"}
     ELSE IF row[j.key] = j.content THEN {"dedup"} ELSE {"permanent"})

Attempt(p, j) ==
    \E o \in AttemptOutcomes(j) :
        /\ task' = [task EXCEPT ![p] = [pc |-> "ack", job |-> j, outcome |-> o]]
        /\ row' = IF o = "delivered" THEN [row EXCEPT ![j.key] = j.content] ELSE row
        /\ inserts' = IF o = "delivered" THEN [inserts EXCEPT ![j.key] = @ + 1] ELSE inserts
        /\ UNCHANGED <<tables, wake, gap, offEra, used>>

SenderAttempts(p) ==
    /\ task[p].pc = "write"
    /\ Attempt(p, task[p].job)
    /\ UNCHANGED todo

-----------------------------------------------------------------------------
(* The acknowledgement: pending, receipt and intent in one transaction.    *)

\* _receipt: delivered is terminal, the error is always the latest.
ReceiptAs(r, status, digest, error) ==
    [status |-> IF r.status = "delivered" THEN "delivered" ELSE status,
     error |-> error,
     digest |-> IF digest = NoContent THEN r.digest ELSE digest]

\* Mutant: takes a report that has no intent yet for a repetition.
IntentFor_Never(k) == intent[k]

\* on_delivered: none in off mode, and never a second one.
IntentFor(k) ==
    IF mode = "off" \/ intent[k] # "none" THEN intent[k]
    ELSE IF mode = "shadow" THEN "shadow" ELSE "pending"

\* Registering the first intent ever fixes the cutoff: what is committed by
\* then is history to reconcile.
Baseline ==
    IF based \/ mode = "off" THEN UNCHANGED <<passed, based>>
    ELSE based' = TRUE /\ passed' = Committed

\* Mutant: an acknowledgement that forgets the digest and the intent.
AckDelivered_Forgetful(j, fresh) ==
    /\ pending' = [pending EXCEPT ![j.key] = NoPending]
    /\ receipt' = [receipt EXCEPT ![j.key] = ReceiptAs(@, "delivered", NoContent, "none")]
    /\ UNCHANGED <<intent, passed, based, gap, offEra>>

\* delivered or dedup. Only a fresh row registers an intent; if that raises,
\* the receipt is tagged instead, and the generation may have been written.
AckDelivered(j, fresh) ==
    /\ pending' = [pending EXCEPT ![j.key] = NoPending]
    /\ \/ /\ receipt' = [receipt EXCEPT ![j.key] =
                            ReceiptAs(@, "delivered", j.content, "none")]
          /\ IF fresh
             THEN /\ intent' = [intent EXCEPT ![j.key] = IntentFor(j.key)]
                  /\ Baseline
                  /\ offEra' = IF mode = "off" /\ intent[j.key] = "none"
                               THEN offEra \cup {j.key} ELSE offEra
             ELSE UNCHANGED <<intent, passed, based, offEra>>
          /\ UNCHANGED gap
       \/ /\ fresh /\ IntentMayFail /\ mode # "off"
          /\ receipt' = [receipt EXCEPT ![j.key] =
                            ReceiptAs(@, "delivered", j.content, "intent-failed")]
          /\ gap' = gap \cup {j.key}
          /\ Baseline \/ UNCHANGED <<passed, based>>
          /\ UNCHANGED <<intent, offEra>>

AckPermanent(j) ==
    /\ pending' = [pending EXCEPT ![j.key] = NoPending]
    /\ receipt' = [receipt EXCEPT ![j.key] = ReceiptAs(@, "failed", NoContent, "other")]
    /\ UNCHANGED <<intent, passed, based, gap, offEra>>

\* deliver could not write: a queued receipt, and the drainers take over.
AckQueued(j) ==
    /\ pending' = IF Spooled(j.key) THEN [pending EXCEPT ![j.key].due = FALSE] ELSE pending
    /\ receipt' = [receipt EXCEPT ![j.key] = ReceiptAs(@, "queued", NoContent, "none")]
    /\ UNCHANGED <<intent, passed, based, gap, offEra>>

\* Mutant: a row at the cap stays in the spool, where nobody selects it.
AckRetry_Orphans(j) ==
    /\ pending' = IF Spooled(j.key)
                  THEN [pending EXCEPT ![j.key].attempts = j.attempts + 1,
                                       ![j.key].due = FALSE]
                  ELSE pending
    /\ UNCHANGED <<receipt, intent, passed, based, gap, offEra>>

\* Mutant: the exhausted row is dropped without a word.
AckRetry_Silent(j) ==
    /\ pending' = IF j.attempts + 1 >= DRAIN_MAX_ATTEMPTS
                  THEN [pending EXCEPT ![j.key] = NoPending]
                  ELSE [pending EXCEPT ![j.key].attempts = j.attempts + 1,
                                       ![j.key].due = FALSE]
    /\ UNCHANGED <<receipt, intent, passed, based, gap, offEra>>

\* A drain pass could not write: one more attempt, counted from the selected
\* copy; the last one closes the report as failed.
AckRetry(j) ==
    IF j.attempts + 1 >= DRAIN_MAX_ATTEMPTS
    THEN AckPermanent(j)
    ELSE /\ pending' = IF Spooled(j.key)
                       THEN [pending EXCEPT ![j.key].attempts = j.attempts + 1,
                                            ![j.key].due = FALSE]
                       ELSE pending
         /\ UNCHANGED <<receipt, intent, passed, based, gap, offEra>>

Ack(p) ==
    LET j == task[p].job
        o == task[p].outcome IN
    /\ task[p].pc = "ack"
    /\ \/ o \in {"delivered", "dedup"} /\ AckDelivered(j, o = "delivered")
       \/ o = "permanent" /\ AckPermanent(j)
       \/ o = "retry" /\ p \in Senders /\ AckQueued(j)
       \/ o = "retry" /\ p \in Drainers /\ AckRetry(j)
    /\ task' = [task EXCEPT ![p] = Idle]
    /\ UNCHANGED <<row, inserts, mode, seen, todo, used>>

-----------------------------------------------------------------------------
(* drain_home: select the due rows, then try them one by one.              *)

BackoffElapses(k) ==
    /\ Spooled(k) /\ ~pending[k].due
    /\ pending' = [pending EXCEPT ![k].due = TRUE]
    /\ UNCHANGED <<row, inserts, receipt, intent, wake, task, todo, gap, offEra, used>>

DueJobs == {[key |-> k, content |-> pending[k].content, attempts |-> pending[k].attempts] :
              k \in {k \in Reports : /\ Spooled(k) /\ pending[k].due
                                     /\ pending[k].attempts < DRAIN_MAX_ATTEMPTS}}

DrainSelects(p) ==
    /\ task[p] = Idle /\ todo[p] = {}
    /\ DueJobs # {}
    /\ todo' = [todo EXCEPT ![p] = DueJobs]
    /\ UNCHANGED <<row, inserts, tables, wake, task, gap, offEra, used>>

DrainAttempts(p) ==
    /\ task[p] = Idle
    /\ \E j \in todo[p] : /\ Attempt(p, j)
                          /\ todo' = [todo EXCEPT ![p] = @ \ {j}]

-----------------------------------------------------------------------------
(* self_wake: the mode, the generation and the crash-gap reconciliation.   *)

EditConfig(m) ==
    /\ m # mode
    /\ used["edits"] < MaxEdits
    /\ used' = [used EXCEPT !["edits"] = @ + 1]
    /\ mode' = m
    /\ UNCHANGED <<row, inserts, tables, passed, based, seen, task, todo, gap, offEra>>

\* tick, as far as modes go: leaving a mode voids the undispatched intents,
\* coming back from off starts a new generation.
Tick ==
    /\ mode # seen
    /\ seen' = mode
    /\ IF mode = "off" /\ seen \in {"on", "shadow"}
       THEN intent' = [k \in Reports |->
                         IF intent[k] \in {"pending", "shadow"} THEN "void" ELSE intent[k]]
       ELSE UNCHANGED intent
    /\ IF seen = "off"
       THEN based' = TRUE /\ passed' = Committed
       ELSE UNCHANGED <<based, passed>>
    /\ UNCHANGED <<row, inserts, pending, receipt, mode, task, todo, gap, offEra, used>>

\* Mutant: compensates every report that has no intent.
Compensable_Any(k) == intent[k] = "none"

\* No intent, and no receipt or one tagged by a failed registration.
Compensable(k) ==
    /\ intent[k] = "none"
    /\ \/ receipt[k].status = "none"
       \/ receipt[k].status = "delivered" /\ receipt[k].error = "intent-failed"

Reconcile ==
    LET new == Committed \ passed
        add == {k \in new : Compensable(k)} IN
    /\ seen \in {"on", "shadow"} /\ mode # "off"
    /\ passed' = Committed /\ based' = TRUE
    /\ IF based
       THEN /\ intent' = [k \in Reports |->
                            IF k \notin add THEN intent[k]
                            ELSE IF mode = "shadow" THEN "shadow" ELSE "pending"]
            /\ receipt' = [k \in Reports |->
                             IF k \in add /\ receipt[k].status = "none"
                             THEN [status |-> "delivered", digest |-> row[k], error |-> "none"]
                             ELSE receipt[k]]
       ELSE UNCHANGED <<intent, receipt>>
    /\ UNCHANGED <<row, inserts, pending, mode, seen, task, todo, gap, offEra, used>>

\* ledger_retention._prune("cron"): settled receipts past the TTL of 90 days,
\* so long after the last call about the report; the worker has ticked and, if
\* it is on, reconciled since.
Retire(k) ==
    /\ seen = mode /\ (mode = "off" \/ Committed \subseteq passed)
    /\ receipt[k].status \in {"delivered", "failed"}
    /\ ~Spooled(k) /\ ~Busy(k)
    /\ used["retired"] < MaxRetired
    /\ used' = [used EXCEPT !["retired"] = @ + 1]
    /\ receipt' = [receipt EXCEPT ![k] = NoReceipt]
    /\ UNCHANGED <<row, inserts, pending, intent, wake, task, todo, gap, offEra>>

-----------------------------------------------------------------------------
(* Processes die: the gateway with its drainers, worker and calls, or one   *)
(* standalone sender.                                                      *)

Unacked(P) == {task[p].job.key : p \in {p \in P : /\ task[p].pc = "ack"
                                                  /\ task[p].outcome = "delivered"}}

Dies(P) ==
    /\ used["crashes"] < MaxCrashes
    /\ used' = [used EXCEPT !["crashes"] = @ + 1]
    /\ task' = [p \in Procs |-> IF p \in P THEN Idle ELSE task[p]]
    /\ todo' = [p \in Procs |-> IF p \in P THEN {} ELSE todo[p]]
    /\ gap' = gap \cup Unacked(P)
    /\ UNCHANGED <<row, inserts, tables, passed, based, mode, offEra>>

GatewayCrash == Dies(Procs \ Standalone) /\ seen' = "unknown"
SenderDies(p) == task[p] # Idle /\ Dies({p}) /\ UNCHANGED seen

-----------------------------------------------------------------------------
Next ==
    \/ \E p \in Senders : \/ \E k \in Reports, c \in Contents : Deliver(p, k, c)
                          \/ ReadReceipt(p) \/ EchoDrops(p) \/ SenderAttempts(p)
    \/ \E p \in Procs : Ack(p)
    \/ \E p \in Drainers : DrainSelects(p) \/ DrainAttempts(p)
    \/ \E k \in Reports : BackoffElapses(k) \/ Retire(k)
    \/ \E m \in Modes : EditConfig(m)
    \/ Tick
    \/ Reconcile
    \/ GatewayCrash
    \/ \E p \in Standalone : SenderDies(p)

Spec == Init /\ [][Next]_vars

\* The two drain loops run every DRAIN_INTERVAL in the gateway as long as it
\* lives and a backoff is a finite delay. Nothing is assumed of the senders.
Fairness ==
    /\ \A p \in Drainers : /\ WF_vars(DrainSelects(p))
                           /\ WF_vars(DrainAttempts(p))
                           /\ WF_vars(Ack(p))
    /\ \A k \in Reports : WF_vars(BackoffElapses(k))
FairSpec == Spec /\ Fairness

-----------------------------------------------------------------------------
(* Properties.                                                             *)

\* "Crash between commit and ack replays ... never a second row": however many
\* calls, drainers and crashes work on a report, one row is written.
OneRow == \A k \in Reports : inserts[k] <= 1

\* "Success means committed data": a delivered receipt stands for a committed
\* row and carries that row's digest, also when two texts compete for the key.
DeliveredIsCommitted ==
    \A k \in Reports : receipt[k].status = "delivered" =>
        row[k] # NoContent /\ receipt[k].digest = row[k]

\* A row at the attempt cap is never selected again, so none may stay in the
\* spool, although two drainers count attempts from copies.
NoOrphan == \A k \in Reports : Spooled(k) => pending[k].attempts < DRAIN_MAX_ATTEMPTS

\* A spooled report leaves the spool only as a committed row or with a failed
\* receipt that says so, whichever of the racing processes removes it.
NothingDropped ==
    [][\A k \in Reports : Spooled(k) /\ ~Spooled(k)' =>
          row'[k] # NoContent \/ receipt'[k].status = "failed"]_vars

\* A delivered receipt is a terminal fact until retention removes it.
DeliveredIsTerminal ==
    [][\A k \in Reports : receipt[k].status = "delivered" =>
          \/ receipt'[k].status = "delivered" /\ receipt'[k].digest = receipt[k].digest
          \/ receipt'[k].status = "none" /\ used'["retired"] > used["retired"]]_vars

\* Only a death between commit and ack, or a failed registration, costs a
\* report its intent; two processes that both see the report as theirs, one
\* as fresh and one as dedup, never do.
IntentLostOnlyInGap ==
    \A k \in Reports :
        (receipt[k].status = "delivered" /\ ~Busy(k) /\ k \notin gap \cup offEra)
            => intent[k] # "none"

\* Every spooled report is settled in the end: committed or failed, also when
\* its target is busy for ever and when the gateway dies on the way.
SpoolDrains == \A k \in Reports : Spooled(k) ~> ~Spooled(k)

\* "Add intents for reports committed after the cutoff that the bridge never
\* finalized (crash between SessionDB commit and receipt commit)"
\* (self_wake.py:252): with self-wake on, a report that was finalized and that
\* nobody works on has its intent, or reconcile can still add it.
GapIsRecoverable ==
    \A k \in Reports :
        (row[k] # NoContent /\ ~Spooled(k) /\ ~Busy(k) /\ k \notin offEra)
            => intent[k] # "none" \/ (k \notin passed /\ Compensable(k))

\* "Re-enabling bumps the enable generation so reports that landed while
\* disabled stay history" (compat/README.md:142).
OffEraStaysHistory == \A k \in offEra : intent[k] = "none"
=============================================================================
