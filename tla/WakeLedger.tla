----------------------------- MODULE WakeLedger -----------------------------
(***************************************************************************)
(* The durable admission ledger of the auto-wake (compat/auto_wake_store.py,*)
(* file wake_ledger.db) together with the only door that may start a wake  *)
(* run: the chat/stream handler installed by compat.py:_install_wake.      *)
(*                                                                         *)
(* A cron report is a row of the session database named by its delivery    *)
(* key. A client (the App, or the server's own worker) ADMITS a set of     *)
(* keys: the ledger claims the eligible ones for one new batch. The client *)
(* then posts the batch to the door, which moves it from reserved to       *)
(* dispatching BEFORE the run starts, and reports what it saw of the run.  *)
(* The ledger lives in SQLite and every operation below is one transaction *)
(* under LEDGER_LOCK; the handler around it is asynchronous, so its steps  *)
(* interleave with everything else, and the process may crash.             *)
(*                                                                         *)
(* Clients are not constrained: any report or release may arrive at any    *)
(* time, late or twice. A refused call (busy session, policy, wrong state) *)
(* leaves the ledger as it is and is a stuttering step here.               *)
(***************************************************************************)
EXTENDS Integers, FiniteSets

CONSTANTS
    Keys,               \* delivery keys of the reports
    Sessions,           \* resolved session ids
    Batches,            \* batch ids ("wb_" + random token, never reused)
    Doors,              \* chat/stream requests in progress
    SessionOf,          \* the session a report belongs to
    Source,             \* job id and normalized body of a report
    Ignorable,          \* reports for which is_ignored_report holds
    SESSION_WAKE_LIMIT, PROFILE_WAKE_LIMIT, BATCH_MAX,
    QUOTA_WINDOW, CONTENT_COOLDOWN, RETENTION_TTL,
    LiveBotChat,        \* whether a live Bot Chat owner may take a turn over
    MaxNow,             \* bound on the clock, for model checking
    MaxLost             \* bound on raised hand-offs, for model checking

ASSUME Limits ==
    /\ SESSION_WAKE_LIMIT \in Nat
    /\ PROFILE_WAKE_LIMIT \in Nat
    /\ QUOTA_WINDOW \in Nat
    /\ CONTENT_COOLDOWN \in Nat
    /\ RETENTION_TTL \in Nat
    /\ MaxNow \in Nat
    /\ MaxLost \in Nat
ASSUME BatchMaxPositive == BATCH_MAX \in Nat \ {0}
ASSUME ReportShape == SessionOf \in [Keys -> Sessions] /\ DOMAIN Source = Keys
ASSUME FiniteBatches == IsFiniteSet(Batches)
ASSUME NullsAreNoIds == "no batch" \notin Batches /\ "no session" \notin Sessions

VARIABLES
    now,      \* time.time(), in steps
    arrived,  \* arrived[k]: timestamp of the report row, Never before
    batch,    \* table wake_batches
    cons,     \* table wake_consumption
    door,     \* door[d]: where the chat/stream handler stands
    status,   \* status[b]: the adapter's _run_statuses entry of b's run
    fired,    \* fired[b]: how often a turn really started for b (history)
    lost      \* lost[b]: how often a hand-off of b raised (history)

ledgerVars == <<batch, cons>>
doorVars == <<door, status, fired, lost>>
vars == <<now, arrived, batch, cons, door, status, fired, lost>>

Never == -1
NoBatch == "no batch"
NoSession == "no session"
NoOwner == "no owner"
Owners == {"app", "self"}

Times == 0..MaxNow
OpenStates == {"dispatching", "accepted"}
ClosedStates == {"terminal", "uncertain-consumed", "released"}
BatchStates == {"none", "reserved", "archived"} \cup OpenStates \cup ClosedStates

\* A row of wake_batches; run says that run_id is not NULL.
BatchRow == [state : BatchStates, session : Sessions \cup {NoSession},
             keys : SUBSET Keys, created : Times \cup {Never},
             closed : Times \cup {Never}, run : BOOLEAN,
             owner : Owners \cup {NoOwner}]
NoRow == [state |-> "none", session |-> NoSession, keys |-> {}, created |-> Never,
          closed |-> Never, run |-> FALSE, owner |-> NoOwner]

\* A row of wake_consumption; "none" when the key has no row.
Claim == [state : {"none", "consumed", "ignored"},
          batch : Batches \cup {NoBatch}, at : Times \cup {Never}]
NoClaim == [state |-> "none", batch |-> NoBatch, at |-> Never]

\* The handler: gated (CAS done, nothing started), handoff (the live Bot Chat
\* lane has the turn), stamped (run_id chosen), streaming (task created),
\* settle and act (the two halves of _settle). evidence is the launch dict.
DoorStates == {"idle", "gated", "handoff", "stamped", "streaming", "settle", "act"}
DoorRow == [pc : DoorStates, batch : Batches \cup {NoBatch}, evidence : BOOLEAN]
IdleDoor == [pc |-> "idle", batch |-> NoBatch, evidence |-> FALSE]

RunStatuses == {"none", "queued", "running", "ended"}

TypeOK ==
    /\ now \in Times
    /\ arrived \in [Keys -> Times \cup {Never}]
    /\ batch \in [Batches -> BatchRow]
    /\ cons \in [Keys -> Claim]
    /\ door \in [Doors -> DoorRow]
    /\ status \in [Batches -> RunStatuses]
    /\ fired \in [Batches -> Nat]
    /\ lost \in [Batches -> Nat]

Init ==
    /\ now = 0
    /\ arrived = [k \in Keys |-> Never]
    /\ batch = [b \in Batches |-> NoRow]
    /\ cons = [k \in Keys |-> NoClaim]
    /\ door = [d \in Doors |-> IdleDoor]
    /\ status = [b \in Batches |-> "none"]
    /\ fired = [b \in Batches |-> 0]
    /\ lost = [b \in Batches |-> 0]

-----------------------------------------------------------------------------
(* The environment: time, and reports the cron bridge writes.              *)

Tick ==
    /\ now < MaxNow
    /\ now' = now + 1
    /\ UNCHANGED <<arrived, batch, cons, door, status, fired, lost>>

ReportArrives(k) ==
    /\ arrived[k] = Never
    /\ arrived' = [arrived EXCEPT ![k] = now]
    /\ UNCHANGED <<now, batch, cons, door, status, fired, lost>>

-----------------------------------------------------------------------------
(* admit: validate and claim one batch inside one ledger transaction.      *)

\* _quota: batches of the window that were not released.
InWindow(b) ==
    /\ batch[b].state \notin {"none", "released", "archived"}
    /\ batch[b].created > now - QUOTA_WINDOW
SessionUsed(s) == {b \in Batches : InWindow(b) /\ batch[b].session = s}
ProfileUsed == {b \in Batches : InWindow(b)}

\* Mutant: off by one, the quota may be exceeded by one batch.
QuotaLeft_OffByOne(s) == /\ Cardinality(SessionUsed(s)) <= SESSION_WAKE_LIMIT
                         /\ Cardinality(ProfileUsed) <= PROFILE_WAKE_LIMIT

QuotaLeft(s) == /\ Cardinality(SessionUsed(s)) < SESSION_WAKE_LIMIT
                /\ Cardinality(ProfileUsed) < PROFILE_WAKE_LIMIT

\* _find_report: the row exists in the session's compression lineage.
FindReport(k, s) == arrived[k] # Never /\ SessionOf[k] = s

\* A report written while a wake run of the session is in flight.
CausalSuspect(k, s) ==
    \E b \in Batches :
        /\ batch[b].session = s
        /\ batch[b].state \in OpenStates
        /\ batch[b].created < arrived[k]
        /\ batch[b].closed = Never \/ batch[b].closed > arrived[k]

\* Mutant: compares delivery keys, not the source text.
SameSourceRecent_ByKey(k, s) ==
    cons[k].state = "consumed" /\ cons[k].at > now - CONTENT_COOLDOWN

\* _same_source_recent: same job and body consumed within the cooldown.
SameSourceRecent(k, s) ==
    \E j \in Keys :
        /\ cons[j].state = "consumed"
        /\ SessionOf[j] = s
        /\ cons[j].at > now - CONTENT_COOLDOWN
        /\ Source[j] = Source[k]

Fresh(S, s) == {k \in S : cons[k].state = "none" /\ FindReport(k, s)}
IgnoredBy(S, s) ==
    {k \in Fresh(S, s) :
        \/ k \in Ignorable
        \/ ~CausalSuspect(k, s) /\ SameSourceRecent(k, s)}
Claimable(S, s) ==
    {k \in Fresh(S, s) :
        /\ k \notin Ignorable
        /\ ~CausalSuspect(k, s)
        /\ ~SameSourceRecent(k, s)}

\* claims[:BATCH_MAX]: which keys overflow depends on the request's order.
BatchChoices(C) ==
    {A \in SUBSET C : \/ Cardinality(A) = BATCH_MAX
                      \/ A = C /\ Cardinality(C) < BATCH_MAX}

NewBatch(s, A, o) ==
    [state |-> "reserved", session |-> s, keys |-> A, created |-> now,
     closed |-> Never, run |-> FALSE, owner |-> o]

RecordClaims(I, A, b) ==
    [k \in Keys |->
        IF k \in I THEN [state |-> "ignored", batch |-> NoBatch, at |-> now]
        ELSE IF k \in A THEN [state |-> "consumed", batch |-> b, at |-> now]
        ELSE cons[k]]

AdmitEffect(S, s, A, b, o) ==
    /\ batch[b].state = "none"
    /\ batch' = [batch EXCEPT ![b] = NewBatch(s, A, o)]
    /\ cons' = RecordClaims(IgnoredBy(S, s), A, b)

Admit(S, s, A, b, o) ==
    /\ QuotaLeft(s)
    /\ A \in BatchChoices(Claimable(S, s))
    /\ A # {}
    /\ AdmitEffect(S, s, A, b, o)
    /\ UNCHANGED <<now, arrived, doorVars>>

\* Nothing claimable: "empty", but the ignored rows are still committed.
AdmitEmpty(S, s) ==
    /\ QuotaLeft(s)
    /\ Claimable(S, s) = {}
    /\ IgnoredBy(S, s) # {}
    /\ cons' = RecordClaims(IgnoredBy(S, s), {}, NoBatch)
    /\ UNCHANGED <<now, arrived, batch, doorVars>>

-----------------------------------------------------------------------------
(* report and release: calls of the App or of the worker, any time.        *)

\* The three transitions of report; each is a compare-and-set.
ToAccepted(b) ==
    /\ batch[b].state = "dispatching"
    /\ batch' = [batch EXCEPT ![b].state = "accepted", ![b].run = TRUE]
TerminalAt(b, t) ==
    /\ batch[b].state \in OpenStates
    /\ batch' = [batch EXCEPT ![b].state = "terminal", ![b].closed = t]
ToTerminal(b) == TerminalAt(b, now)
ToUncertain(b) ==
    /\ batch[b].state \in OpenStates
    /\ batch' = [batch EXCEPT ![b].state = "uncertain-consumed", ![b].closed = now]

Report(b) ==
    /\ ToAccepted(b) \/ ToTerminal(b) \/ ToUncertain(b)
    /\ UNCHANGED <<now, arrived, cons, doorVars>>

\* Mutant: forgets to delete the consumption rows.
ReleaseEffect_KeepsClaims(b) ==
    /\ batch[b].state = "reserved"
    /\ ~batch[b].run
    /\ batch' = [batch EXCEPT ![b].state = "released", ![b].closed = now]
    /\ UNCHANGED cons

\* Mutant: a batch already at the door may be released too.
ReleaseEffect_FromDispatching(b) ==
    /\ batch[b].state \in {"reserved", "dispatching"}
    /\ ~batch[b].run
    /\ batch' = [batch EXCEPT ![b].state = "released", ![b].closed = now]
    /\ cons' = [k \in Keys |-> IF cons[k].batch = b THEN NoClaim ELSE cons[k]]

ReleaseEffect(b) ==
    /\ batch[b].state = "reserved"
    /\ ~batch[b].run
    /\ batch' = [batch EXCEPT ![b].state = "released", ![b].closed = now]
    /\ cons' = [k \in Keys |-> IF cons[k].batch = b THEN NoClaim ELSE cons[k]]

Release(b) ==
    /\ ReleaseEffect(b)
    /\ UNCHANGED <<now, arrived, doorVars>>

\* wake_reconcile: a self-owned batch whose recorded run is proved over is
\* closed at the time its run ended.
ReconcileBatch(b) ==
    /\ batch[b].owner = "self"
    /\ batch[b].run
    /\ status[b] = "ended"
    /\ \E t \in Times : /\ batch[b].created <= t /\ t <= now
                       /\ TerminalAt(b, t)
    /\ UNCHANGED <<now, arrived, cons, doorVars>>

-----------------------------------------------------------------------------
(* The door: chat/stream carrying a wake_batch.                            *)

\* gate_dispatch: reserved -> dispatching before anything starts.
Gate(d, b) ==
    /\ door[d].pc = "idle"
    /\ batch[b].state = "reserved"
    /\ batch' = [batch EXCEPT ![b].state = "dispatching"]
    /\ door' = [door EXCEPT ![d] = [pc |-> "gated", batch |-> b, evidence |-> FALSE]]
    /\ UNCHANGED <<now, arrived, cons, status, fired, lost>>

\* Concurrency limit, request errors, an exception or a cancellation before
\* a run id exists.
DoorRejects(d) ==
    /\ door[d].pc = "gated"
    /\ door' = [door EXCEPT ![d].pc = "settle"]
    /\ UNCHANGED <<now, arrived, ledgerVars, status, fired, lost>>

\* The live Bot Chat owner takes the turn and runs it.
HandoffStarts(d) ==
    /\ LiveBotChat
    /\ door[d].pc = "gated"
    /\ door' = [door EXCEPT ![d].pc = "handoff"]
    /\ fired' = [fired EXCEPT ![door[d].batch] = @ + 1]
    /\ UNCHANGED <<now, arrived, ledgerVars, status, lost>>

\* It returns: launch["handoff"] is set; an HTTP error is settled.
HandoffReturns(d) ==
    /\ door[d].pc = "handoff"
    /\ \/ door' = [door EXCEPT ![d] = IdleDoor]
       \/ door' = [door EXCEPT ![d].pc = "settle", ![d].evidence = TRUE]
    /\ UNCHANGED <<now, arrived, ledgerVars, status, fired, lost>>

\* It raises or is cancelled before launch["handoff"] could be set.
HandoffRaises(d) ==
    /\ door[d].pc = "handoff"
    /\ lost[door[d].batch] < MaxLost
    /\ door' = [door EXCEPT ![d].pc = "settle"]
    /\ lost' = [lost EXCEPT ![door[d].batch] = @ + 1]
    /\ UNCHANGED <<now, arrived, ledgerVars, status, fired>>

\* launch["run_id"] is stamped and the run is registered as queued.
StampRun(d) ==
    /\ door[d].pc = "gated"
    /\ door' = [door EXCEPT ![d].pc = "stamped", ![d].evidence = TRUE]
    /\ status' = [status EXCEPT ![door[d].batch] = "queued"]
    /\ UNCHANGED <<now, arrived, ledgerVars, fired, lost>>

\* Mutant: the handler stays where it was and may create the task again.
Launch_Retried(d) ==
    /\ door[d].pc = "stamped"
    /\ status' = [status EXCEPT ![door[d].batch] = "running"]
    /\ fired[door[d].batch] < 2
    /\ fired' = [fired EXCEPT ![door[d].batch] = @ + 1]
    /\ UNCHANGED <<now, arrived, ledgerVars, door, lost>>

\* create_task(_run_and_signal()): the turn exists.
Launch(d) ==
    /\ door[d].pc = "stamped"
    /\ door' = [door EXCEPT ![d].pc = "streaming"]
    /\ status' = [status EXCEPT ![door[d].batch] = "running"]
    /\ fired' = [fired EXCEPT ![door[d].batch] = @ + 1]
    /\ UNCHANGED <<now, arrived, ledgerVars, lost>>

RunEnds(b) ==
    /\ status[b] = "running"
    /\ status' = [status EXCEPT ![b] = "ended"]
    /\ UNCHANGED <<now, arrived, ledgerVars, door, fired, lost>>

\* The response ends normally; what became of the run is the client's report.
StreamReturns(d) ==
    /\ door[d].pc = "streaming"
    /\ door' = [door EXCEPT ![d] = IdleDoor]
    /\ UNCHANGED <<now, arrived, ledgerVars, status, fired, lost>>

\* Exception or cancellation once the run id was stamped.
StreamRaises(d) ==
    /\ door[d].pc \in {"stamped", "streaming"}
    /\ door' = [door EXCEPT ![d].pc = "settle"]
    /\ UNCHANGED <<now, arrived, ledgerVars, status, fired, lost>>

\* _settle, first half: re-read the receipt; only dispatching goes on.
SettleReads(d) ==
    /\ door[d].pc = "settle"
    /\ IF batch[door[d].batch].state = "dispatching"
       THEN door' = [door EXCEPT ![d].pc = "act"]
       ELSE door' = [door EXCEPT ![d] = IdleDoor]
    /\ UNCHANGED <<now, arrived, ledgerVars, status, fired, lost>>

\* Mutant: reverts without the compare-and-set.
DispatchFailed_NoCas(b) == batch' = [batch EXCEPT ![b].state = "reserved"]

\* dispatch_failed: compare-and-set back to reserved.
DispatchFailed(b) ==
    IF batch[b].state = "dispatching" /\ ~batch[b].run
    THEN batch' = [batch EXCEPT ![b].state = "reserved"]
    ELSE UNCHANGED batch

\* Mutant: an exception is taken as proof that nothing started.
SettleVerdict_AlwaysRevert(d, b) == "revert"

\* What _settle decides from the launch evidence and the run status.
SettleVerdict(d, b) ==
    CASE ~door[d].evidence       -> "revert"
      [] status[b] = "ended"     -> "terminal"
      [] status[b] \in {"queued", "running"} -> "accepted"
      [] OTHER                   -> "uncertain"

\* _settle, second half.
SettleActs(d) ==
    LET b == door[d].batch
        v == SettleVerdict(d, b) IN
    /\ door[d].pc = "act"
    /\ \/ v = "revert" /\ DispatchFailed(b)
       \/ v = "terminal" /\ ToTerminal(b)
       \/ v = "accepted" /\ ToAccepted(b)
       \/ v = "uncertain" /\ ToUncertain(b)
       \/ v # "revert" /\ batch[b].state \notin OpenStates /\ UNCHANGED batch
       \/ v = "accepted" /\ batch[b].state = "accepted" /\ UNCHANGED batch
    /\ door' = [door EXCEPT ![d] = IdleDoor]
    /\ UNCHANGED <<now, arrived, cons, status, fired, lost>>

-----------------------------------------------------------------------------
(* The process dies: handlers and run statuses are memory, tables are not. *)

Crash ==
    /\ door' = [d \in Doors |-> IdleDoor]
    /\ status' = [b \in Batches |-> "none"]
    /\ UNCHANGED <<now, arrived, ledgerVars, fired, lost>>

\* ledger_retention._prune("wake"): closed batches past the TTL go to the
\* archive with their consumption rows. No request lives as long as the TTL.
Expired == {b \in Batches :
              /\ batch[b].state \in ClosedStates
              /\ batch[b].closed < now - RETENTION_TTL
              /\ \A d \in Doors : door[d].batch # b}

Prune ==
    /\ Expired # {}
    /\ batch' = [b \in Batches |-> IF b \in Expired
                                   THEN [batch[b] EXCEPT !.state = "archived"]
                                   ELSE batch[b]]
    /\ cons' = [k \in Keys |-> IF cons[k].batch \in Expired THEN NoClaim ELSE cons[k]]
    /\ UNCHANGED <<now, arrived, doorVars>>

-----------------------------------------------------------------------------
AdmitStep ==
    \E s \in Sessions, o \in Owners :
        \E S \in SUBSET {k \in Keys : SessionOf[k] = s} :
            \/ AdmitEmpty(S, s)
            \/ \E A \in SUBSET S, b \in Batches : Admit(S, s, A, b, o)

ClientStep == \E b \in Batches : Report(b) \/ Release(b) \/ ReconcileBatch(b)

DoorStep ==
    \/ \E d \in Doors, b \in Batches : Gate(d, b)
    \/ \E d \in Doors :
        \/ DoorRejects(d) \/ HandoffStarts(d) \/ HandoffReturns(d)
        \/ HandoffRaises(d) \/ StampRun(d) \/ Launch(d) \/ StreamReturns(d)
        \/ StreamRaises(d) \/ SettleReads(d) \/ SettleActs(d)
    \/ \E b \in Batches : RunEnds(b)

Next ==
    \/ Tick
    \/ \E k \in Keys : ReportArrives(k)
    \/ AdmitStep
    \/ ClientStep
    \/ DoorStep
    \/ Crash
    \/ Prune

Spec == Init /\ [][Next]_vars

-----------------------------------------------------------------------------
(* Properties.                                                             *)

Live(b) == batch[b].state \notin {"none", "released", "archived"}
Overlap(b, c) == batch[b].keys \cap batch[c].keys # {}

\* The consumption table and the batch table agree: a consumed key names a
\* live batch that lists it, and every key of a live batch is consumed by it.
\* admit, release and the retention pass each write both tables.
ClaimsAgree ==
    /\ \A k \in Keys : cons[k].state = "consumed" =>
          \E b \in Batches : cons[k].batch = b /\ Live(b) /\ k \in batch[b].keys
    /\ \A b \in Batches : Live(b) =>
          \A k \in batch[b].keys : cons[k].state = "consumed" /\ cons[k].batch = b

\* No report wakes the model twice while the ledger remembers it: a batch
\* starts at most one turn, one more only for each hand-off that raised, and
\* two batches that both started one share no report unless retention has
\* archived one of them or a hand-off raised. The gate's CAS, the evidence
\* rule of _settle and release's guard have to cooperate for this.
NoSecondWake ==
    /\ \A b \in Batches : fired[b] <= 1 + lost[b]
    /\ \A b, c \in Batches :
          b # c /\ fired[b] > lost[b] /\ fired[c] > lost[c] /\ Overlap(b, c)
             => "archived" \in {batch[b].state, batch[c].state}

\* "Only a PROVABLY undispatched reserved batch may release": a batch that is
\* reserved or released has started nothing (hand-offs that raised apart), and
\* no handler that could still start something holds it.
ReservedIsUndispatched ==
    \A b \in Batches : batch[b].state \in {"reserved", "released"} =>
        /\ fired[b] = lost[b]
        /\ \A d \in Doors : door[d].batch = b => door[d].pc = "idle"

\* The rolling quota holds in every state, for a session and for the profile,
\* although batches are released, reverted and re-dispatched in between.
QuotaHeld ==
    /\ \A s \in Sessions : Cardinality(SessionUsed(s)) <= SESSION_WAKE_LIMIT
    /\ Cardinality(ProfileUsed) <= PROFILE_WAKE_LIMIT

\* Two live batches of a session never carry the same source text within the
\* content cooldown (_same_source_recent), whatever their delivery keys.
SourceCooldown ==
    \A b, c \in Batches :
        /\ b # c /\ Live(b) /\ Live(c) /\ batch[b].session = batch[c].session
        /\ \E j \in batch[b].keys, k \in batch[c].keys : Source[j] = Source[k]
        => \/ batch[b].created - batch[c].created >= CONTENT_COOLDOWN
           \/ batch[c].created - batch[b].created >= CONTENT_COOLDOWN

\* The state machine of the module header. A closed batch never reopens, a
\* started batch never goes back to reserved, what a batch claimed is fixed.
BatchLifecycle ==
    [][\A b \in Batches :
        /\ batch[b].state \in ClosedStates => batch'[b].state \in {batch[b].state, "archived"}
        /\ batch[b].state = "accepted" => batch'[b].state \notin {"reserved", "dispatching", "released"}
        /\ fired[b] > lost[b] => batch'[b].state \notin {"reserved", "released"}
        /\ batch[b].state # "none" => batch'[b].keys = batch[b].keys
                                      /\ batch'[b].created = batch[b].created]_vars

\* "Consumed is final: ... a wake is never replayed" (auto_wake_store.py:14),
\* "Consumption verdict for one report, permanent across restarts" (:468):
\* a report starts at most one turn, ever.
ConsumedIsFinal ==
    \A b, c \in Batches :
        b # c /\ Overlap(b, c) => fired[b] + fired[c] <= 1

\* "Only evidence that nothing launched - no handoff, no started task - proves
\* the run never began" (compat.py:2791): a reserved batch started nothing.
RevertedMeansUnlaunched ==
    \A b \in Batches : batch[b].state = "reserved" => fired[b] = 0
=============================================================================
