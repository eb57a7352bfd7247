------------------------------ MODULE SelfWake ------------------------------
(***************************************************************************)
(* The self-wake worker (compat/self_wake.py): one asyncio task that sweeps*)
(* the intents of cron_bridge.db, claims their reports in the wake ledger, *)
(* posts the claimed batch to the chat/stream door and follows the run     *)
(* until ledger and intents are settled, behind a durable chain fuse.      *)
(*                                                                         *)
(* The worker is sequential, but every ledger call, every request and every*)
(* chain counter is a step of its own: the App claims reports, humans      *)
(* write, the door settles by itself and the process dies in between. The  *)
(* ledger is kept to what the worker sees of it (WakeLedger has it in      *)
(* full); one session and its compression lineage are modelled. A delay    *)
(* (next_attempt_at, cooldown) is a sweep that does not take the intent.   *)
(***************************************************************************)
EXTENDS Naturals, FiniteSets

CONSTANTS
    Keys,            \* delivery keys of the reports
    Batches,         \* batch ids
    ChainLimit,      \* wake.selfwake_chain_limit
    FuseAfter,       \* consecutive failures that blow the fuse (3 in the code)
    EndpointMayFail, \* whether endpoint() may answer unavailable
    DoorMayReject,   \* whether the door may answer other than 200
    AppMayClaim,     \* whether the App admits reports of this session too
    SessionMayClose, \* whether the session may be archived, hidden or ended
    MaxToggles,      \* bound on edits of wake.selfwake, for model checking
    MaxHumans,       \* bound on human messages, for model checking
    MaxFaults        \* bound on crashes and on ledger calls that raise

Parameters ==
    /\ ChainLimit \in 1..12 /\ FuseAfter \in Nat \ {0}
    /\ EndpointMayFail \in BOOLEAN /\ DoorMayReject \in BOOLEAN
    /\ AppMayClaim \in BOOLEAN /\ SessionMayClose \in BOOLEAN
    /\ MaxToggles \in Nat /\ MaxHumans \in Nat /\ MaxFaults \in Nat
    /\ "none" \notin Batches /\ "ignored" \notin Batches

VARIABLES
    mode, modeSeen,  \* settings(home) and the worker's _mode_seen
    intent,          \* table selfwake_intents
    aged,            \* intents older than RETRY_MAX_AGE_S
    cons,            \* table wake_consumption: batch, "ignored" or "none"
    batch,           \* table wake_batches: [state, owner]
    chain,           \* the lineage's row of selfwake_chain
    human,           \* a human message is newer than last_fire_at
    door,            \* door[b]: the chat/stream request carrying b
    run,             \* run[b]: status of b's run in the run store
    w,               \* the worker: where it stands and its locals
    launched,        \* launched[b]: turns started for b (history)
    counted,         \* counted[b]: chain_note and chain_fail calls (history)
    toggles, humans, faults

ledger == <<cons, batch>>
ghosts == <<launched, counted>>
bounds == <<toggles, humans, faults>>
outside == <<mode, aged, human, door, run, launched, bounds>>
vars == <<mode, modeSeen, intent, aged, cons, batch, chain, human, door, run,
          w, launched, counted, bounds>>

Modes == {"off", "shadow", "on"}
Open == {"dispatching", "accepted"}
Closed == {"terminal", "uncertain-consumed"}
Ended == {"completed", "failed"}
Pending == {"pending", "watching"}

Intent == [state : {"none", "shadow", "done", "void"} \cup Pending,
           batch : Batches \cup {"none"},
           detail : {"none", "busy", "conflict", "disabled", "exhausted", "error", "other"}]
Row == [state : {"none", "reserved", "released"} \cup Open \cup Closed,
        owner : {"none", "app", "self"}]
Pcs == {"idle", "sweep", "checkpoint", "due", "classify", "own", "poll", "fresh",
        "admit", "associate", "post", "wait", "accept", "non200", "terminal", "close",
        "unseen", "provenTerminal", "closeUncounted", "uncertain", "closeUncertain",
        "note", "fail", "fuse"}
Hand == [pc : Pcs, items : SUBSET Keys, batch : Batches \cup {"none"}, run : BOOLEAN,
         out : Ended \cup {"none"}]
NoIntent == [state |-> "none", batch |-> "none", detail |-> "none"]
Unused == [fires |-> 0, fails |-> 0, fused |-> FALSE]
Idle == [pc |-> "idle", items |-> {}, batch |-> "none", run |-> FALSE, out |-> "none"]

TypeOK ==
    /\ mode \in Modes /\ modeSeen \in Modes \cup {"none"}
    /\ intent \in [Keys -> Intent] /\ aged \subseteq Keys
    /\ cons \in [Keys -> Batches \cup {"ignored", "none"}]
    /\ batch \in [Batches -> Row]
    /\ chain \in [fires : Nat, fails : Nat, fused : BOOLEAN]
    /\ human \in BOOLEAN
    /\ door \in [Batches -> {"none", "gated", "rejected", "streaming"}]
    /\ run \in [Batches -> {"none", "running"} \cup Ended]
    /\ w \in Hand
    /\ launched \in [Batches -> Nat] /\ counted \in [Batches -> Nat]
    /\ toggles \in Nat /\ humans \in Nat /\ faults \in Nat

Init ==
    /\ mode \in Modes /\ modeSeen = "none"
    /\ intent = [k \in Keys |-> NoIntent] /\ aged = {}
    /\ cons = [k \in Keys |-> "none"]
    /\ batch = [b \in Batches |-> [state |-> "none", owner |-> "none"]]
    /\ chain = Unused
    /\ human = FALSE
    /\ door = [b \in Batches |-> "none"] /\ run = [b \in Batches |-> "none"]
    /\ w = Idle
    /\ launched = [b \in Batches |-> 0] /\ counted = [b \in Batches |-> 0]
    /\ toggles = 0 /\ humans = 0 /\ faults = 0

-----------------------------------------------------------------------------
(* Everything around the worker.                                           *)

\* on_delivered and reconcile: an intent for a report that has none.
IntentRecorded(k) ==
    /\ mode # "off" /\ intent[k].state = "none"
    /\ intent' = [intent EXCEPT ![k].state = IF mode = "shadow" THEN "shadow" ELSE "pending"]
    /\ UNCHANGED <<mode, modeSeen, aged, ledger, chain, human, door, run, w, ghosts, bounds>>

\* A day goes by; it matters for an intent that was refused as busy only.
IntentAges(k) ==
    /\ intent[k].state = "pending" /\ intent[k].detail = "busy" /\ k \notin aged
    /\ aged' = aged \cup {k}
    /\ UNCHANGED <<mode, modeSeen, intent, ledger, chain, human, door, run, w, ghosts, bounds>>

\* wake.selfwake is edited; settings() reads it afresh every time.
Toggle ==
    /\ toggles < MaxToggles
    /\ mode' \in Modes \ {mode}
    /\ toggles' = toggles + 1
    /\ UNCHANGED <<modeSeen, intent, aged, ledger, chain, human, door, run, w, ghosts,
                   humans, faults>>

\* A message chain_human_checkpoint would accept as human.
HumanWrites ==
    /\ humans < MaxHumans /\ ~human
    /\ human' = TRUE /\ humans' = humans + 1
    /\ UNCHANGED <<mode, modeSeen, intent, aged, ledger, chain, door, run, w, ghosts,
                   toggles, faults>>

\* The App admits, dispatches and settles or releases a batch of its own,
\* or its admission marks the report ignored.
AppClaims(k, b) ==
    /\ AppMayClaim /\ cons[k] = "none"
    /\ \/ /\ batch[b].state = "none"
          /\ batch' = [batch EXCEPT ![b] = [state |-> "reserved", owner |-> "app"]]
          /\ cons' = [cons EXCEPT ![k] = b]
       \/ /\ cons' = [cons EXCEPT ![k] = "ignored"]
          /\ UNCHANGED batch
    /\ UNCHANGED <<mode, modeSeen, intent, aged, chain, human, door, run, w, ghosts, bounds>>

AppMoves(b) ==
    /\ batch[b].owner = "app"
    /\ \/ /\ batch[b].state = "reserved"
          /\ batch' = [batch EXCEPT ![b].state = "released"]
          /\ cons' = [k \in Keys |-> IF cons[k] = b THEN "none" ELSE cons[k]]
       \/ /\ batch[b].state = "reserved"
          /\ batch' = [batch EXCEPT ![b].state = "dispatching"]
          /\ UNCHANGED cons
       \/ /\ batch[b].state = "dispatching"
          /\ batch' = [batch EXCEPT ![b].state = "terminal"]
          /\ UNCHANGED cons
    /\ UNCHANGED <<mode, modeSeen, intent, aged, chain, human, door, run, w, ghosts, bounds>>

\* chain_release: the administrator resets the lineage, fuse included.
ChainRelease ==
    /\ chain # Unused
    /\ chain' = Unused
    /\ UNCHANGED <<mode, modeSeen, intent, aged, ledger, human, door, run, w, ghosts, bounds>>

\* The door answers an error, or its request was dropped, before a run id:
\* dispatch_failed puts the batch back.
DoorRejects(b) ==
    /\ door[b] = "gated"
    /\ DoorMayReject \/ w.pc # "wait" \/ w.batch # b
    /\ door' = [door EXCEPT ![b] = IF w.pc = "wait" /\ w.batch = b THEN "rejected" ELSE "none"]
    /\ batch' = [batch EXCEPT ![b].state = IF @ = "dispatching" THEN "reserved" ELSE @]
    /\ UNCHANGED <<mode, modeSeen, intent, aged, cons, chain, human, run, w, ghosts, bounds>>

DoorLaunches(b) ==
    /\ door[b] = "gated"
    /\ door' = [door EXCEPT ![b] = "streaming"]
    /\ run' = [run EXCEPT ![b] = "running"]
    /\ launched' = [launched EXCEPT ![b] = @ + 1]
    /\ UNCHANGED <<mode, modeSeen, intent, aged, ledger, chain, human, w, counted, bounds>>

RunEnds(b) ==
    /\ run[b] = "running"
    /\ \E o \in Ended : run' = [run EXCEPT ![b] = o]
    /\ UNCHANGED <<mode, modeSeen, intent, aged, ledger, chain, human, door, w, ghosts, bounds>>

\* The client is gone: the door settles a dispatching batch from its launch
\* evidence.
DoorSettles(b) ==
    /\ door[b] = "streaming"
    /\ ~(w.batch = b /\ w.pc \in {"wait", "accept", "terminal"})
    /\ door' = [door EXCEPT ![b] = "none"]
    /\ batch' = [batch EXCEPT ![b].state =
                    IF @ # "dispatching" THEN @
                    ELSE IF run[b] \in Ended THEN "terminal" ELSE "accepted"]
    /\ UNCHANGED <<mode, modeSeen, intent, aged, cons, chain, human, run, w, ghosts, bounds>>

-----------------------------------------------------------------------------
(* The pieces the worker's steps are made of.                              *)

At(pc) == w' = [w EXCEPT !.pc = pc]
Ends == w' = Idle

\* _set_items: state and detail of every item, batch only when given.
SetItems(K, state, detail) ==
    intent' = [k \in Keys |-> IF k \in K
                              THEN [intent[k] EXCEPT !.state = state, !.detail = detail]
                              ELSE intent[k]]
SetBatch(K, b, detail) ==
    intent' = [k \in Keys |-> IF k \in K
                              THEN [state |-> "watching", batch |-> b, detail |-> detail]
                              ELSE intent[k]]
Quarantine == SetBatch(w.items, w.batch, "conflict")
Conflict == \E k \in w.items : intent[k].detail = "conflict"

\* auto_wake_store.report: the compare-and-set of one transition.
From(target) == IF target = "accepted" THEN {"dispatching"} ELSE Open
\* What _record_batch takes for "another observer already closed it".
AlreadyAs(target) == CASE target = "terminal" -> {"terminal"}
                       [] target = "uncertain-consumed" -> Closed
                       [] OTHER -> {"accepted"}

\* _record_batch: report, or accept that it was done, or quarantine. The
\* ledger call may raise, which is a quarantine too.
RecordBatch(target, next) ==
    LET st == batch[w.batch].state IN
    \/ /\ st \in From(target)
       /\ batch' = [batch EXCEPT ![w.batch].state = target]
       /\ At(next)
       /\ UNCHANGED <<intent, faults>>
    \/ /\ st \notin From(target) /\ st \in AlreadyAs(target)
       /\ At(next)
       /\ UNCHANGED <<batch, intent, faults>>
    \/ /\ \/ st \notin From(target) \cup AlreadyAs(target) /\ UNCHANGED faults
          \/ faults < MaxFaults /\ faults' = faults + 1
       /\ Quarantine
       /\ Ends
       /\ UNCHANGED batch

ChainNow == IF human /\ ~chain.fused /\ chain.fires > 0
            THEN Unused ELSE chain

-----------------------------------------------------------------------------
(* tick: the mode, the checkpoint, the due intents.                        *)

TickOff ==
    /\ w.pc = "idle" /\ mode = "off" /\ modeSeen # "off"
    /\ modeSeen' = "off"
    /\ IF modeSeen \in {"on", "shadow"} THEN At("sweep") ELSE UNCHANGED w
    /\ UNCHANGED <<intent, ledger, chain, counted, outside>>

\* _disable_sweep: undispatched intents are void.
DisableSweep ==
    /\ w.pc = "sweep"
    /\ SetItems({k \in Keys : intent[k].state \in {"pending", "shadow"}}, "void", "disabled")
    /\ Ends
    /\ UNCHANGED <<modeSeen, ledger, chain, counted, outside>>

TickShadow ==
    /\ w.pc = "idle" /\ mode = "shadow" /\ modeSeen # "shadow"
    /\ modeSeen' = "shadow"
    /\ UNCHANGED <<intent, ledger, chain, w, counted, outside>>

TickOn ==
    /\ w.pc = "idle" /\ mode = "on"
    /\ modeSeen' = "on"
    /\ At("checkpoint")
    /\ UNCHANGED <<intent, ledger, chain, counted, outside>>

\* checkpoint_active_chains: a provable human message resets the chain.
Checkpoint ==
    /\ w.pc = "checkpoint"
    /\ chain' = ChainNow
    /\ At("due")
    /\ UNCHANGED <<modeSeen, intent, ledger, counted, outside>>

\* _due: the intents a sweep may find due.
Due == {k \in Keys : intent[k].state \in Pending}

TakeDue(D) ==
    /\ w.pc = "due"
    /\ D \subseteq Due
    /\ w' = IF D = {} THEN Idle ELSE [w EXCEPT !.pc = "classify", !.items = D]
    /\ UNCHANGED <<modeSeen, intent, ledger, chain, counted, outside>>

-----------------------------------------------------------------------------
(* _process.                                                               *)

Ignored(D) == {k \in D : cons[k] = "ignored"}

Foreign(D) == {k \in D : cons[k] \in Batches /\ batch[cons[k]].owner # "self"}

\* Whose consumption is it? What the App has is closed; the first batch id of
\* the rest, in the order of the rows, is the batch followed for all of them.
Classify ==
    LET linked == w.items \ (Ignored(w.items) \cup Foreign(w.items))
        ours == {intent[k].batch : k \in linked} \ {"none"} IN
    /\ w.pc = "classify"
    /\ SetItems(w.items \ linked, "done", "other")
    /\ \/ linked = {} /\ Ends
       \/ /\ linked # {} /\ ours = {}
          /\ w' = [w EXCEPT !.pc = "fresh", !.items = linked]
       \/ \E b \in ours : w' = [w EXCEPT !.pc = "own", !.items = linked, !.batch = b]
    /\ UNCHANGED <<modeSeen, ledger, chain, counted, outside>>

\* Our batch already exists: never admit a second one for these keys.
OwnBatch ==
    LET st == batch[w.batch].state IN
    /\ w.pc = "own"
    /\ \/ /\ st \in Closed \cup {"released", "none"} /\ ~Conflict
          /\ SetItems(w.items, "done", "other") /\ Ends
       \/ /\ st \in Closed /\ Conflict
          /\ SetItems(w.items, "done", "other") /\ Ends
       \/ st \notin Closed \cup Open /\ Conflict /\ Quarantine /\ Ends
       \/ st = "reserved" /\ ~Conflict /\ At("post") /\ UNCHANGED intent
       \/ st = "accepted" /\ At("poll") /\ UNCHANGED intent
       \/ st = "dispatching" /\ At("uncertain") /\ UNCHANGED intent
    /\ UNCHANGED <<modeSeen, ledger, chain, counted, outside>>

\* _poll_run: the run store proves the end and the ledger closes, or not.
PollRun ==
    LET b == w.batch IN
    /\ w.pc = "poll"
    /\ \/ /\ run[b] \in Ended /\ batch[b].state \in Open \cup {"terminal"}
          /\ batch' = [batch EXCEPT ![b].state = "terminal"]
          /\ w' = [w EXCEPT !.pc = "close", !.out = run[b]]
       \/ At("uncertain") /\ UNCHANGED batch
    /\ UNCHANGED <<modeSeen, intent, cons, chain, counted, outside>>

\* Retried past RETRY_MAX_AGE_S: void. Then the chain gate decides.
Exhausted == {k \in w.items : intent[k].detail = "busy" /\ k \in aged}

\* Mutant: the fuse is not looked at.
GateOpen_NoFuse == mode # "off" /\ ChainNow.fires < ChainLimit

\* chain_gate, after chain_gate_checkpoint has applied a human checkpoint.
GateOpen == /\ mode # "off"
            /\ ~ChainNow.fused
            /\ ChainNow.fires < ChainLimit

Fresh ==
    LET rest == w.items \ Exhausted IN
    /\ w.pc = "fresh"
    /\ IF rest # {} /\ mode # "off" THEN chain' = ChainNow ELSE UNCHANGED chain
    /\ IF rest # {} /\ ~GateOpen
       THEN intent' = [k \in Keys |->
                IF k \in Exhausted THEN [intent[k] EXCEPT !.state = "void", !.detail = "exhausted"]
                ELSE IF k \in rest THEN [intent[k] EXCEPT !.state = "pending", !.detail = "other"]
                ELSE intent[k]]
       ELSE SetItems(Exhausted, "void", "exhausted")
    /\ IF rest # {} /\ GateOpen THEN w' = [w EXCEPT !.pc = "admit", !.items = rest] ELSE Ends
    /\ UNCHANGED <<modeSeen, ledger, counted, outside>>

\* admit may refuse a report as causally suspect while a batch is in flight.
MaySuspect == \E b \in Batches : batch[b].state \in Open
Unclaimed == {k \in w.items : cons[k] = "none"}

Admitted(A, b) ==
    /\ w.pc = "admit"
    /\ A # {} /\ A \subseteq Unclaimed /\ (A = Unclaimed \/ MaySuspect)
    /\ batch[b].state = "none"
    /\ batch' = [batch EXCEPT ![b] = [state |-> "reserved", owner |-> "self"]]
    /\ cons' = [k \in Keys |-> IF k \in A THEN b ELSE cons[k]]
    /\ w' = [w EXCEPT !.pc = "associate", !.batch = b]
    /\ UNCHANGED <<modeSeen, intent, chain, counted, outside>>

\* busy and quota_exceeded, suspect or ignored reports, a session that may
\* not be woken any more.
Refused ==
    /\ w.pc = "admit"
    /\ \/ SetItems(w.items, "pending", "busy")
       \/ MaySuspect /\ Unclaimed # {} /\ SetItems(w.items, "pending", "other")
       \/ \E k \in w.items : cons[k] = "ignored" /\ SetItems(w.items, "pending", "other")
       \/ SessionMayClose /\ SetItems(w.items, "void", "error")
    /\ Ends
    /\ UNCHANGED <<modeSeen, ledger, chain, counted, outside>>

\* Everything was claimed meanwhile: an own reservation is adopted, anything
\* else is left to whoever consumed it.
AlreadyConsumed ==
    LET claims == {cons[k] : k \in w.items} IN
    /\ w.pc = "admit"
    /\ claims \subseteq Batches
    /\ \/ \E b \in claims :
            /\ claims = {b} /\ batch[b] = [state |-> "reserved", owner |-> "self"]
            /\ SetBatch(w.items, b, "other")
            /\ w' = [w EXCEPT !.pc = "post", !.batch = b]
       \/ /\ ~ \E b \in claims : claims = {b} /\ batch[b] = [state |-> "reserved", owner |-> "self"]
          /\ SetItems(w.items, "done", "other") /\ Ends
    /\ UNCHANGED <<modeSeen, ledger, chain, counted, outside>>

Associate ==
    /\ w.pc = "associate"
    /\ SetBatch(w.items, w.batch, "other")
    /\ At("post")
    /\ UNCHANGED <<modeSeen, ledger, chain, counted, outside>>

-----------------------------------------------------------------------------
(* _dispatch: one POST, its stream, and what became of it.                 *)

EndpointDown ==
    /\ w.pc = "post" /\ EndpointMayFail
    /\ SetItems(w.items, "pending", "other") /\ Ends
    /\ UNCHANGED <<modeSeen, ledger, chain, counted, outside>>

\* The door's gate is a compare-and-set on reserved.
Post ==
    LET b == w.batch IN
    /\ w.pc = "post" /\ door[b] = "none"
    /\ IF batch[b].state = "reserved"
       THEN /\ batch' = [batch EXCEPT ![b].state = "dispatching"]
            /\ door' = [door EXCEPT ![b] = "gated"]
            /\ At("wait")
       ELSE At("non200") /\ UNCHANGED <<batch, door>>
    /\ UNCHANGED <<mode, modeSeen, intent, aged, cons, chain, human, run, ghosts, bounds>>

SeesReject ==
    /\ w.pc = "wait" /\ door[w.batch] = "rejected"
    /\ door' = [door EXCEPT ![w.batch] = "none"]
    /\ At("non200")
    /\ UNCHANGED <<mode, modeSeen, intent, aged, ledger, chain, human, run, ghosts, bounds>>

SeesStarted ==
    /\ w.pc = "wait" /\ door[w.batch] = "streaming" /\ ~w.run
    /\ w' = [w EXCEPT !.pc = "accept", !.run = TRUE]
    /\ UNCHANGED <<modeSeen, intent, ledger, chain, counted, outside>>

RecordsAccepted ==
    /\ w.pc = "accept"
    /\ RecordBatch("accepted", "wait")
    /\ UNCHANGED <<mode, modeSeen, aged, cons, chain, human, door, run, ghosts, toggles, humans>>

SeesTerminal ==
    /\ w.pc = "wait" /\ door[w.batch] = "streaming" /\ w.run /\ run[w.batch] \in Ended
    /\ door' = [door EXCEPT ![w.batch] = "none"]
    /\ w' = [w EXCEPT !.pc = "terminal", !.out = run[w.batch]]
    /\ UNCHANGED <<mode, modeSeen, intent, aged, ledger, chain, human, run, ghosts, bounds>>

\* Transport error, timeout, end of stream without a frame, cancellation.
StreamLost ==
    /\ w.pc = "wait"
    /\ At("unseen")
    /\ door' = [door EXCEPT ![w.batch] = IF @ = "rejected" THEN "none" ELSE @]
    /\ UNCHANGED <<mode, modeSeen, intent, aged, ledger, chain, human, run, ghosts, bounds>>

RecordsTerminal ==
    /\ w.pc = "terminal"
    /\ RecordBatch("terminal", "close")
    /\ UNCHANGED <<mode, modeSeen, aged, cons, chain, human, door, run, ghosts, toggles, humans>>

Non200 ==
    /\ w.pc = "non200"
    /\ IF batch[w.batch].state = "reserved"
       THEN SetItems(w.items, "pending", "other") /\ Ends
       ELSE At("unseen") /\ UNCHANGED intent
    /\ UNCHANGED <<modeSeen, ledger, chain, counted, outside>>

\* Mutant: the intent closes while the ledger is still open.
SettleUnseen_IntentFirst ==
    /\ w.pc = "unseen"
    /\ SetItems(w.items, "done", "other") /\ Ends
    /\ UNCHANGED <<modeSeen, ledger, chain, counted, outside>>

\* _settle_unseen: from the ledger's state, read now and acted on later.
SettleUnseen ==
    LET b == w.batch
        st == batch[b].state IN
    /\ w.pc = "unseen"
    /\ \/ st \in Closed /\ SetItems(w.items, "done", "other") /\ Ends
       \/ st = "reserved" /\ (w.run \/ Conflict) /\ Quarantine /\ Ends
       \/ st = "reserved" /\ ~w.run /\ ~Conflict
          /\ SetItems(w.items, "pending", "other") /\ Ends
       \/ st = "accepted" /\ w.run /\ run[b] \in Ended
          /\ At("provenTerminal") /\ UNCHANGED intent
       \/ st \notin Closed \cup {"reserved"} /\ At("uncertain") /\ UNCHANGED intent
    /\ UNCHANGED <<modeSeen, ledger, chain, counted, outside>>

RecordsProven ==
    /\ w.pc = "provenTerminal"
    /\ RecordBatch("terminal", "closeUncounted")
    /\ UNCHANGED <<mode, modeSeen, aged, cons, chain, human, door, run, ghosts, toggles, humans>>

RecordsUncertain ==
    /\ w.pc = "uncertain"
    /\ RecordBatch("uncertain-consumed", "closeUncertain")
    /\ UNCHANGED <<mode, modeSeen, aged, cons, chain, human, door, run, ghosts, toggles, humans>>

\* The items close; only a seen end is counted in the chain.
CloseItems ==
    /\ w.pc \in {"close", "closeUncounted", "closeUncertain"}
    /\ SetItems(w.items, "done", "other")
    /\ IF w.pc = "closeUncounted" THEN Ends
       ELSE At(IF w.pc = "close" /\ w.out = "completed" THEN "note" ELSE "fail")
    /\ UNCHANGED <<modeSeen, ledger, chain, counted, outside>>

\* Mutant: the note is written again when its commit seems to have failed.
ChainNote_Again ==
    /\ w.pc = "note" /\ counted[w.batch] < 2
    /\ chain' = [chain EXCEPT !.fires = @ + 1, !.fails = 0]
    /\ human' = FALSE
    /\ counted' = [counted EXCEPT ![w.batch] = @ + 1]
    /\ UNCHANGED <<mode, modeSeen, intent, aged, ledger, door, run, w, launched, bounds>>

ChainNote ==
    /\ w.pc = "note"
    /\ chain' = [chain EXCEPT !.fires = @ + 1, !.fails = 0]
    /\ human' = FALSE
    /\ counted' = [counted EXCEPT ![w.batch] = @ + 1]
    /\ Ends
    /\ UNCHANGED <<mode, modeSeen, intent, aged, ledger, door, run, launched, bounds>>

ChainFail ==
    /\ w.pc = "fail"
    /\ chain' = [chain EXCEPT !.fails = @ + 1]
    /\ counted' = [counted EXCEPT ![w.batch] = @ + 1]
    /\ IF chain.fails + 1 >= FuseAfter THEN At("fuse") ELSE Ends
    /\ UNCHANGED <<modeSeen, intent, ledger, outside>>

FaultFuse ==
    /\ w.pc = "fuse"
    /\ chain' = [chain EXCEPT !.fused = TRUE]
    /\ Ends
    /\ UNCHANGED <<modeSeen, intent, ledger, counted, outside>>

\* The gateway dies: worker, door and run store are memory.
Crash ==
    /\ faults < MaxFaults
    /\ faults' = faults + 1
    /\ w' = Idle /\ modeSeen' = "none"
    /\ door' = [b \in Batches |-> "none"] /\ run' = [b \in Batches |-> "none"]
    /\ UNCHANGED <<mode, intent, aged, ledger, chain, human, ghosts, toggles, humans>>

-----------------------------------------------------------------------------
Worker ==
    \/ TickOff \/ DisableSweep \/ TickShadow \/ TickOn \/ Checkpoint
    \/ \E D \in SUBSET Keys : TakeDue(D)
    \/ Classify \/ OwnBatch \/ PollRun \/ Fresh
    \/ \E A \in SUBSET Keys, b \in Batches : Admitted(A, b)
    \/ Refused \/ AlreadyConsumed \/ Associate
    \/ EndpointDown \/ Post \/ SeesReject \/ SeesStarted \/ RecordsAccepted
    \/ SeesTerminal \/ StreamLost \/ RecordsTerminal \/ Non200 \/ SettleUnseen
    \/ RecordsProven \/ RecordsUncertain \/ CloseItems
    \/ ChainNote \/ ChainFail \/ FaultFuse

Door == \E b \in Batches : DoorRejects(b) \/ DoorLaunches(b) \/ RunEnds(b) \/ DoorSettles(b)

Environment ==
    \/ \E k \in Keys : IntentRecorded(k) \/ IntentAges(k)
    \/ Toggle \/ HumanWrites \/ ChainRelease
    \/ \E k \in Keys, b \in Batches : AppClaims(k, b)
    \/ \E b \in Batches : AppMoves(b)
    \/ Crash

Next == Worker \/ Door \/ Environment
Spec == Init /\ [][Next]_vars

\* The event loop and its threads keep going, every stream ends by its
\* timeout, and retry delays are shorter than a sweep is late: an intent that
\* stays open is due again and again.
FairSpec ==
    /\ Spec
    /\ WF_vars(Worker) /\ WF_vars(Door)
    /\ \A k \in Keys : SF_vars(\E D \in SUBSET Keys : k \in D /\ TakeDue(D))

-----------------------------------------------------------------------------
(* Properties.                                                             *)

\* A batch starts at most one turn: no error answer, lost stream, crash or
\* retry makes the worker post a batch that was launched.
OneTurnPerBatch == \A b \in Batches : launched[b] <= 1

\* 01413 M4: whenever the worker rests, a batch in flight still has an open
\* intent that follows it, unless self-wake was switched off ("Marking the
\* intent done while the batch stays 'accepted' left a zombie").
NoZombie ==
    \A b \in Batches :
        (batch[b].owner = "self" /\ batch[b].state \in Open /\ w.pc = "idle")
            => \E k \in Keys :
                  /\ intent[k].batch = b
                  /\ intent[k].state \in Pending \/ intent[k].detail = "disabled"

\* The worker never posts a batch of the App's.
AppBatchesUntouched ==
    \A b \in Batches : batch[b].owner = "app" => door[b] = "none" /\ launched[b] = 0

\* A run moves the fuse at most once, whichever of stream, poll or recovery
\* saw it end.
CountedOnce == \A b \in Batches : counted[b] <= 1

\* A report recorded in shadow mode is never claimed by the worker.
ShadowNeverAdmits ==
    \A k \in Keys : (intent[k].state = "shadow" /\ cons[k] \in Batches)
                        => batch[cons[k]].owner = "app"

\* The four of them: no error answer, lost stream, crash, retry or edit of the
\* mode makes the worker wake twice, or for what is not its own.
WakesOnce == OneTurnPerBatch /\ AppBatchesUntouched /\ CountedOnce /\ ShadowNeverAdmits

\* A blown fuse lets nothing new be claimed until the administrator resets.
FusedStep ==
    \A b \in Batches : chain.fused /\ batch[b].state = "none" => batch'[b].owner # "self"
FusedAdmitsNothing == [][FusedStep]_vars

\* "Disable ... voids undispatched pending intents (shadow-era ones
\* included)": none is left once the worker has seen the switch.
DisableVoidsPending ==
    (mode = "off" /\ modeSeen = "off" /\ w.pc = "idle")
        => \A k \in Keys : intent[k].state \notin {"pending", "shadow"}

\* A claim that was not posted has an intent that will post it, unless
\* self-wake was switched off. (Crash between admit and association: "self
\* may take over its OWN reserved batch".)
ReservedHasOwner ==
    \A b \in Batches :
        (batch[b] = [state |-> "reserved", owner |-> "self"] /\ w.pc = "idle")
            => \E k \in Keys :
                  /\ cons[k] = b
                  /\ \/ intent[k].detail \in {"disabled", "exhausted"}
                     \/ intent[k].state \in Pending /\ intent[k].batch \in {b, "none"}

\* "Only unclaimed busy/quota intents use this fuse. An owned batch ... is
\* never abandoned here."
OwnedNeverAbandoned ==
    \A k \in Keys : (intent[k].detail = "exhausted" /\ cons[k] \in Batches)
                        => batch[cons[k]].owner # "self"

\* "was this report already consumed?" is always answered by the ledger: an
\* intent closes only for a report some batch consumed or the ledger ignored.
DoneMeansConsumed == \A k \in Keys : intent[k].state = "done" => cons[k] # "none"

\* selfwake_chain_limit: "max self wakes without a human checkpoint".
ChainWithinLimit == chain.fires <= ChainLimit

=============================================================================
