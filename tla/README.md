# Hermes App: a TLA+ model of its protocols

Hermes App is a chat client (Flutter, `src/app`) for a Hermes gateway, together
with a set of Python overlays (`src/compat`) that are loaded into that gateway and
a small web proxy (`src/web`). The overlays are where the system's durable protocols
live: they deliver the reports of cron jobs into chat sessions, decide which reports
may wake the model and start that turn at most once, take steers, approvals and
answers into a running turn, tell absent users what happened, and relay a link
between the App and the gateway. This directory holds a model of those protocols,
TLC configurations that check small instances of it, and TLAPS proofs, for instances
of every size, of the wake ledger and the cron bridge, of the worker and the ledger
connection it shares, of what reaches into a turn and of what leaves it.

## 1. The system

### 1.1 Components

| component | source | state it keeps | operations |
|---|---|---|---|
| wake ledger | `compat/auto_wake_store.py`, `auto_wake.py` | `wake_ledger.db`: `wake_batches`, `wake_consumption` | `admit`, `gate_dispatch`, `dispatch_failed`, `report`, `release` |
| wake door | `compat/compat.py` `_install_wake`, `_session_stream_target` | launch evidence of a request, `_run_statuses` (memory) | `stream`, `_settle`, live Bot Chat hand-off |
| batch reconciliation | `compat/wake_reconcile.py` | reads both databases | `reconcile_batches` |
| retention | `compat/ledger_retention.py` | archive files | wake, cron and notification passes |
| cron bridge | `compat/cron_delivery_store.py`, `app_platform.py` | `cron_bridge.db`: `pending`, `receipts` | `deliver`, `_attempt`, `drain_home`, two drain loops |
| self-wake registration | `compat/self_wake.py` | `selfwake_intents`, `meta` (generation, seek) | `on_delivered`, `reconcile`, `tick`'s mode handling |
| self-wake worker | `compat/self_wake.py` | intents, `selfwake_chain`, its own locals | `tick`, `_process`, `_dispatch`, `_settle_unseen`, `_poll_run`, chain fuse |
| ledger connection | `auto_wake_store.py` `open_ledger`, writers in `self_wake.py` | one SQLite connection and `LEDGER_LOCK` | locked transactions, unlocked `audit`, `chain_note`, `chain_fail` |
| installer and worker arming | `compat/compat.py` `install`, `Transaction`, `_selfwake_arm` | groups of bindings, owners, leases, manifest, routes; generation of a load | install, abandon, release, re-register; arm, reset |
| steer inbox | `compat/steer_store.py`, `steer_inbox.py` | `runs`, `steers`, `batches`, `purged_keys` | admit, tool boundary, flush, seal, recover |
| approval inbox and push | `compat/approval_inbox.py`, `approval_push.py` | entries of a run, reminder timers | capture, list, answer, settle hook, remind, kill switch |
| clarify bridge | `compat/patch_clarify.py` | forms and their waiting threads | callback, submit, run status, deadline, unload |
| session stream | `compat/compat.py` `_Bridge` and the stream copy | bridge table, listener, run status | start, ask, publish, stop, close |
| notification ledger | `notification_store.py`, `notification_events.py`, `ntfy_notify.py` | events, deliveries, reads, cursor, opt-ins, ntfy queue | deliver, poll, claim, report, read |
| detached-turn push | `compat/compat.py` push unit | per-run push state, discard consumer | status transition, detach, acknowledge, stop |
| activity registry | `compat/compat.py` activity unit | runs, observations, recent ends, coverage | status hook, observe, settle, snapshot |
| artifact quota | `artifact_quota.py`, upload unit | reservations | `reserve`, `finalize`, `release`, expiry |
| cross-source chat | `compat/crosssource.py` | outbox, synthetic run ids | send, merge, deliver, drain, follow |
| WebSocket bridge | `compat/wsbridge.py` | one link: queue, attachments, upstream; tickets | relay, replay, liveness, mint, redeem |
| web proxy | `web/serve.py` | connections, permits, drain tasks | proxy, stream, drain, deadlines |
| App outbox | `app/lib/data/ws_outbox.dart`, `ws_route.dart`, `gateway_ws.dart` | entries, their copy on disk, retry timer | enqueue, submit, flush, release |
| App auto-wake queue | `features/chat/auto_wake.dart`, `chat_controller.dart` | queue, cutoff, open batch, their copy on disk | scan, plan, admit, post, release |
| App: chat, call, settings, pages; Android shell; probes, tools | `app/lib/features`, `app/android`, `tools` | view state, local store | not modelled (section 7) |

### 1.2 How they interact

A cron execution ends in a call of `deliver` (from the gateway's live adapter or
from a process of its own). The report is first spooled in `cron_bridge.db`, then
written as a row of the *session database*, then acknowledged: spool row removed,
receipt written and, for a fresh row, a *self-wake intent* registered, all in one
bridge transaction. What could not be written stays in the spool for the drain loops.

A report in the session database is a candidate for a wake. Its clients, the App
and the self-wake worker in the gateway, call `admit` with delivery keys. `admit`
claims the eligible ones for a new *batch*. The client posts the batch to
`chat/stream`; the door moves it from `reserved` to `dispatching` before anything
starts, and starts the turn. Clients report `accepted`, `terminal` or `uncertain`,
and may `release` a batch that was provably never dispatched.

    deliver --> pending --> session database --> receipt + intent
                               |                     |
                               v                     v
                   App / self-wake worker --> admit --> batch --> door --> turn

    steers, approvals, answers --> turn --> status --> push, notifications, activity
    App outbox --> WebSocket bridge --> gateway      cross-source send --> turn --> stream
    browser --> web proxy --> gateway

The overlays are bound into the gateway by the installer, which also arms the worker.
Into a turn reach the steer inbox, the approval inbox and the clarify bridge; its
status is what detached push, notifications, the activity registry and the seals of
the three inboxes follow. Worker threads, the event loop, timer threads and request
handlers share all of these tables.

### 1.3 What is hard

* No transaction spans two databases, a database and a launched turn, or the App's
  memory and its disk; a process may die between any two steps.
* Handlers are coroutines. What they read before an await or an unlock may be stale
  afterwards; two locks are never held together, and one connection is shared with
  writers that take none.
* Clients report late, twice, or not at all; answers are lost with their connection.
* "Never twice" is demanded across crashes, retries and months, and retention deletes
  exactly the rows that remember.
* Threads wait for people: everything that ends a turn has to free them.
* Limits (quota window, cooldown, attempts, queue and registry bounds, permits,
  deadlines) are met from several sides.

`PROJECT.json` lists these hazards one by one, at the lines where they bite.

### 1.4 What makes each part correct

* Ledger and door: the two tables agree; no report is woken twice while the ledger
  remembers it; what is reserved or released has started nothing; closed batches
  stay closed; quota and content cooldown hold at all times.
* Bridge: one row per report; a delivered receipt is true and stays; nothing leaves
  the spool unaccounted, nothing stays there for ever.
* Registration: an intent is lost only where the code says it may be, none is made for
  what landed while self-wake was off.
* Worker: a batch is started once, counted once and followed to its end; batches of the
  App's are left alone; a blown fuse claims nothing; a tick ends; no worker outlives
  its load.
* Ledger connection: no half of a locked operation on disk, no answer taken back.
* Installer: between loads every unit is applied whole or not at all, whoever leaves.
* Steers: at most once, in order, with an honest receipt, none stranded by a seal or
  a restart. Approvals: an answer settles what it named; first outcome wins; one
  announcement, one reminder, none of a request gone before it was due. Answers: what was accepted is heard; no thread waits for
  an answer that cannot come. A closed stream leaves nothing behind.
* Notices: one alert per surface and phase, honest outcomes, no gap in the cursor; an
  absent viewer is told of the end once and a present one not at all; no ghost and no
  false idle in the registry; every live artifact is charged.
* Links: one turn per cross-source send, a stream shows its own turn; a request
  reaches the gateway once, after the replay of its session; a ticket opens one link;
  no connection half-owned, no permit lost, no call that hangs.
* App: sends go out in order and are never lost between composer, outbox and disk;
  reports from before the arming are not queued, later ones do not stay unclaimed.

## 2. The modules

| module | what it is |
|---|---|
| `WakeLedger` | ledger, door, clients, crashes, retention |
| `WakeOnce`, `WakeRefinement` | abstract specification, one wake per claim, and the mapping to it |
| `WakeLedgerProofs` | inductive invariant of `WakeLedger`, its consequences; lifecycle, quota, cooldown |
| `CronBridge`, `CronBridgeProofs` | spool, session database, receipts, intents, modes, crashes; proofs |
| `SelfWake`, `LedgerTxn`, `SelfWakeArm`, `Installer` | worker and chain fuse; shared connection; arming; loader |
| `SteerInbox`, `ApprovalInbox`, `Clarify`, `StreamTurn` | what reaches into a turn |
| `Notifications`, `DetachPush`, `Activity`, `ArtifactQuota` | what leaves it |
| `CrossOutbox`, `CrossFollow`, `WsBridge`, `WsTicket`, `WebProxy` | links and relays |
| `AppOutbox`, `AppWake` | the App's durable queues |
| `Lists` | taking one element out of a list, for the other modules |
| `MCWakeLedger`, `MCCronBridge`, `MCSelfWake` | constants for TLC |
| `MCWorker`, `MCTurn`, `MCNotices`, `MCLinks`, `MCApp` | instances of the components of one group, and the group's properties |
| `WorkerProofs` | proofs about `MCWorker`: arming, shared connection, worker |
| `TurnProofs` | proofs about `MCTurn`: stream, steers, approvals, forms |
| `NoticesProofs` | proofs about `MCNotices`: artifacts, activity, push, notifications |
| `LinkProofs`, `CrossProofs` | proofs about `MCLinks`: bridge, tickets and proxy; spool and streams of cross-source sends |
| `AppProofs` | proofs about `MCApp`: the outbox and the auto-wake queue |

Definitions named `X_Something` with a comment beginning "Mutant" are faulty
versions of `X`. No specification uses them; each shows that some property would
notice the fault.

**The groups.** Each of the five group modules instantiates its components, most of
them several times with different constants, and follows one instance at a time: a
variable `scenario`, chosen in `Init` and never changed, names the instance, and the
variables of the others rest in their initial state. The components of a group share
no variables: where one reads what another keeps (the worker reads the ledger, the
App's queue asks it) the component has its own reduced copy, named in its header.
Following one at a time therefore loses no interleaving inside a component; what
crosses components is in the reduced copies, not in the group. A scenario has the
bounds that let its own question happen (a crash in one, two racing requests in
another) and would be out of reach together with all the others. Each group property
is a conjunction over scenarios of named component properties, defined and commented
in the component's module.

Component modules state what they need of their constants as a definition (`Shape`,
`Limits`, `Parameters`, ...), and the `ASSUME Instances` of the group evaluates it for
every instance.

In each group a scenario's constants are a constant of the group: a record, for instance `Claims`, whose fields are the component's constants. The
component is instantiated once, with the record as a parameter (`Wk(cf)` is `SelfWake`
with the constants of the record `cf`), the configuration gives each record its value
(`Claims <- ClaimsBounds`), and the proofs leave it open. What TLC checks for one record
is so literally what the proofs establish for all of them.

### 2.1 WakeLedger

State: `batch` is `wake_batches` (a batch id not yet drawn is in state `none`, an
archived row in state `archived`), `cons` is `wake_consumption`, `door[d]` is a
`chat/stream` request by program point, `status[b]` is the `_run_statuses` entry of
the batch's run, `arrived[k]` the timestamp of the report row and `now` the clock.
`fired[b]` and `lost[b]` are history: how often a turn really started for a batch
and how often a hand-off raised after its turn had started.

Each ledger operation is one transaction under `LEDGER_LOCK` and one action.
`admit` with its checks (quota, existing claim, provenance, ignorable text, causal
suspicion, cooldown, batch size) is `Admit` and, when nothing is claimable,
`AdmitEmpty`, which still commits the ignored rows. The handler is split at every
point where something else can run or where it can fail: `Gate`, `DoorRejects`,
`HandoffStarts`, `HandoffReturns`, `HandoffRaises`, `StampRun`, `Launch`,
`StreamReturns`, `StreamRaises`, and `_settle` in its two thread hops `SettleReads`
and `SettleActs`. Clients are unconstrained (`Report`, `Release` of any batch at
any time), so every client, correct or not, is covered.

Abstractions:

* A refused call (busy session, policy, quota, wrong state) leaves the tables as
  they are: a stuttering step. A busy session therefore never makes a step
  impossible that the model allows.
* `auto_wake.py` normalises report texts. The model keeps what follows from it:
  which reports have the same `Source` and which are `Ignorable`.
* Which keys overflow `BATCH_MAX` depends on the order of the request, so any
  choice of that size is allowed.
* `_run_and_signal` sets the run to running when its task gets going; the model
  does so when the task is created. `_settle` treats queued and running alike.
* `wake_reconcile` closes a batch with the time the run ended: any time between
  the batch's creation and now. Settlement from done intents without a run
  snapshot cannot be reached from the worker and is left out.
* A request does not live as long as the retention TTL of 90 days (`Expired`).
* A batch id is `secrets`-random and never reused; the model draws fresh ones.

### 2.2 WakeOnce

The promise about one report: free, held, closed, ignored; a claim is given back
only if no turn started; at most one turn per claim; only a closed claim may be
forgotten. `WakeRefinement` reads a report's phase off its consumption row and the
state of the batch holding it. The mapping is stated for hosts without the live Bot
Chat lane (`LiveBotChat = FALSE`): with it a raised hand-off can start a second
turn (section 6.1), which `WakeOnce` forbids.

### 2.3 CronBridge

State: `row` is the committed report (by digest of its text), `pending` the spool,
`receipt`, `intent`, then the self-wake memory: `passed` (reports at or before the
reconcile seek or the generation's cutoff), `based` (a generation exists), `mode`
(configuration), `seen` (`_mode_seen`, memory of the worker). `task[p]` and
`todo[p]` are what a `deliver` call or a drain pass holds in memory. History:
`inserts` counts rows ever written, `gap` the reports whose writer died before the
acknowledgement or whose registration failed, `offEra` those acknowledged in off mode.

A `deliver` call is `Deliver` (spool), `ReadReceipt`, then `EchoDrops` or
`SenderAttempts` (the session database transaction) and `Ack`. A drain pass is
`DrainSelects`, then `DrainAttempts` and `Ack` row by row. `Ack` contains the whole
acknowledgement: spool row, receipt, intent and, if it is the first, the generation.
`Tick` is the mode handling of the worker's tick with its disable sweep and
generation bump, `Reconcile` the crash-gap compensation. `GatewayCrash` takes both
drainers, the worker and the calls inside the gateway; `SenderDies` a standalone one.

Abstractions: the session database accepts or refuses a write as it likes (turn
lease, lock, target policy, missing session); report texts are digests; due times
are a flag that a finite backoff sets again; an intent's later life (watching, done)
belongs to the worker. `Retire` happens 90 days after the last word about a report,
so no call about it is in progress and the worker has had its ticks. `Tick` sets the
mode seen and does the sweep or the new generation in one step: `_busy` keeps a second
tick out, and a crash between the two leaves what a crash before the tick leaves.

### 2.4 The worker's side

**SelfWake.** State: the mode and `_mode_seen`, `intent` (`selfwake_intents`), `chain`
(the lineage's row of `selfwake_chain`), the worker `w` with its program point and
locals, the door's request, the run and the ledger as the worker sees it (`batch`,
`cons`: `WakeLedger` has it in full). `tick`, `_process`, `_dispatch`,
`_settle_unseen`, `_poll_run` and `_record_batch` are cut at every ledger call,
request and chain counter, so the App can claim, a human write, the door settle and
the process die in between. `launched` and `counted` are history. One session and its
lineage; fair rotation between sessions and the audit trail are left out; a delay
(`next_attempt_at`, cooldown) is a sweep that does not take the intent.

**LedgerTxn.** One connection as a set of uncommitted writes. A locked operation is
lock, `BEGIN IMMEDIATE`, two writes, commit or rollback, unlock; an unlocked writer
fetches the connection under the lock, then writes and commits whatever is open. A
`BEGIN` inside an open transaction raises.

**SelfWakeArm.** Loads and unloads happen on loader threads, the worker is a task of
the loop; an arm is a posted call that carries module and generation.

**Installer.** `install` binds the units in order inside one lock; values are layers of
wrappers; a group is shared by the managers that own it and leaves with the last; the
loader may abandon a load, run a manager's leases newest first, or register it again;
a third party may bind over ours. What each unit binds is a constant; a unit may bind
one attribute twice, as the approval unit does with `_handle_session_chat_stream`
(`compat.py:3180` and `:3398`), and `restore` then undoes the newer binding first.

### 2.5 What reaches into a turn

**SteerInbox.** The three tables, the tail of the agent's messages, history, and the
requests in progress. Admission, tool boundary and seal hold the run's guard and are
one step each; confirmation and recovery go transaction by transaction, and recovery
may itself be interrupted. A request has read the run's status before its body.

**ApprovalInbox.** One run: the core's queue (external), the inbox's entries, captures
on worker threads, GET and POST on the loop, reminder timers, the kill switch. The core
lock and the inbox lock are never held together, so every locked part is a step. A
fired timer holds nothing: it reads the entry, the queue, the kill switch and the run's
status in steps of their own (`FireStarts`, `FireChecks`) and publishes in another
(`FirePublishes`); `late` remembers the requests that were gone when it fired.

**Clarify.** A thread asks a form of questions and blocks; answers, the run's status,
the deadline and the unload end the wait. The table of `tools.clarify_gateway` is
external; whether a cancelled entry keeps an earlier answer is left open.

**StreamTurn.** Handler, task and worker thread of a session-SSE turn of the base
backend, with the bridge through which the worker's approvals reach the viewer; every
close (worker, task, stop, disconnect, unload) is an action, posted calls run in order.

### 2.6 What leaves a turn

**Notifications.** Events, one delivery row per event, phase and channel, producers
(`deliver`, one step per store call), devices that poll, claim and report, the bounded
ntfy queue, opt-ins, the change cursor, retention, restarts. Wording is left out. An
event grows old (`Ages`) 90 days after its last change, so no call about it and no claim
of a device is still under way (`Quiet`).

**DetachPush.** One turn: transitions posted by worker threads and run on the loop,
frames to the writer, detach, acknowledgement, stop, unload. FIFO order of posted calls
and frames is asyncio's.

**Activity.** The gateway's turns (external), the registry's entries, coverage, load
and unload, and a snapshot that reads the session's ids first and the registry later,
with rotation to child sessions in between. Previews, scopes and page caps left out.

**ArtifactQuota.** Uploads of several processes, the one-shot read, expiry and crashes
over one table of reservations and the external store.

### 2.7 Links

**CrossOutbox.** The outbox table, `_run` with its lock, refusal, attempts and
backoffs, folding of resends, and the drain after a load. **CrossFollow.** The stream
after the injection: watermark, attach, replay, frames, and the registry of synthetic
ids; the gateway's admission queue and event stream are external.

**WsBridge.** Reader, serial worker with its bounded queue, upstream task, replay and
background resumes of one link. The gateway subscribes a connection on
`session.resume` and refuses writes on one that has not resumed. **WsTicket.** The
sniffing of a head that arrives cut anywhere, single-use tickets, and the upgrade.

**WebProxy.** Who owns the connection to the gateway, and the permits of the
big-download semaphore, between every two awaits of `api_proxy` and its coroutines;
time passes in ticks so that header deadline, idle clock and drain ceiling can race
with an answer.

### 2.8 The App

**AppOutbox.** One isolate: a step is what runs between two awaits. Entries, their
persisted copy (writes are done in the order asked), the chain of bodies, the retry
timer, the link. The owner behind the bridge admits each submission id once.
**AppWake.** The observer's state and its persisted copy, scans and store
transactions, the lane from plan to POST, the user's typing and switching, another
client of the ledger.

## 3. The runs

| run | shows |
|---|---|
| `wake_ledger` | `ClaimsAgree`, `NoSecondWake`, `SourceCooldown`, `BatchLifecycle`, `ImplementsWakeOnce`: 2 reports with one text, 2 batches, 2 requests, crash at any time, clock 0..1, retention |
| `wake_limits` | `QuotaHeld`, `ReservedIsUndispatched`: 2 sessions under a profile limit of 1, live Bot Chat with one raised hand-off per batch |
| `cron_bridge` | `OneRow`, `DeliveredIsCommitted`, `NothingDropped`, `IntentLostOnlyInGap`: 1 report, 2 texts, 1 inside and 1 standalone sender, 2 drainers, 1 crash, 1 retired receipt |
| `cron_drains` | `OffEraStaysHistory`, `SpoolDrains` (fair): 3 edits of the mode, registrations that fail, 1 crash |
| `worker` | `WakesOnce`, `BatchesFollowed`, `FusedAdmitsNothing`, `LedgerAtomic`, `NoZombieWorker`, `LoadsAreWhole`, `WorkGetsDone` (fair), 9 scenarios |
| `turn` | `SteersOnce`, `ApprovalsExact`, `AnswersHeard`, `TurnsClose`, `VerdictsStick`, `WaitsEnd` (fair), 11 scenarios |
| `notices` | `NoticesOnce`, `ActivityHonest`, `ArtifactsCharged`, `StepsHonest`, `NoticesArrive` (fair), 13 scenarios |
| `links` | `CrossOnce`, `LinkHonest`, `ProxyOwns`, `LinkSteps`, `CallsEnd` (fair), 13 scenarios |
| `app` | `SendsKept`, `WakesAreNew`, `SendsGoOut` (fair), `ReportsAreWoken` (fair), 5 scenarios |
| `wake_handoff_replay`, `cron_crash_gap`, `self_wake_zombie` | the three findings of section 6.1 (violations) |

A run takes between a few seconds and a little over two minutes on two cores and
reaches between 190,000 and 950,000 distinct states.

**Bounds.** Two batches are the least for which a claim can be fought over, released
and claimed again; two requests the least for a race at the door; two drainers and two
senders the least for every pair of roles to meet on one report (the bridge treats
reports separately except for the seek, so one report is enough there). In
`wake_ledger` the cooldown of one step lets the second report be ignored inside it and
claimed after it. In `wake_limits` the profile limit binds across sessions; all limits
and windows are covered by the proofs. In the groups each scenario names its constants
in a comment above its instance: two of whatever races (reports, steers, requests,
devices, forms, managers, module copies, senders, uploads), one crash or restart, one
more item than a bound admits where the bound is the question (steer queue, registry,
opt-ins, ntfy queue, permits, synthetic ids), and deadlines of two or three ticks so
that an answer can come before, at and after them. Constants called `Max...` bound what
the environment does; where a proof exists they, and every set, are arbitrary.

**Deadlock.** The cron and group configurations switch the deadlock check off: once
the bounded environment is done (calls made, steers sent, the user stopped typing)
these systems have nothing left to do. That nothing is stuck before that is what the
liveness properties say. The wake configurations leave it on, although a crash is
always possible there and the check says little.

**Symmetry.** Batch, request and drainer ids, and texts, are only compared for
equality. Keys are interchangeable where all belong to one session and repeat one text
(`wake_ledger`). The liveness runs use no symmetry, so none of the groups does.

**Fairness.** Liveness in the groups is stated as `[]<>Quiet` (it always comes back to
a state where nobody waits) or as leads-to, each in scenarios of its own, under weak
fairness of exactly these steps:

* `cron_drains`: the drain passes and the backoff. `connect` and `arm_loop` start the
  two loops, each of which runs a pass every `DRAIN_INTERVAL` while the gateway lives
  and survives exceptions of a pass. Nothing is assumed of senders or of the target.
* `worker`: the worker's own steps (a task of the loop; every request it awaits has a
  timeout), the door's handler, and strong fairness of the sweep that takes a due
  intent (a backoff is finite, and the sweep runs for ever); posted arms, which the
  loop runs.
* `turn`: recovery after a restart; the core's withdrawal of a request at its own
  timeout, its hook, captures, answers and the App's refreshing GET; threads of forms
  and the run-end cancel; the steps of the turn's task and worker once its bridge is
  closed. A user is never obliged to answer.
* `notices`: producers, the ntfy sender, polling devices (the App polls while it is
  open), the retention pass; the loop, the writer and the turn itself for push.
* `links`: the steps of a delivery and strong fairness of its lock (asyncio locks are
  FIFO), the gateway's turns and frames, the bridge's tasks; in `held` everything but
  the call the gateway holds; the proxy's clock, timers and handlers, never the
  browser or the gateway.
* `app`: the event loop, the preference store, the owner's answers, the reconnect and
  the retry timer; commits, lane and store transactions of the wake queue, the end of
  turns, and that the user stops typing. Bounded drops mean that the link comes back.

**Choices to know.** `switched` in `MCApp` has no typing: a release after a re-arming in
mid-lane can put an older report back into the queue. `reloaded` in `MCNotices` has no
synchronous chats, which the rotation scan does not see, and `queued` in `MCApp` has no
live turns, whose parked entry nothing retries: the divergences `NeverFabricatedIdle`
and `SpentGoesOut` of section 6.2. `StepsHonest` states of a snapshot what holds for
every value of the constants (`LiveTurnListed`), with `Tip = 3` so that a session can be
compressed before and after it is resolved. The bounds of the other passing scenarios
leave out the divergences of that section in the same way; each entry there names the
constants that let it happen.

## 4. The proofs

All theorems hold for every value of the constants that satisfies the named
assumptions. Those of the core are `Limits`, `BatchMaxPositive`, `ReportShape`,
`FiniteBatches`, `NullsAreNoIds` in `WakeLedger`; `Processes`, `Attempts`, `Bounds`,
`NullIsNoContent` in `CronBridge`. They say that limits are natural numbers, that a
batch may hold something and at least one attempt is made, that every report has a
session and a source, that null values are no ids, and that senders are no drainers.
`FiniteBatches` is needed to count batches against the quota. The theorems about a group
assume its `Instances` and, where this section says so, that what makes a property false
is left out of a scenario. `Instances` says that the record of every scenario has the shape
its component asks for (sets are sets, limits are natural numbers, what is counted or
queued is finite, names of different kinds are told apart), without a bound on anything.

**WakeLedger.** `NoSecondWake` is not inductive: that a batch fires once depends on
no other request holding it, on the meaning of evidence at the door, and on claims
not moving while a batch is live. The invariant `IInv` (theorem `Invariant`) adds

* `ClaimRows` and `BatchRows`: a consumed key names a batch and carries its creation
  time, other keys name none; batches were created in the past and hold keys of their
  own session;
* `DoorHolds`: a busy request holds a batch that has left `reserved` and that no other
  request holds;
* `Launches`: how many turns a batch has started follows from its state and from
  where its request stands, with or without evidence.

`NeverASecondWake`, `ReservedNeverStarted` and `ClaimsAlwaysAgree` follow from it.
`WakeLedgerProofs` uses it for `LifecycleHolds` (an action property) and for
`CooldownKept` and `QuotaNeverExceeded`, which are inductive relative to `IInv`. The
cooldown needs that a claim carries its batch's creation time, so that `admit`'s look
at the consumption table speaks about batches. The quota is a counting argument: a
step adds at most one batch to a window, only when there was room, and time only
empties windows.

**CronBridge.** `IInv` conjoins `TypeOK`, `RowCount` (a report with a row has one
insert, one without has none), `DeliveredIsCommitted`, `NoOrphan` and `Remembered`:
what each process holds in memory is still true when it acts on it. A delivered or
dedup outcome means that the committed row is the one of the job, an echo that the
row is committed.
`Remembered` is what makes the late acknowledgements of a dead or slow process
harmless, and is why the properties hold although receipts are read outside the
transactions that act on them. `NeverASecondRow`, `DeliveredMeansCommitted`,
`NeverOrphaned`, `NeverDropped` and `DeliveredStays` follow.

`IntentKept` needs `Accounted`: a committed report has its intent, or the process that
wrote its row is still to acknowledge it, or it is known why it has none. `OffEraIsHistory`
(for `MaxRetired = 0`) needs `History`: of what landed in off mode a delivered receipt is
kept, which keeps `Reconcile` from registering it, and no process is left to do so in `Ack`.

**The refinement.** `ImplementsOnce` (in `WakeLedgerProofs`) is `ImplementsWakeOnce` for
`LiveBotChat = FALSE`: `IInv` gives the value of `fired` in every state of a batch, so
each action maps to one action of `WakeOnce` for the reports of its batch, or to a stutter.

**The worker's side (`WorkerProofs`).**

* `NoWorkerOutlivesItsLoad`: the generation counts loads and unloads and an arm carries
  the one it was posted in; the posted ones are bounded by it and an old one is refused.
* `LedgerIsAtomic`: who is inside a transaction holds the lock, and what it has written
  is in the open transaction or, when an unlocked writer committed, in the file. Without
  unlocked writers the transaction holds exactly what the holder of the lock wrote.
* `TheWorkerWakesOnce`: that a batch is started once depends on who may post it again.
  `WakeInv` adds what door, launches and the batch's state say of each other
  (`BatchFacts`); that a batch in hand or in an intent is the worker's own (`OwnFacts`);
  that one counted is closed and one that may yet be counted was not (`CountFacts`); that
  what it claims or has in hand was registered to be woken (`ClaimFacts`). Errors, lost
  streams and crashes change the worker's program point, never these facts.
* `TheFuseHolds`: only the worker blows the fuse, so the gate it read before `admit` is
  still true (`GateFacts`).
* `LoadsStayWhole`: a unit is taken off by a compare-and-set per attribute, so that it
  leaves nothing behind depends on the order in which layers were put there and are taken
  away, by several managers. `LoadInv` says of the groups that one published has all its
  changes, or those set so far by the load at it (`GroupsFit`), and that its owners have
  leases on it (`Leased`); of the managers that who is kept owns every compatible unit,
  and who owns a unit owns those before it (`OwnersFit`, `Nested`); of the leases that
  those still good were taken in the order of the units (`LeasesFit`), so the newest is
  the one on top; of each attribute that its value is the stack of the units that hold
  it, each change made on the value of the one below (`Again`, `TopIsBound`, `Chained`,
  `BoundShows`, `OldShows`); and that while somebody is kept the routes serve what is
  bound (`RowsFollow`). A release then finds on top the very value it set, or a unit
  above that will leave first. All this is for managers that load one after the other
  and without third parties (`Overlap = FALSE`, `Third = {}`), which the theorem assumes
  of `Loads`: with overlapping loads `KeptHolds` is false (section 6.2). What holds there
  as well, types, leases, manifest and the layer of a third party, is `LoadBase`.

**Into a turn (`TurnProofs`).**

* `EveryTurnCloses`: where worker, status and bridge stand at each stage of the task, and
  which posted calls may still be to run (`StageFacts`, `CallFacts`, `OutFacts`).
* `EverySteerOnce`: a row names the one batch the steer was injected with
  (`CarriedFacts`), a delivered one has its batch in the history and a recovery acts on
  true evidence (`EvidenceFacts`, `DeliveredFacts`), what waits is younger than what went
  (`OrderFacts`), and the seal leaves nothing accepted (`StrandedFacts`).
* `EveryApprovalExact`: a request is held by one capture, which has made no entry before
  its insert (`CaptureFacts`); an entry has an outcome exactly when it is over
  (`EntryFacts`); an answer that named a request got that one or none (`AnswerFacts`);
  a firing about to publish is the first one of its request (`FireFacts`).
* `EveryAnswerHeard`: a form has collected a prefix of the one answer accepted for it and
  the rest stands in its questions (`AnsweredBy`); questions are cancelled only once the
  run or the overlay is over.
* `VerdictIsFinal`: the four action properties, each from its component's invariant. For
  the reminders, `FireFacts`: a request that was gone when its timer fired stays gone, so
  the queue or the run's status, read later, stops the firing before it publishes. A
  request that goes after those reads is `RemindsLive` of section 6.2.

**Out of a turn (`NoticesProofs`).**

* `EveryByteCharged`: rows are within the limits (`RowsWithin`), a live file has a row
  that lives as long (`DiskFacts`), and an upload that has stored nothing yet has a row
  with a receipt's life left (`UploadFacts`). The bytes of a set of rows are a fold;
  that they do not depend on the order, and grow with the set, is shown by taking a
  smallest set for which it fails (`Minimal`), which needs no induction schema.
* `ActivityIsHonest`: a queued or running turn has an entry as long as the hooks see it
  (`TurnFacts`), and without reloads a closed entry is remembered (`HookedFacts`).
* `AlertsAreOnce`: a call that publishes owns a claimed row whose alert was not accepted
  yet, and no other call publishes for it (`CallFacts`, `Alone`); a row whose alert left
  stays claimed until its event is archived (`RowFacts`); a queued alert was not sent and
  is queued once (`QueueFacts`); changes are numbered in order and a page is closed
  downward, so a cursor passes nothing (`CursorFacts`).
* `StepsAreHonest`: retention takes only what was read and is not under way; a stopped
  run pushes nothing more; a snapshot lists the running turns `LiveTurnListed` names.

**The links (`LinkProofs`, `CrossProofs`).** `cf` is the record of a scenario.

* `LinkIsHonest`: a ticket still in the store has opened nothing (`StoreFacts`), and a
  connection has passed on all it has read or nothing, the one that asks for its ticket
  itself nothing (`PieceFacts`).
  Requests are numbered: what is answered, held by the worker, in its inbox and on the
  wire are consecutive numbers, so none is answered or relayed twice (`PipeFacts`,
  `RelayFacts`); a ready link has subscribed again to all it was attached to, on the
  connection it has now (`LinkInv`).
* `ProxyIsOwner`: what a handler owns at each of its program points, for the gateway
  connection (`OwnerOf`), the run and its drain (`RunOf`) and the permit (`PermitOf`); the
  waiters are the handlers that wait, each once, and the free permits and their holders
  make up the whole (`SlotFacts`, a count). It assumes `~Proxied.Shutdown`: a runner that
  shuts down cancels handlers and drains, which is a divergence of section 6.2; the
  scenario `dismissed` states what is left then, that permits are conserved.
* `SendsFollowedOnce`, the spool. A row is held by one at a time and only until it is
  delivered (`LockFacts`); what is being recorded was injected (`SentFacts`), and became no
  turn only if its route closed (`RouteFacts`); and a row was injected as often as it has
  crashes between injection and record, plus one if that is done or under way
  (`OnceFacts`). Rows that are taken out of the queue (too old, or
  folded into a newer one) may have a request of their own that has not looked yet, so
  that a row starts one turn is stated for constants for which nothing is taken out
  (`Unmarked`) or nobody else waits (`Alone`), and `OneOpenRow` and `OneSender` are the
  invariants of these two cases. Both cases meet the bounds of a scenario; what happens
  without them is in section 6.2.
* `SendsFollowedOnce`, the stream. A frame carries its place in its turn (`n`, which no
  code reads). What an attached stream has not read yet is the rest of its turn, or the
  announcement and all of it, or nothing since the turn was before or after the session
  it listens to (`Reads`); the log of the live session tells a turn whole or not at all
  (`LogFacts`); an id is bound to its own stream (`BoundFacts`). All this needs that no
  two sends have one text (`~SameText`), since the code recognises its send by its text;
  without it see section 6.2.
* `StepsAreSafe`: the five action properties. A resend: rows that are not marked are in
  order of creation, and the window ends before a row can be marked as too old. An open
  id: a registry evicts a released id before an open one. The others read off the
  component's invariant what the handler knew when it took the step.

**The App (`AppProofs`).**

* `WakesStayNew`: the queue of the state in memory, of its copy on disk and of what a
  scan or a store transaction is about to write holds reports that are younger than the
  cutoff of that state and that no batch of it took (`QueueFacts`, `BatchFacts`,
  `LaneWrites`); the plan of a lane is younger than the cutoff of the state it was read
  from, and that state cannot be replaced while its items may still go back (`NewInv`).
  In `steady`, what the App has stopped to queue has an owner in the ledger
  (`OwnedFacts`). It assumes `Switched.MaxTyping = 0`, since a user who types at the
  edge of the POST sends the items of an old plan back into a new state (section 6.2),
  and `~Steady.OtherFrees`: a batch that another client gives back has no owner for
  a while, whatever the App has done about its reports.
* `SendsStayKept`: `OutboxInv` says where a text can be between two awaits. One that
  has come to the outbox and is not over (`Settled`: admitted, back with the user, or on
  its way to a draft) is an entry, and every write from the one of its own `enqueue` on
  has it, as has the disk once that one is done (`Present`, `SavedFacts`); the one whose
  removal is being written for a refusal is on disk until that write is done. Writes are
  the turns' first ones and at most one removal, the current body's (`WriteFacts`); what a
  live turn claims is claimed until its own body has ended (`ClaimFacts`), the turn of a
  session is its last text (`SendFacts`), and of what is on the wire, given up or admitted
  all older texts of the session are over (`OrderFacts`): a flush passes by claimed
  entries only, and none of those has a younger text behind it. The order of admission
  follows, since nothing that is over is admitted later (`InTurn`), unless it was refused:
  a request the App had given up on before the refusal may still land. So the theorem
  assumes of `turns` that nothing is refused, and of `refused` that the App does not
  die, without which `SpentSurvives` is false (section 6.2).

**Only model-checked.** Liveness (`SpoolDrains`, `WorkGetsDone`, `WaitsEnd`,
`NoticesArrive`, `CallsEnd`, `SendsGoOut`, `ReportsAreWoken`), which is out of the
prover's reach, as is `ENABLED`. `BatchesFollowed` is not true for every value of the
constants: with two batches it is what `self_wake_zombie` violates. No module declares a
recursive operator. Where a proof needs an induction over data, as for the undoing of a
list of changes, it takes the least place at which the claim fails (`LeastIs`) from the
library's theorem on well-founded orders.

## 5. Mutants

Every property of every passing run has a mutant in `PROJECT.json`: a mapped
definition and a faulty version of it that the property detects, for instance a
release that forgets the claims, a quota off by one, a revert without the
compare-and-set, an attempt that does not look for an earlier row, a steer batch
claimed without a mark, an answer that settles the head of the queue instead of the
request it names, a request relayed again after its connection was lost, a retry
timer that is never armed.

## 6. Where the code and its documentation disagree

### 6.1 Findings with a run

1. `wake_handoff_replay`. The evidence of a live Bot Chat hand-off is written only
   after the hand-off returned. If it raises or is cancelled while the owner is
   running the turn, `_settle` takes the batch for never launched and reserves it
   again. `lost` counts these cases so that everything else can still be stated.
2. `cron_crash_gap`. After a death between row and acknowledgement the spool row
   is still there, and the drain pass that the restart runs finalizes the report as
   dedup, without an intent. `reconcile` then finds a receipt and skips it, so the
   gap it is meant to close stays open. `IntentLostOnlyInGap` shows that this is, with
   a failed registration, the only way an intent is lost.
3. `self_wake_zombie`. Intents of one session that fall due together are all given
   the batch of the first; the batch another one followed stays in flight with nobody
   to settle it.

### 6.2 Further divergences

The following have no run of their own. Each names the property that states what the
code or its documentation says, the line where the code departs from it, and the
constants of the module with which TLC finds the counterexample (an action formula is
checked as `[][P]_vars`). Instances of `Installer` use the units and bindings of
`MCWorker`; `k1`, `b1` and the like are model values; constants that are not named are
`FALSE`, 0 or empty.

**WakeLedger**

* `ConsumedIsFinal`, `compat/ledger_retention.py:75`. The retention pass deletes the
  wake_consumption rows of batches closed 90 days ago, so admit finds no prior claim,
  and a report still in the session's lineage can be claimed and woken a second time.
  src/compat/auto_wake_store.py:14 says "Consumed is final: accepted runs that fail, get
  cancelled, or answer NO_REPLY all STAY consumed" and :468 "Consumption verdict for one
  report, permanent across restarts"; src/app/lib/features/chat/auto_wake.dart:307
  relies on "the ledger permanently owns the key". Shown with `Keys = {k1}`, `Sessions =
  {s1}`, `Batches = {b1, b2}`, `Doors = {d1}`, `SessionOf = OneSession`, `Source =
  OwnSource`, `SESSION_WAKE_LIMIT = 2`, `PROFILE_WAKE_LIMIT = 2`, `BATCH_MAX = 2`,
  `QUOTA_WINDOW = 1`, `MaxNow = 1`.

**CronBridge**

* `OffEraStaysHistory`, `compat/self_wake.py:779`. The generation is bumped only if this
  process saw the mode off before (_mode_seen is memory). Off edited to on around a
  restart keeps the old cutoff; the off-era report is then protected by its delivered
  receipt alone, and once retention has archived that receipt reconcile registers an
  intent for it. src/compat/README.md:142 says "Re-enabling bumps the enable generation
  so reports that landed while disabled stay history". Shown with `Reports = {r1}`,
  `Contents = {c1}`, `Senders = {s1}`, `Drainers = {d1}`, `DRAIN_MAX_ATTEMPTS = 2`,
  `MaxCalls = 1`, `MaxCrashes = 1`, `MaxEdits = 2`, `MaxRetired = 1`.

**SteerInbox**

* `HandedOnce`, `compat/steer_inbox.py:310`. _admit_via_authority lets the core take the
  steer and records the receipt afterwards; if record_handoff raises, the client sees an
  error, retries under the same id, finds no receipt and the core takes the steer a
  second time. src/compat/compat.py:4591 advertises "idempotent": True and
  src/compat/steer_inbox.py:32 says the ledger records the receipt for "idempotency".
  Shown with `Runs = {r1}`, `Keys = {k1, k2}`, `Batches = {b1, b2}`, `Requests = {q1,
  q2}`, `AuthorityRuns = {r1}`, `OUTSTANDING_LIMIT = 1`, `RecordMayFail = TRUE`,
  `MaxRestarts = 1`.

**SelfWake**

* `ReservedHasOwner`, `compat/self_wake.py:1049`. After a crash between admit and
  _set_items the claim has no batch id in its intent. If another report is due in the
  next sweep, admit answers admitted for that one and all linked intents are associated
  with the new batch; the adoption at line 1070 is only tried when admit answers empty.
  src/compat/self_wake.py:1071 says "Crash AFTER admit, BEFORE intent association: the
  owner column proves whose reservation this is - self may take over its OWN reserved
  batch". Shown with `Keys = {k1, k2}`, `Batches = {b1, b2}`, `ChainLimit = 2`,
  `FuseAfter = 3`, `MaxFaults = 1`.
* `DoneMeansConsumed`, `compat/self_wake.py:965`. Intents without any claim are linked
  together with a batch that is being retried, and are closed as done when that batch
  ends. The report was never admitted. src/compat/self_wake.py:9 says "was this report
  already consumed?" is always answered by the B ledger. Shown with `Keys = {k1, k2}`,
  `Batches = {b1}`, `ChainLimit = 2`, `FuseAfter = 3`, `DoorMayReject = TRUE`.
* `ChainWithinLimit`, `compat/self_wake.py:1037`. chain_gate is asked before admission,
  and fires are counted when a run completes; batches reserved while the listener is
  down or the door refuses pass the gate one by one and all run later without it.
  src/compat/self_wake.py:18 says of selfwake_chain_limit "max self wakes without a
  human checkpoint". Shown with `Keys = {k1, k2}`, `Batches = {b1, b2}`, `ChainLimit =
  1`, `FuseAfter = 3`, `EndpointMayFail = TRUE`.
* `OwnedNeverAbandoned`, `compat/self_wake.py:1014`. The age fuse looks at the intent's
  batch id only. After a crash between admit and association the intent still says busy
  and has no batch id, although its key is claimed by our own reserved batch, and is
  voided. src/compat/self_wake.py:1011 says "Only unclaimed busy/quota intents use this
  fuse. An owned batch follows the settlement path above and is never abandoned here.".
  Shown with `Keys = {k1}`, `Batches = {b1}`, `ChainLimit = 1`, `FuseAfter = 3`,
  `MaxFaults = 1`.
* `DisableVoidsPending`, `compat/self_wake.py:772`. The disable sweep runs only if this
  process saw the mode on or shadow before; a worker that starts with the mode off voids
  nothing, and the intents fire when self-wake is enabled again.
  src/compat/self_wake.py:773 says "Disable stops NEW dispatches and voids undispatched
  pending intents (shadow-era ones included)". Shown with `Keys = {k1}`, `Batches =
  {b1}`, `ChainLimit = 1`, `FuseAfter = 3`, `MaxToggles = 1`, `MaxFaults = 1`.

**LedgerTxn**

* `AllOrNothing`, `compat/self_wake.py:578`. audit commits on the connection all threads
  share without LEDGER_LOCK, so it can commit the first write of an admit or release
  whose second write never follows. src/compat/auto_wake_store.py:233 says "Validate +
  claim one batch inside ONE ledger transaction.". Shown with `Ops = {o1, o2, o3}`,
  `Audits = {a1}`, `MaxCrashes = 1`.
* `AuditDurable`, `compat/self_wake.py:570`. The audit row joins whatever transaction
  the connection has open; if that operation raises, the context manager rolls both back
  and audit's commit has nothing to commit. src/compat/self_wake.py:567 says "One
  durable audit row per dispatch decision and one per terminal/uncertain close.". Shown
  with `Ops = {o1, o2, o3}`, `Audits = {a1}`, `MaxCrashes = 1`.

**Notifications**

* `BrowserRowsAreForDevices`, `compat/notification_events.py:219`. approval_initial_hook
  always passes a publish callback, so without ntfy deliver claims the browser row for
  the server (and note_delivery then refuses the outcome, leaving it claimed for good):
  every device claim of an approval answers already_claimed.
  src/compat/notification_events.py:212 says "a server-side claim would make every
  device claim answer already_claimed and the whole browser path unusable", and
  src/compat/notification_store.py:280 "NEVER owns the claim itself". Shown with `Events
  = {e1}`, `Kind = [e1 |-> approval]`, `Run = [e1 |-> r1]`, `Devices = {d1}`, `Producers
  = {p1}`, `PageLimit = 1`, `QueueCap = 1`, `MaxWatchers = 1`, `MaxStarts = 1`.
* `ExpiredIsArchived`, `compat/ledger_retention.py:59`. The notification pass keeps
  events with a delivery outside shown, sent, failed and unknown, but enqueued is the
  final state of every accepted ntfy delivery (src/compat/notification_store.py:34 "What
  a note_delivery() report may legally END a delivery in"): with ntfy configured no such
  event is ever archived, against src/compat/ledger_retention.py:1 "archive of expired
  terminal ledger rows". Shown with `FairSpec`, `Events = {e1}`, `Kind = [e1 |->
  terminal]`, `Run = [e1 |-> r1]`, `Devices = {d1}`, `Producers = {p1}`, `PageLimit =
  1`, `QueueCap = 1`, `MaxWatchers = 1`, `MaxStarts = 1`, `Retention = TRUE`.

**ApprovalInbox**

* `NoPhantom`, `compat/approval_inbox.py:305`. capture chains the settle hook under the
  core lock and inserts the entry later under the inbox lock; if the request settles in
  between, the hook finds no entry and the insertion then publishes a pending card and a
  push for a settled request. The docstring at src/compat/approval_inbox.py:260 says "if
  it already settled (raced answer/withdraw) we publish no phantom pending and bind no
  hook". Shown with `Requests = {r1}`, `Captures = {c1}`, `MaxPending = 1`.
* `NothingHidden`, `compat/approval_inbox.py:386`. The GET lists the queue on a thread
  and reconciles after the await: an entry captured in between is not in the stale list
  and is marked resolved while its request is still queued. Later lists omit it and
  still say available, because its id has an entry. src/compat/approval_inbox.py:374
  says such an id is "never folded into an empty list". Shown with `Requests = {r1}`,
  `Captures = {c1}`, `MaxPending = 1`.
* `NoBlindAnswer`, `compat/approval_inbox.py:497`. classify_answer passes an answer
  without request_id through when nothing is pending ("nothing pending: the native 409
  stands"), releases the core lock, and the native handler then resolves the head of the
  queue: a request queued by the worker thread in between receives an answer meant for
  another. Shown with `Requests = {r1}`, `Captures = {c1}`, `Posts = {p1}`, `MaxPending
  = 1`.
* `RemindsLive`, `compat/approval_push.py:206`. fire asks the queue at :199 (whose lock
  is released with the answer) and the run's status at :201, and publishes afterwards
  with nothing held (the notification ledger's gate, where it is on, reads the phase once
  more, and nothing else): a request answered or withdrawn, or a run ended, in between is
  still announced as about to expire. The docstring at
  src/compat/approval_push.py:12 says "A fired reminder revalidates everything
  (capability, phase, exact queue membership, run not terminal, >=1 second left) before
  publishing — an expired card never broadcasts "still approvable"". What holds is
  `GoneIsNotReminded`. Shown with `Requests = {r1}`, `Captures = {c1}`, `MaxPending = 1`.
* `DroppedOnlyWhenFull`, `compat/approval_inbox.py:312`. The cap compares len(entries),
  which includes entries resolved within RESOLVED_TTL (900 s): the 33rd request of a run
  in fifteen minutes is turned away, and never pushed, with nothing pending.
  src/compat/approval_inbox.py:35 calls it INBOX_MAX_PENDING, "per-run display cap".
  Shown with `Requests = {r1, r2}`, `Captures = {c1}`, `MaxPending = 1`.
* `ClosedIsAnnounced`, `compat/approval_inbox.py:387`. snapshot and after_responded mark
  a pending entry resolved without emitting; when they come before the settle hook,
  settle finds the entry resolved and approval.resolved is never sent.
  src/compat/approval_inbox.py:501 promises "Additive approval.resolved on both API
  surfaces (R2)". Shown with `Requests = {r1}`, `Captures = {c1}`, `MaxPending = 1`.

**DetachPush**

* `DetachedIsDrained`, `compat/compat.py:2109`. _push_prune runs on every registration
  and releases any run without a status write for PUSH_RETENTION_SECONDS (a turn that
  simply runs for fifteen minutes), or the oldest over PUSH_MAX_STATES, without looking
  whether it is alive: the discard consumer of a live detached turn is cancelled and its
  event queue grows unread, and its end is never pushed. src/compat/README.md:89 says
  "Detached turns keep running ... and one discard consumer bounds the event queue".
  Shown with `Requests = {r1}`, `Evictions = TRUE`, `MaxPosted = 2`.

**CrossOutbox**

* `OneTurnPerRow`, `compat/crosssource.py:376`. drain marks the rows of its snapshot
  stale-dropped or merged without taking the row lock, so the mark can overwrite a
  delivery that finished meanwhile; a resend waiting for that lock then reads a status
  that is not delivered and injects the text again. The comment at
  src/compat/crosssource.py:278 says "One delivery per row at a time: a resend or a
  drain waits for the one in flight.". Shown with `Senders = {p1, p2}`, `Texts = {t1}`,
  `MaxAttempts = 1`, `Dedup = 1`, `MaxAge = 2`, `Crashes = 1`, `MaxTime = 3`, `MaxRows =
  2`.
* `AskedBeforeEachAttempt`, `compat/crosssource.py:330`. _run asks _refusal once, before
  the loop of attempts; after a backoff the text is injected unasked.
  src/compat/crosssource.py:59 says "So before each attempt the bridge asks core's own
  function the same question". Shown with `Senders = {p1, p2}`, `Texts = {t1}`,
  `MaxAttempts = 2`, `Dedup = 1`, `MaxAge = 2`, `Closings = 1`, `MaxRows = 2`.
* `DoubleSendFolds`, `compat/crosssource.py:191`. The window is measured from
  created_at, so a row that was delivered late (a resend of a failed send) absorbs
  nothing and the next press is posted as a new turn. src/compat/crosssource.py:180 says
  "else into a row delivered within ``DEDUP_WINDOW_SECONDS`` (a double send is not
  posted twice)". Shown with `Senders = {p1, p2}`, `Texts = {t1}`, `MaxAttempts = 2`,
  `Dedup = 1`, `MaxAge = 2`, `Closings = 1`, `MaxTime = 3`, `MaxRows = 2`.

**CrossFollow**

* `FollowsOwnSend`, `compat/crosssource.py:597`. Two sends of one text (outside the fold
  window) are indistinguishable by key and text: a follow re-targets the newest matching
  admission until its turn starts, and one that attaches before its own admission takes
  an older one. src/compat/crosssource.py:596 says "The newest matching row is this
  send; an older identical one queued earlier is not.". Shown with `Streams = {s1, s2}`,
  `SameText = TRUE`, `Cap = 2`, `Admits = {s1, s2}`, `Deltas = 1`, `Timeouts = TRUE`.

**WsBridge**

* `LivenessAlwaysAnswered`, `compat/wsbridge.py:403`. The reader awaits inbox.put: with
  256 requests queued behind a held call it stops reading, and a liveness ask behind
  them waits for the call. src/compat/README.md:266 says it is served on its own
  upstream connection, "so it answers even while a resume on the app's own connection is
  still held open". Shown with `HeldSpec`, `Sessions = {s1}`, `Methods = {"resume"}`,
  `InboxBound = 1`, `MaxRequests = 3`, `MaxAsks = 1`.
* `WritesOnlyListed`, `compat/wsbridge.py:303`. may_write lets any foreign session
  through when the config has no test_thread_ids. src/compat/README.md:268 says "Writes
  reach only sessions whose `thread_id` is listed in `test_thread_ids`". Shown with
  `Sessions = {s1, s2}`, `HttpOwned = {s2}`, `Methods = {"resume", "create", "submit",
  "other"}`, `InboxBound = 2`, `MaxRequests = 3`, `MaxDrops = 1`, `MaxGaps = 1`.

**Activity**

* `NeverFabricatedIdle`, `compat/compat.py:1891`. The rotation scan walks
  registry["runs"] only; a synchronous chat's observation lives in registry["obs"] and
  its agent is in no dict, so once compression rotates it to a child session a snapshot
  of the child answers no active run. src/compat/compat.py:1350-1351 says of the
  registry "every snapshot answers 503, never a fabricated idle / empty active_runs".
  Shown with `Chats = {c1}`, `Tip = 2`, `RecentCap = 2`. Runs are not immune: the tip is
  resolved before the locked read, and a turn compressed to the next session in between
  is missed by a snapshot of a child session (`Runs = {r1}`, `Streams = {r1}`, `Tip = 3`,
  `RecentCap = 2`), as is a chat opened while the hooks were out once they are back
  (`Chats = {c1}`, `Tip = 2`, `RecentCap = 2`, `Reloads = 1`).
* `NoGhost`, `compat/compat.py:1631`. A load clears blind and claims coverage over the
  registry kept from before the unload; a session-stream run whose terminal status was
  written while the hooks were out stays queued or running for ever (nothing settles
  it). src/compat/compat.py:1563 says "never a fake running/queued ghost". Shown with
  `Runs = {r1}`, `Streams = {r1}`, `Tip = 2`, `RecentCap = 2`, `Reloads = 1`.
* `NoGhost`, `compat/compat.py:1780`. The observation is tracked before
  _activity_last_id is awaited, and the finish is in the try block after it: a request
  cancelled in that await (CancelledError is not an Exception) leaves the observation
  running for ever. src/compat/compat.py:1563 says "never a fake running/queued ghost",
  and the except branch at src/compat/compat.py:1792 shows that cancellation is meant to
  be recorded. Shown with `Runs = {r1}`, `Streams = {r1}`, `Chats = {c1}`, `Tip = 2`,
  `RecentCap = 2`, `Drops = TRUE`.

**Installer**

* `SkippedIsAbsent`, `compat/compat.py:461`. The except branch of install writes
  skipped_incompatible for the unit even when release left the group in place for
  another manager: after one manager's abandoned load the manifest calls units red that
  are in force, and everything that asks the manifest (_selfwake_arm_guarded,
  cron_connect_arm, the platform registration, the capability gate of activity) then
  refuses them. src/compat/README.md:50 says of the manifest "A skipped group is red,
  not a healthy fallback". Shown with `Owners = {o1, o2}`, `Broken = {"push"}`,
  `MaxLoads = 2`.
* `KeptHolds`, `compat/compat.py:428`. A manager that registers again while its former
  load unwinds is skipped as a repeat owner and takes no new lease; the old load's
  remaining leases then discard the owner and restore the unit.
  src/compat/compat.py:338-339 says "reload re-registers before the old load fully
  unwinds", and src/compat/README.md:62 "Repeated registration is idempotent". Shown
  with `Owners = {o1, o2}`, `Broken = {"push"}`, `MaxLoads = 2`, `Overlap = TRUE`.

**ArtifactQuota**

* `TakenIsReturned`, `compat/compat.py:989`. load_with_quota releases the reservation
  after the one-shot load and lets an error of the quota database (a lock held past the
  busy timeout, a full disk) escape: the file is gone and its bytes are lost.
  src/tools/compat_probe_cases/artifact_quota.py:60 says "one-shot receipt still returns
  the original bytes", and src/compat/README.md:124 only that "Quota storage errors
  reject uploads". Shown with `Uploaders = {w1, w2}`, `Principals = {a, b}`, `Sizes =
  {0, 1, 2, 3}`, `Cap = 2`, `PrincipalLimit = 3`, `GlobalLimit = 4`, `Ttl = 2`, `Grace =
  4`, `MaxStores = 1`, `MaxNow = 5`, `Faults = TRUE`.

**WebProxy**

* `NoHalfOwned`, `web/serve.py:253`. _stream_response awaits big_streams.acquire()
  before its try, and api_proxy's last handler catches Exception only: a handler
  cancelled in that wait (the runner's shutdown) ends without releasing the upstream
  response, which stays open until it is garbage-collected or the session closes.
  src/web/serve.py:248 says "AUDIT-19: every exit path — EOF, client gone, wedged body,
  cancellation — ends upstream; no half-owned connections.". Shown with `Reqs = {r1,
  r2}`, `BodyCap = 1`, `BigChunks = 1`, `LastChunk = 2`, `BigSlots = 1`, `UploadIdle =
  2`, `HeaderWait = 1`, `ReadWait = 1`, `Silence = 2`, `Ceiling = 4`, `Shutdown = TRUE`,
  `Accepts = {FALSE}`, `Bodies = {"none"}`, `Replies = {"plain", "big"}`.

**AppOutbox**

* `SpentGoesOut`, `app/lib/data/ws_outbox.dart:187`. A live turn's submit that ends
  unknown while the link stays up (callTimeout, or the bridge's upstream_timeout) throws
  to the turn, which spends the draft and leaves the entry in the outbox; only a flush
  arms the retry timer, so nothing sends it before the next change of the link or the
  next queued send. src/app/lib/features/chat/chat_controller.dart:594-595 says a text
  in the outbox is "Spent like an accepted send, because it will go out without the user
  doing anything.". Shown with `Sessions = {1}`, `Keys = 1`, `Live = TRUE`, `MaxUnknowns
  = 1`.
* `SavedBeforeSent`, `app/lib/data/ws_outbox.dart:159`. enqueue adds the entry to
  _entries before it awaits _save, and the flush of a reconnect takes whatever is in
  _entries: the submit can leave while the write is pending.
  src/app/lib/data/ws_outbox.dart:3 says "Every WS send is written here BEFORE the first
  network byte". Shown with `Sessions = {1}`, `Keys = 1`, `Live = TRUE`, `MaxDrops = 1`.
* `SpentSurvives`, `app/lib/data/ws_outbox.dart:211`. A refused entry is removed and the
  removal saved before the refusal is announced, and the listener saves the draft
  afterwards and unawaited: a process that dies between the two writes loses a text the
  user's composer no longer holds. src/app/lib/data/ws_route.dart:442-444 says "A
  refused flush puts its text back into the session's draft here, because no chat page
  may be alive to do it.". Shown with `Sessions = {1}`, `Keys = 1`, `MaxCrashes = 1`,
  `MaxRefusals = 1`.
* `SpentGoesOut`, `app/lib/data/ws_outbox.dart:242`. _releaseAll runs once, over the
  entries of that moment, and enqueue does not look at degraded: a send routed before
  the bridge was given up and written after (send awaits the retry stamp or the pending
  claim in between) stays in the outbox of a link that never comes back.
  src/app/lib/data/ws_outbox.dart:239-241 says "nothing would ever flush what waits
  here, so each entry goes out as a refusal and lands back in its draft.". Shown with
  `Sessions = {1}`, `Keys = 1`, `MaxDead = 1`.

**AppWake**

* `TransientStaysQueued`, `app/lib/features/chat/chat_controller.dart:973`.
  _wakeDispatch records the whole plan as the items of the batch, and recordBatch takes
  every item out of the queue, also the ones the ledger refused for now; they come back
  only when a later page holds them. src/app/lib/features/chat/auto_wake.dart:312 says
  "`causal_suspect` / `batch_overflow` are transient and stay queued.". Shown with
  `Reports = 2`, `BatchMax = 2`, `MaxBatches = 2`, `MaxTransient = 1`.
* `OffWindowNeverWoken`, `app/lib/features/settings/settings_page.dart:424`. The switch
  only writes the preference and nothing calls disarm(): with no commit scanned while it
  is off, the old state and cutoff are still there when it is on again, and the reports
  in between are queued and woken. src/app/lib/features/chat/auto_wake.dart:254-255 says
  "Disable boundary: clear the unsent queue NOW so re-enabling builds a fresh cutoff and
  never replays the disabled window." (src/app/test/auto_wake_test.dart:189: "re-enable
  never replays the gap" commits a page while it is off) Shown with `Reports = 1`,
  `BatchMax = 1`, `MaxBatches = 1`, `MaxSwitch = 2`.
* `QueueAfterCutoff`, `app/lib/features/chat/auto_wake.dart:358`. While a lane waits for
  the answer to its admit, the setting goes off (a commit clears the state) and on again
  (a fresh cutoff); recordBatch then records the old plan in the new state, and a user
  who types at the edge of the POST has abandonBatch put its items, older than the new
  cutoff, back into the queue. src/app/lib/features/chat/auto_wake.dart:254-255 says
  "Disable boundary: clear the unsent queue NOW so re-enabling builds a fresh cutoff and
  never replays the disabled window." Shown with `Reports = 3`, `BatchMax = 1`,
  `MaxBatches = 2`, `MaxSwitch = 2`, `MaxTyping = 1`.
* `ReportIsWoken`, `app/lib/features/chat/auto_wake.dart:109`. A commit that arrives
  while a scan is writing leaves _dirty, and the re-scan runs over `const []`: the store
  it is said to re-read holds no messages, so what only that commit showed waits for the
  next one. src/app/lib/features/chat/auto_wake.dart:96 says "exactly one follow-up
  re-scan after the pass". Shown with `Reports = 1`, `BatchMax = 1`, `MaxBatches = 1`,
  `MaxOverlaps = 1`.
* `DoubtHolds`, `app/lib/features/chat/auto_wake.dart:151`. The re-scan over no rows
  finds neither numeric nor other ids and stores orderUncertain = false: the block of
  the mixed page before it is lifted without any page.
  src/app/lib/features/chat/auto_wake.dart:144-146 says "a commit mixing numeric and
  non-numeric ids gives no trustworthy order — auto-dispatch is blocked (plan() refuses
  to fire)". Shown with `Reports = 1`, `BatchMax = 1`, `MaxBatches = 1`, `MaxMixed = 1`,
  `MaxOverlaps = 1`.
* `ReportIsWoken`, `app/lib/features/chat/auto_wake.dart:328`. admit answers
  already_consumed for a key of any batch, a reserved one included, and a reserved batch
  can be released; the pruned key is in ignoredKeys by then and this App never asks for
  it again. src/app/lib/features/chat/auto_wake.dart:307-309 says "Only SERVER-confirmed
  terminal answers remove an entry: `ignored` / `already_consumed` (the ledger
  permanently owns the key". Shown with `Reports = 1`, `BatchMax = 1`, `MaxBatches = 2`,
  `MaxOther = 1`, `OtherFrees = TRUE`.
* `BatchRemembered`, `app/lib/features/chat/auto_wake.dart:139`. _scan replaces _state
  by what the store holds at that moment; between recordBatch's change in memory and its
  turn in the store transaction (Web Locks, or a write before it) that is the state
  without the batch, and the scan's own write then takes the receipt off the disk.
  src/app/lib/features/chat/chat_controller.dart:967-969 says "PERSIST the receipt +
  queue shrink BEFORE the POST". Shown with `Reports = 2`, `BatchMax = 1`, `MaxBatches =
  2`.

## 7. Not modelled, and what is left to prove

Not modelled, with the reason:

* The App's chat controller, repository and local store apart from the two queues:
  turn recovery, attempts and pending claims are spread over thousands of lines of
  presentation state without a protocol that can be separated from it.
* The call feature is a reducer over the events of one call with one actor and no
  persistence. Pages, localisation, settings, attachments and the Android shell are
  rendering and platform glue.
* Overlays that project a request (session list, injected rows, display, status
  context, duplicate guard) keep no state that outlives the request.
* The session authority's own questions, steers and live sessions, the gateway's
  listener lifecycle of the TARGET stream, `tools.clarify_gateway` and the artifact
  store belong to the gateway and appear as external environments.
* The management endpoints and static files of the proxy, probes, scripts and operator
  tools are one synchronous file operation each.
* In `AppWake` the verdict of a 409 or 410 and the adoption of a wake turn after a
  restart; in `Notifications` and `Activity` wording, previews and scopes; in
  `ApprovalInbox` the eviction of whole runs.

A proof worth adding: `BatchesFollowed` for one batch and one report, where it is true.
