---------------------------- MODULE Notifications ---------------------------
(***************************************************************************)
(* The notification ledger (compat/notification_store.py), its producers   *)
(* (notification_events.py), the ntfy transport queue (ntfy_notify.py) and *)
(* the device endpoints (compat.py:_install_notification_events).          *)
(*                                                                         *)
(* Every store call holds LOCK and is one step; deliver() is a sequence of *)
(* such calls on whichever thread the run ends on, so producers, devices   *)
(* and a reconfiguration interleave between them. One owner scope; every   *)
(* device acknowledges under the one reader name the endpoint passes.      *)
(* A show token is the device it was minted for.                           *)
(***************************************************************************)
EXTENDS Naturals, Sequences, FiniteSets

CONSTANTS
    Events, Kind,     \* Kind[e]: "approval", "terminal" (completed, failed),
                      \* "cancelled" (interrupted too) or "steer_ready"
    Run,              \* Run[e]: the run the event is about
    Devices, Producers,
    PageLimit,        \* PAGE_LIMIT
    QueueCap,         \* _QUEUE_CAP of the ntfy backlog
    MaxWatchers,      \* MAX_WATCHERS
    MaxStarts,        \* bound on deliver() calls per event
    MaxReconfigures, MaxCrashes,  \* bounds on faults
    Retention         \* whether the 90-day pass is in the run

Shape ==
    /\ Kind \in [Events -> {"approval", "terminal", "cancelled", "steer_ready"}]
    /\ PageLimit \in Nat \ {0} /\ QueueCap \in Nat /\ MaxWatchers \in Nat
    /\ MaxStarts \in Nat /\ MaxReconfigures \in Nat /\ MaxCrashes \in Nat
    /\ Retention \in BOOLEAN
    /\ {"server", "nobody"} \cap Devices = {}
    /\ IsFiniteSet(Events) /\ "no event" \notin Events /\ Events \subseteq DOMAIN Run

VARIABLES
    event,    \* event[e]: its row in events, and its row in read_events
    nextSeq,  \* seq.next_seq
    row,      \* row[e, phase, channel]: the row of deliveries
    prod,     \* prod[p]: a call of deliver in progress
    ntfyOn,   \* whether _push_settings() finds a server and topic
    backlog,  \* _jobs, the bounded ntfy queue
    watchers, \* runs opted in to steer-ready, oldest first
    dev,      \* dev[d]: cursor, what it knows, the claim it holds
    alerts,   \* how often an alert left for the user, per row
    entered,  \* rows whose alert entered the ntfy queue
    starts, faults

vars == <<event, nextSeq, row, prod, ntfyOn, backlog, watchers, dev, alerts,
          entered, starts, faults>>

Phases == {"initial", "reminder"}
Channels == {"ntfy", "browser"}
Rows == Events \X Phases \X Channels
ClientOutcomes == {"shown", "failed", "unknown"}
States == {"none", "pending", "claimed", "enqueued"} \cup ClientOutcomes
NoRow == [state |-> "none", by |-> "nobody", token |-> "nobody", reporter |-> "nobody"]
NoEvent == [live |-> FALSE, change |-> 0, read |-> FALSE, aged |-> FALSE]
NoEventId == "no event"
Idle == [pc |-> "idle", e |-> NoEventId, phase |-> "initial", chan |-> "ntfy",
         outcome |-> "none", late |-> FALSE]

TypeOK ==
    /\ event \in [Events -> [live : BOOLEAN, change : Nat, read : BOOLEAN, aged : BOOLEAN]]
    /\ nextSeq \in Nat \ {0}
    /\ row \in [Rows -> [state : States, by : Devices \cup {"server", "nobody"},
                         token : Devices \cup {"nobody"}, reporter : Devices \cup {"nobody"}]]
    /\ \A p \in Producers :
          /\ prod[p].pc \in {"idle", "reminds", "record", "read", "state", "claim",
                             "publish", "note"}
          /\ prod[p].e \in Events \cup {NoEventId}
          /\ prod[p].phase \in Phases /\ prod[p].chan \in Channels
    /\ ntfyOn \in BOOLEAN
    /\ \A i \in 1..Len(backlog) : backlog[i] \in Rows
    /\ \A i \in 1..Len(watchers) : watchers[i] \in {Run[e] : e \in Events}
    /\ \A d \in Devices : dev[d].cursor \in Nat

Init ==
    /\ event = [e \in Events |-> NoEvent] /\ nextSeq = 1
    /\ row = [r \in Rows |-> NoRow]
    /\ prod = [p \in Producers |-> Idle]
    /\ ntfyOn \in BOOLEAN /\ backlog = <<>> /\ watchers = <<>>
    /\ dev = [d \in Devices |-> [cursor |-> 0, known |-> [e \in Events |-> "nothing"],
                                 claim |-> NoEventId, holds |-> NoEventId]]
    /\ alerts = [r \in Rows |-> 0] /\ entered = {}
    /\ starts = [e \in Events |-> 0] /\ faults = [reconfigures |-> 0, crashes |-> 0]

SystemChannel == IF ntfyOn THEN "ntfy" ELSE "browser"
RowOf(p) == <<prod[p].e, prod[p].phase, prod[p].chan>>
Goes(p, pc) == prod' = [prod EXCEPT ![p].pc = pc] /\ UNCHANGED watchers

\* dict.pop(x, None): the order of the others stays.
Drop(s, x) ==
    IF \E i \in 1..Len(s) : s[i] = x
    THEN LET i == CHOOSE j \in 1..Len(s) : s[j] = x
         IN SubSeq(s, 1, i - 1) \o SubSeq(s, i + 1, Len(s))
    ELSE s

\* deliver returns; terminal_event and steer_ready then clear the opt-in.
Returns(p) ==
    /\ prod' = [prod EXCEPT ![p] = Idle]
    /\ watchers' = IF Kind[prod[p].e] = "approval" THEN watchers
                   ELSE Drop(watchers, Run[prod[p].e])

-----------------------------------------------------------------------------
(* deliver(), from a run's terminal status, an approval or its reminder    *)

OptedIn(r) == \E i \in 1..Len(watchers) : watchers[i] = r

\* A status write, a capture or a reminder timer calls deliver. A reminder
\* passes reminder_allowed first; steer_ready is for opted-in runs only.
Start(p, e, phase) ==
    /\ prod[p].pc = "idle" /\ starts[e] < MaxStarts /\ ~event[e].aged
    /\ phase = "reminder" => Kind[e] = "approval"
    /\ Kind[e] = "steer_ready" => OptedIn(Run[e])
    /\ starts' = [starts EXCEPT ![e] = @ + 1]
    /\ prod' = [prod EXCEPT ![p] = [Idle EXCEPT !.e = e, !.phase = phase,
                   !.pc = IF phase = "reminder" THEN "reminds" ELSE "record",
                   !.late = event[e].read]]
    /\ UNCHANGED <<event, nextSeq, row, ntfyOn, backlog, watchers, dev, alerts,
                   entered, faults>>

\* reminder_allowed: unread, and the reminder row never claimed.
ReminderAllowed(p) ==
    LET e == prod[p].e IN
    /\ prod[p].pc = "reminds"
    /\ IF event[e].read \/ row[e, "reminder", SystemChannel].state /= "none"
       THEN Returns(p) ELSE Goes(p, "record")
    /\ UNCHANGED <<event, nextSeq, row, ntfyOn, backlog, dev, alerts,
                   entered, starts, faults>>

\* record_event is idempotent. Kinds that are only recorded end here.
RecordEvent(p) ==
    LET e == prod[p].e IN
    /\ prod[p].pc = "record"
    /\ IF event[e].live THEN UNCHANGED <<event, nextSeq>>
       ELSE /\ event' = [event EXCEPT ![e] = [NoEvent EXCEPT !.live = TRUE, !.change = nextSeq]]
            /\ nextSeq' = nextSeq + 1
    /\ IF Kind[e] \in {"cancelled", "steer_ready"} THEN Returns(p)
       ELSE prod' = [prod EXCEPT ![p].pc = "read", ![p].chan = SystemChannel]
            /\ UNCHANGED watchers
    /\ UNCHANGED <<row, ntfyOn, backlog, dev, alerts, entered, starts, faults>>

IsRead(e) == event[e].read

CheckRead(p) ==
    /\ prod[p].pc = "read"
    /\ IF IsRead(prod[p].e) THEN Returns(p) ELSE Goes(p, "state")
    /\ UNCHANGED <<event, nextSeq, row, ntfyOn, backlog, dev, alerts,
                   entered, starts, faults>>

\* An existing row that is not an intent ends the call. (The check against
\* other channels never fires: the two channels are parallel surfaces.)
CheckState(p) ==
    /\ prod[p].pc = "state"
    /\ IF row[RowOf(p)].state \notin {"none", "pending"} THEN Returns(p) ELSE Goes(p, "claim")
    /\ UNCHANGED <<event, nextSeq, row, ntfyOn, backlog, dev, alerts,
                   entered, starts, faults>>

\* Mutant: a claim does not look at an existing one.
Claimable_Always(r) == TRUE

\* Mutant: a queued intent counts as a claim.
Claimable_Fresh(r) == row[r].state = "none"

\* claim_delivery: the first claimer wins; an intent may be claimed.
Claimable(r) == row[r].state \in {"none", "pending"}

\* queue_delivery: an intent, owned by nobody.
QueueDelivery(r) ==
    row' = IF row[r].state = "none" THEN [row EXCEPT ![r].state = "pending"] ELSE row

\* A terminal event without ntfy queues an intent for the devices; an
\* approval always brings a publish callback, so the server claims its row.
ClaimOrQueue(p) ==
    LET r == RowOf(p) IN
    /\ prod[p].pc = "claim"
    /\ IF prod[p].chan = "browser" /\ Kind[prod[p].e] = "terminal"
       THEN QueueDelivery(r) /\ Returns(p)
       ELSE IF Claimable(r)
       THEN /\ row' = [row EXCEPT ![r].state = "claimed", ![r].by = "server", ![r].token = "nobody"]
            /\ Goes(p, "publish")
       ELSE Returns(p) /\ UNCHANGED row
    /\ UNCHANGED <<event, nextSeq, ntfyOn, backlog, dev, alerts, entered,
                   starts, faults>>

\* publish_json: settings are read again; put_nowait on the bounded queue.
Accepted == ntfyOn /\ Len(backlog) < QueueCap

Publish(p) ==
    LET r == RowOf(p) IN
    /\ prod[p].pc = "publish"
    /\ prod' = [prod EXCEPT ![p].pc = "note", ![p].outcome = IF Accepted THEN "enqueued" ELSE "failed"]
    /\ IF ntfyOn /\ Len(backlog) < QueueCap
       THEN backlog' = Append(backlog, r) /\ entered' = entered \cup {r}
       ELSE UNCHANGED <<backlog, entered>>
    /\ UNCHANGED <<event, nextSeq, row, ntfyOn, watchers, dev, alerts, starts, faults>>

\* note_delivery: a device must be the claimer; a browser row moves only for
\* the token its claim stored. The server path passes no device.
Provable(r, d, token) ==
    /\ row[r].state /= "none"
    /\ d /= "server" => row[r].by = d
    /\ r[3] = "browser" =>
          row[r].state /= "pending" /\ row[r].token /= "nobody" /\ token = row[r].token

NoteDelivery(p) ==
    LET r == RowOf(p) IN
    /\ prod[p].pc = "note"
    /\ row' = IF Provable(r, "server", "nobody")
              THEN [row EXCEPT ![r].state = prod[p].outcome] ELSE row
    /\ Returns(p)
    /\ UNCHANGED <<event, nextSeq, ntfyOn, backlog, dev, alerts, entered,
                   starts, faults>>

\* _loop: the worker thread posts one job; one attempt, whatever comes of it.
Send ==
    /\ backlog /= <<>>
    /\ backlog' = Tail(backlog)
    /\ alerts' = [alerts EXCEPT ![Head(backlog)] = @ + 1]
    /\ UNCHANGED <<event, nextSeq, row, prod, ntfyOn, watchers, dev, entered, starts, faults>>

-----------------------------------------------------------------------------
(* Devices                                                                 *)

Fresh(c) == {e \in Events : event[e].live /\ event[e].change > c}
Before(e) == {x \in Events : event[x].change <= event[e].change}

\* The highest change_seq on the page.
NextCursor(c, page) ==
    IF page = {} THEN c
    ELSE CHOOSE n \in {event[e].change : e \in page} : \A e \in page : event[e].change <= n

\* GET notification-events: the oldest changes after the cursor.
Poll(d) ==
    LET c == dev[d].cursor
        page == {e \in Fresh(c) : Cardinality(Before(e) \cap Fresh(c)) <= PageLimit}
    IN /\ page /= {}
       /\ dev' = [dev EXCEPT ![d].cursor = NextCursor(c, page),
              ![d].known = [e \in Events |-> IF e \in page
                               THEN IF event[e].read THEN "read" ELSE "unread" ELSE @[e]]]
       /\ UNCHANGED <<event, nextSeq, row, prod, ntfyOn, backlog, watchers, alerts,
                      entered, starts, faults>>

Restamp(e) == nextSeq

\* mark_read: idempotent; a new acknowledgement restamps the event.
MarkRead(d, e) ==
    /\ dev[d].known[e] /= "nothing" /\ event[e].live /\ ~event[e].read
    /\ event' = [event EXCEPT ![e].read = TRUE, ![e].change = Restamp(e)]
    /\ nextSeq' = nextSeq + 1
    /\ UNCHANGED <<row, prod, ntfyOn, backlog, watchers, dev, alerts, entered, starts, faults>>

\* claim_post, up to the read check; the claim is a second call of the store.
ClaimChecks(d, e) ==
    /\ dev[d].claim = NoEventId /\ dev[d].known[e] = "unread"
    /\ event[e].live /\ ~IsRead(e)
    /\ row[e, "initial", "browser"].by /= d
    /\ dev' = [dev EXCEPT ![d].claim = e]
    /\ UNCHANGED <<event, nextSeq, row, prod, ntfyOn, backlog, watchers, alerts, entered,
                   starts, faults>>

\* The claim stores the token; only its winner shows the alert.
ClaimPost(d) ==
    LET e == dev[d].claim
        r == <<e, "initial", "browser">>
    IN /\ e /= NoEventId
       /\ IF Claimable(r)
          THEN /\ row' = [row EXCEPT ![r].state = "claimed", ![r].by = d, ![r].token = d]
               /\ dev' = [dev EXCEPT ![d].claim = NoEventId, ![d].holds = e]
               /\ alerts' = [alerts EXCEPT ![r] = @ + 1]
          ELSE dev' = [dev EXCEPT ![d].claim = NoEventId] /\ UNCHANGED <<row, alerts>>
       /\ UNCHANGED <<event, nextSeq, prod, ntfyOn, backlog, watchers, entered, starts, faults>>

\* delivery_post: a device reports, with the token it holds if any. The
\* delivery id is no secret: a losing claim is answered with it.
DeliveryPost(d, e, outcome) ==
    LET r == <<e, "initial", "browser">>
        token == IF dev[d].holds = e THEN d ELSE "nobody"
    IN /\ dev[d].known[e] /= "nothing" /\ event[e].live
       /\ Provable(r, d, token) /\ row[r].state /= outcome
       /\ row' = [row EXCEPT ![r].state = outcome, ![r].reporter = d]
       /\ UNCHANGED <<event, nextSeq, prod, ntfyOn, backlog, watchers, dev, alerts, entered,
                      starts, faults>>

\* _trim_watchers: the oldest opt-ins yield their slots.
Trim(s) == SubSeq(s, IF Len(s) > MaxWatchers THEN Len(s) - MaxWatchers + 1 ELSE 1, Len(s))

\* watch_post: a renewed opt-in moves to the end.
Watch(e, on) ==
    /\ Kind[e] = "steer_ready"
    /\ watchers' = IF on THEN Trim(Append(Drop(watchers, Run[e]), Run[e]))
                   ELSE Drop(watchers, Run[e])
    /\ watchers' /= watchers
    /\ UNCHANGED <<event, nextSeq, row, prod, ntfyOn, backlog, dev, alerts, entered,
                   starts, faults>>

-----------------------------------------------------------------------------
(* Faults and time                                                         *)

Reconfigure ==
    /\ faults.reconfigures < MaxReconfigures
    /\ faults' = [faults EXCEPT !.reconfigures = @ + 1]
    /\ ntfyOn' = ~ntfyOn
    /\ UNCHANGED <<event, nextSeq, row, prod, backlog, watchers, dev, alerts, entered, starts>>

\* The gateway dies: calls in progress, the backlog and the opt-ins are gone.
Crash ==
    /\ faults.crashes < MaxCrashes
    /\ faults' = [faults EXCEPT !.crashes = @ + 1]
    /\ prod' = [p \in Producers |-> Idle] /\ backlog' = <<>> /\ watchers' = <<>>
    /\ dev' = [d \in Devices |-> [dev[d] EXCEPT !.claim = NoEventId]]
    /\ UNCHANGED <<event, nextSeq, row, ntfyOn, alerts, entered, starts>>

Quiet(e) ==
    /\ \A p \in Producers : prod[p].e /= e
    /\ \A d \in Devices : dev[d].claim /= e

\* Ninety days after it was read; its run and the claims of it are long over.
Ages(e) ==
    /\ Retention /\ event[e].read /\ ~event[e].aged /\ Quiet(e)
    /\ event' = [event EXCEPT ![e].aged = TRUE]
    /\ UNCHANGED <<nextSeq, row, prod, ntfyOn, backlog, watchers, dev, alerts, entered,
                   starts, faults>>

Settled(e) ==
    \A ph \in Phases, ch \in Channels : row[e, ph, ch].state \in {"none"} \cup ClientOutcomes

\* The notification pass of ledger_retention: event, deliveries and
\* acknowledgement go to the archive together.
Prune(e) ==
    /\ event[e].live /\ event[e].aged /\ Settled(e)
    /\ event' = [event EXCEPT ![e] = [NoEvent EXCEPT !.aged = TRUE, !.read = TRUE]]
    /\ row' = [r \in Rows |-> IF r[1] = e THEN NoRow ELSE row[r]]
    /\ UNCHANGED <<nextSeq, prod, ntfyOn, backlog, watchers, dev, alerts, entered, starts, faults>>

ProducerStep(p) ==
    \/ ReminderAllowed(p) \/ RecordEvent(p) \/ CheckRead(p) \/ CheckState(p)
    \/ ClaimOrQueue(p) \/ Publish(p) \/ NoteDelivery(p)

Next ==
    \/ \E p \in Producers :
          ProducerStep(p) \/ \E e \in Events, phase \in Phases : Start(p, e, phase)
    \/ Send
    \/ \E d \in Devices :
          \/ Poll(d) \/ ClaimPost(d)
          \/ \E e \in Events : MarkRead(d, e) \/ ClaimChecks(d, e)
          \/ \E e \in Events, o \in ClientOutcomes : DeliveryPost(d, e, o)
    \/ \E e \in Events, on \in BOOLEAN : Watch(e, on)
    \/ Reconfigure \/ Crash
    \/ \E e \in Events : Ages(e) \/ Prune(e)

Spec == Init /\ [][Next]_vars

\* Threads and the worker run, open apps poll and claim what they see unread,
\* and the hourly retention pass takes what it may.
Fairness ==
    /\ \A p \in Producers : WF_vars(ProducerStep(p))
    /\ WF_vars(Send)
    /\ \A d \in Devices :
          /\ WF_vars(Poll(d)) /\ WF_vars(ClaimPost(d))
          /\ WF_vars(\E e \in Events : ClaimChecks(d, e))
    /\ \A e \in Events : WF_vars(Prune(e))
FairSpec == Spec /\ Fairness

-----------------------------------------------------------------------------
\* "publish exactly once for the semantic event+phase", "the FIRST claimer may
\* show; everyone else gets already_claimed": however often deliver is called
\* for an event, on whichever channel, and however many devices race for it,
\* each surface alerts at most once per phase, across restarts too.
OneAlert == \A r \in Rows : alerts[r] <= 1

\* "an enqueue is never a send": the ledger says enqueued only of an alert the
\* transport queue took, and failed of an ntfy alert only when it did not.
HonestOutcome ==
    \A r \in Rows : r[3] = "ntfy" =>
        /\ row[r].state = "enqueued" => r \in entered
        /\ row[r].state = "failed" => r \notin entered

\* "any mismatch reads exactly like a delivery that does not exist": whatever
\* devices report, in any order and any number of times, the outcome of a
\* browser row comes from the device whose claim won.
OnlyOwnerReports == \A r \in Rows : row[r].reporter \in {"nobody", row[r].by}

\* "an overflow page resumes from it and never skips": what a device has not
\* seen of an event lies beyond its cursor, so it never keeps a phantom unread.
CursorHonest ==
    \A d \in Devices, e \in Events : event[e].live /\ event[e].change <= dev[d].cursor =>
        dev[d].known[e] = IF event[e].read THEN "read" ELSE "unread"

\* "Read converges reminders across devices": a delivery that begins after the
\* event was read never reaches a transport.
ReadSilences == \A p \in Producers : prod[p].pc \in {"publish", "note"} => ~prod[p].late

\* "a server-side claim would make every device claim answer already_claimed":
\* the server owns no browser row.
BrowserRowsAreForDevices == \A r \in Rows : r[3] = "browser" => row[r].by /= "server"

\* Opt-ins stay within their bound, and no run holds two slots.
WatchersBounded ==
    /\ Len(watchers) <= MaxWatchers
    /\ \A i, j \in 1..Len(watchers) : watchers[i] = watchers[j] => i = j

\* Retention takes no event whose alert is still under way.
NothingArchivedInFlight ==
    \A r \in Rows : row[r].state \in {"pending", "claimed"} => row'[r].state /= "none"

\* "archive of expired terminal ledger rows": an event that was read ninety
\* days ago and whose deliveries ended leaves the live tables.
ExpiredIsArchived ==
    \A e \in Events :
        (event[e].live /\ event[e].aged
            /\ \A ph \in Phases, ch \in Channels :
                  row[e, ph, ch].state \in {"none", "enqueued"} \cup ClientOutcomes)
        ~> ~event[e].live
=============================================================================
