---------------------------- MODULE CrossOutbox -----------------------------
(***************************************************************************)
(* The spool and the delivery loop of crosssource.py: an app message for a *)
(* Discord session is written to the outbox, folded into an earlier row of *)
(* the same text when there is one, and injected under the row's lock.     *)
(* One drain runs after each load. A text stands for (session, text).      *)
(* An actor holds a row's lock exactly while it is Inside that row.        *)
(***************************************************************************)
EXTENDS Naturals, Sequences, FiniteSets

CONSTANTS
    Senders,      \* chat requests of the app
    Texts,        \* messages
    LegacyRows,   \* rows spooled by the version that did not fold resends
    MaxAttempts,  \* MAX_ATTEMPTS
    Dedup,        \* DEDUP_WINDOW_SECONDS
    MaxAge,       \* DRAIN_MAX_AGE_SECONDS
    Blind,        \* the envelope check cannot judge (no authority, or it raised)
    Closings,     \* bound: how often the route loses its envelope
    Crashes,      \* bound on restarts
    MaxTime,      \* bound on the clock
    MaxRows       \* bound on the spool

Drainer == "drain"

\* MAX_ATTEMPTS is 3; the window is a minute, the maximum age of a day.
Shape ==
    /\ {LegacyRows, MaxAttempts, Dedup, MaxAge, Closings, Crashes, MaxTime, MaxRows} \subseteq Nat
    /\ MaxAttempts > 0 /\ Dedup <= MaxAge /\ LegacyRows <= MaxRows
    /\ Drainer \notin Senders /\ Blind \in BOOLEAN

VARIABLES
    spool,    \* the outbox table, oldest row first
    act,      \* act[a]: where a request or the drain is in Bridge._run
    drain,    \* the drain task: its phase, its snapshot, its heads
    route,    \* whether core would accept a plugin turn on the session key
    now, closings, crashes,
    injected, \* injected[r]: accepted inject_message calls for row r
    turned,   \* turned[r]: those core admitted as a turn
    gap,      \* gap[r]: restarts between an injection of r and its record
    moved     \* moved[r]: the route closed after the check of r: in its attempt, or before

vars == <<spool, act, drain, route, now, closings, crashes, injected, turned, gap, moved>>

Actors == Senders \cup {Drainer}
Rows == 1..MaxRows
Undelivered == {"pending", "failed"}
Idle == [pc |-> "idle", row |-> 0, attempt |-> 0, text |-> CHOOSE t \in Texts : TRUE]
Asleep == [pc |-> "armed", list |-> {}, heads |-> <<>>, at |-> 0]

Inside(a, r) == act[a].row = r /\ act[a].pc \in {"check", "refused", "try", "sent", "missed", "backoff"}

TypeOK ==
    /\ Len(spool) <= MaxRows
    /\ \A r \in DOMAIN spool :
         /\ spool[r].status \in Undelivered \cup {"delivered", "merged", "stale"}
         /\ spool[r].created <= spool[r].updated /\ spool[r].updated <= now
    /\ \A a \in Actors : /\ act[a].pc \in {"idle", "lock", "check", "refused", "try", "sent", "missed",
                                           "backoff", "ok", "error"}
                         /\ act[a].attempt <= MaxAttempts
    /\ \A r \in Rows : Cardinality({a \in Actors : Inside(a, r)}) <= 1

Row(t, at) == [text |-> t, status |-> "pending", created |-> at, updated |-> at]

Init ==
    /\ spool \in {[i \in 1..LegacyRows |-> Row(f[i], 0)] : f \in [1..LegacyRows -> Texts]}
    /\ act = [a \in Actors |-> Idle]
    /\ drain = Asleep
    /\ route = TRUE /\ now = 0 /\ closings = 0 /\ crashes = 0
    /\ injected = [r \in Rows |-> 0] /\ turned = [r \in Rows |-> 0]
    /\ gap = [r \in Rows |-> 0] /\ moved = [r \in Rows |-> "no"]

-----------------------------------------------------------------------------
(* Outbox                                                                  *)

\* Undelivered rows of the text touched within the drain's maximum age.
Foldable(t) ==
    {r \in DOMAIN spool : /\ spool[r].text = t /\ spool[r].status \in Undelivered
                          /\ spool[r].updated + MaxAge >= now}

\* Delivered rows of the text created within the window.
Absorbing(t) ==
    {r \in DOMAIN spool : /\ spool[r].text = t /\ spool[r].status = "delivered"
                          /\ spool[r].created + Dedup >= now}

Oldest(S) == CHOOSE r \in S : \A q \in S : r <= q

\* enqueue: one immediate transaction.
Enqueue(t) ==
    IF Foldable(t) # {} THEN [row |-> Oldest(Foldable(t)), spool |-> spool]
    ELSE IF Absorbing(t) # {} THEN [row |-> Oldest(Absorbing(t)), spool |-> spool]
    ELSE [row |-> Len(spool) + 1, spool |-> Append(spool, Row(t, now))]

Record(r, status) ==
    spool' = [spool EXCEPT ![r].status = status, ![r].updated = now]

-----------------------------------------------------------------------------
(* Bridge.deliver and Bridge._run                                          *)

Goto(a, pc) == act' = [act EXCEPT ![a].pc = pc]

Send(p, t) ==
    LET e == Enqueue(t) IN
    /\ act[p].pc = "idle" /\ Len(e.spool) <= MaxRows
    /\ spool' = e.spool
    /\ act' = [act EXCEPT ![p] = [pc |-> "lock", row |-> e.row, attempt |-> 0, text |-> t]]
    /\ UNCHANGED <<drain, route, now, closings, crashes, injected, turned, gap, moved>>

\* Mutant: the status is not read again under the lock.
Settled_Blind(r) == FALSE

Settled(r) == spool[r].status = "delivered"

Free(r) == \A b \in Actors : ~Inside(b, r)

Acquire(a) ==
    /\ act[a].pc = "lock" /\ Free(act[a].row)
    /\ Goto(a, IF Settled(act[a].row) THEN "ok" ELSE "check")
    /\ UNCHANGED <<spool, drain, route, now, closings, crashes, injected, turned, gap, moved>>

Refusal == ~route /\ ~Blind

\* The envelope check, once, before the first attempt.
Check(a) ==
    /\ act[a].pc = "check"
    /\ act' = [act EXCEPT ![a].pc = IF Refusal THEN "refused" ELSE "try", ![a].attempt = 1]
    /\ moved' = [moved EXCEPT ![act[a].row] = "no"]
    /\ UNCHANGED <<spool, drain, route, now, closings, crashes, injected, turned, gap>>

RecordRefused(a) ==
    /\ act[a].pc = "refused"
    /\ Record(act[a].row, "failed") /\ Goto(a, "error")
    /\ UNCHANGED <<drain, route, now, closings, crashes, injected, turned, gap, moved>>

\* inject_message answers True once the turn is scheduled; core admits it
\* only where the route has its envelope.
Inject(a) ==
    /\ act[a].pc = "try" /\ Goto(a, "sent")
    /\ injected' = [injected EXCEPT ![act[a].row] = @ + 1]
    /\ turned' = [turned EXCEPT ![act[a].row] = @ + (IF route \/ Blind THEN 1 ELSE 0)]
    /\ UNCHANGED <<spool, drain, route, now, closings, crashes, gap, moved>>

\* No plugin context, an exception or a refusal.
Miss(a) ==
    /\ act[a].pc = "try" /\ Goto(a, "missed")
    /\ UNCHANGED <<spool, drain, route, now, closings, crashes, injected, turned, gap, moved>>

RecordSent(a) ==
    /\ act[a].pc = "sent"
    /\ Record(act[a].row, "delivered") /\ Goto(a, "ok")
    /\ UNCHANGED <<drain, route, now, closings, crashes, injected, turned, gap, moved>>

Final(k) == k = MaxAttempts

RecordMissed(a) ==
    LET final == Final(act[a].attempt) IN
    /\ act[a].pc = "missed"
    /\ Record(act[a].row, IF final THEN "failed" ELSE "pending")
    /\ Goto(a, IF final THEN "error" ELSE "backoff")
    /\ UNCHANGED <<drain, route, now, closings, crashes, injected, turned, gap, moved>>

Retry(a) ==
    /\ act[a].pc = "backoff"
    /\ act' = [act EXCEPT ![a].pc = "try", ![a].attempt = (@ % MaxAttempts) + 1]
    /\ moved' = [moved EXCEPT ![act[a].row] = IF @ = "no" THEN @ ELSE "before"]
    /\ UNCHANGED <<spool, drain, route, now, closings, crashes, injected, turned, gap>>

\* The answer (202 or the stream, 502 bridge_unavailable) ends the request;
\* the same client may press again.
Answered(p) ==
    /\ p \in Senders /\ act[p].pc \in {"ok", "error"}
    /\ act' = [act EXCEPT ![p] = Idle]
    /\ UNCHANGED <<spool, drain, route, now, closings, crashes, injected, turned, gap, moved>>

\* A request task cancelled while it waits for the lock or in a backoff.
Cancelled(p) ==
    /\ p \in Senders /\ act[p].pc \in {"lock", "backoff"}
    /\ act' = [act EXCEPT ![p] = Idle]
    /\ UNCHANGED <<spool, drain, route, now, closings, crashes, injected, turned, gap, moved>>

-----------------------------------------------------------------------------
(* Bridge.drain, armed once per load                                       *)

DrainReads ==
    /\ drain.pc = "armed"
    /\ drain' = [pc |-> "mark", heads |-> <<>>, at |-> now,
                 list |-> {r \in DOMAIN spool : spool[r].status \in Undelivered}]
    /\ UNCHANGED <<spool, act, route, now, closings, crashes, injected, turned, gap, moved>>

HeadOf(r) == {i \in DOMAIN drain.heads : spool[drain.heads[i]].text = spool[r].text}

Stale(r) == drain.at > spool[r].created + MaxAge

\* The rows of the snapshot are marked without their locks.
DrainMarks ==
    LET r == Oldest(drain.list) IN
    /\ drain.pc = "mark" /\ drain.list # {}
    /\ IF Stale(r) THEN Record(r, "stale")
       ELSE IF HeadOf(r) # {} THEN Record(r, "merged")
       ELSE UNCHANGED spool
    /\ drain' = [drain EXCEPT !.list = @ \ {r},
                              !.heads = IF Stale(r) \/ HeadOf(r) # {} THEN @ ELSE Append(@, r)]
    /\ UNCHANGED <<act, route, now, closings, crashes, injected, turned, gap, moved>>

\* Each head is delivered by _run in turn.
DrainRuns ==
    /\ drain.pc = "mark" /\ drain.list = {} /\ drain.heads # <<>>
    /\ act[Drainer].pc \in {"idle", "ok", "error"}
    /\ act' = [act EXCEPT ![Drainer].pc = "lock", ![Drainer].row = Head(drain.heads)]
    /\ drain' = [drain EXCEPT !.heads = Tail(@)]
    /\ UNCHANGED <<spool, route, now, closings, crashes, injected, turned, gap, moved>>

DrainEnds ==
    /\ drain.pc = "mark" /\ drain.list = {} /\ drain.heads = <<>>
    /\ act[Drainer].pc \in {"idle", "ok", "error"}
    /\ act' = [act EXCEPT ![Drainer] = Idle]
    /\ drain' = [drain EXCEPT !.pc = "done"]
    /\ UNCHANGED <<spool, route, now, closings, crashes, injected, turned, gap, moved>>

-----------------------------------------------------------------------------
(* The environment: the clock, the route, a restart of the gateway         *)

\* A tick is as long as a window, a delivery takes seconds: the clock moves
\* between deliveries.
Tick ==
    /\ drain.pc # "mark" /\ \A a \in Actors : act[a].pc \in {"idle", "ok", "error"}
    /\ now < MaxTime /\ now' = now + 1
    /\ UNCHANGED <<spool, act, drain, route, closings, crashes, injected, turned, gap, moved>>

RouteCloses ==
    /\ route /\ closings < Closings /\ route' = FALSE /\ closings' = closings + 1
    /\ moved' = [r \in Rows |->
                   IF \E a \in Actors : act[a].row = r /\ act[a].pc = "try" THEN "during"
                   ELSE IF \E a \in Actors : act[a].row = r /\ act[a].pc \in {"missed", "backoff"} THEN "before"
                   ELSE moved[r]]
    /\ UNCHANGED <<spool, act, drain, now, crashes, injected, turned, gap>>

\* A human message on the route commits an envelope.
RouteOpens ==
    /\ ~route /\ route' = TRUE
    /\ UNCHANGED <<spool, act, drain, now, closings, crashes, injected, turned, gap, moved>>

Crash ==
    /\ crashes < Crashes /\ crashes' = crashes + 1
    /\ act' = [a \in Actors |-> Idle] /\ drain' = Asleep
    /\ gap' = [r \in Rows |-> gap[r] + Cardinality({a \in Actors : act[a].pc = "sent" /\ act[a].row = r})]
    /\ UNCHANGED <<spool, route, now, closings, injected, turned, moved>>

Delivery(a) ==
    Acquire(a) \/ Check(a) \/ RecordRefused(a) \/ Inject(a) \/ Miss(a) \/ RecordSent(a)
        \/ RecordMissed(a) \/ Retry(a)

Draining == DrainReads \/ DrainMarks \/ DrainRuns \/ DrainEnds

Next ==
    \/ \E p \in Senders, t \in Texts : Send(p, t)
    \/ \E a \in Actors : Delivery(a)
    \/ \E p \in Senders : Answered(p) \/ Cancelled(p)
    \/ Draining
    \/ Tick \/ RouteCloses \/ RouteOpens \/ Crash

Spec == Init /\ [][Next]_vars

\* The event loop runs every task that can run; asyncio.Lock is first come
\* first served. Nothing makes the app send, the clock matter or the route move.
FairSpec ==
    /\ Spec /\ WF_vars(Draining)
    /\ \A a \in Actors : SF_vars(Acquire(a)) /\ WF_vars(Delivery(a))

-----------------------------------------------------------------------------
\* A row starts at most one turn, whatever requests, resends and the drain
\* race for it, but for a restart between the injection and its record.
OneTurnPerRow == \A r \in Rows : injected[r] <= 1 + gap[r]

\* A row that says delivered was injected, and one that was injected is not
\* waiting for another delivery unless a restart took its record.
DeliveredWasInjected ==
    \A r \in DOMAIN spool :
        /\ spool[r].status = "delivered" => injected[r] > 0
        /\ injected[r] > gap[r] => spool[r].status = "delivered" \/ \E a \in Actors : Inside(a, r)

\* A text is not thrown away: a merged row has an older row of the same text
\* that was delivered, is still owed or grew stale.
MergedIsKept ==
    \A r \in DOMAIN spool : spool[r].status = "merged" =>
        \E h \in 1..(r - 1) : spool[h].text = spool[r].text /\ spool[h].status # "merged"

\* A row is delivered without a turn only where its route closed after the
\* check.
RefusedIsKept ==
    \A r \in DOMAIN spool : spool[r].status = "delivered" /\ turned[r] = 0 => moved[r] # "no"

\* The route is asked before each attempt: a row is delivered without a turn
\* only where the route closed during the very attempt that injected it.
AskedBeforeEachAttempt ==
    \A r \in DOMAIN spool : spool[r].status = "delivered" /\ turned[r] = 0 => moved[r] = "during"

\* The text of a new row has no row delivered within the window.
DoubleSendFolds ==
    [][Len(spool') > Len(spool) =>
         \A r \in DOMAIN spool :
             spool[r].text = spool'[Len(spool')].text /\ spool[r].status = "delivered"
                 => now > spool[r].updated + Dedup]_vars

\* Two rows of one text are never both injected within the window.
NoDoublePost ==
    Len(spool') > Len(spool) =>
        \A r \in DOMAIN spool :
            spool[r].text = spool'[Len(spool')].text /\ spool[r].created + Dedup >= now
                => spool[r].status \in {"merged", "stale"}
=============================================================================
