---------------------------- MODULE CrossFollow -----------------------------
(***************************************************************************)
(* The stream route of crosssource.py after its text was spooled: the      *)
(* follow of the injected turn on the session's event stream, and the      *)
(* registry of the synthetic run ids it hands out. The gateway's own parts *)
(* (admission queue, event stream) are external. An admission is named by  *)
(* the stream whose injection it is; one Discord session.                  *)
(***************************************************************************)
EXTENDS Naturals, Sequences, Lists, FiniteSets

CONSTANTS
    Streams,    \* stream requests whose text was injected
    SameText,   \* whether they all send the same text
    Cap,        \* SYNTHETIC_RUNS_CAP
    Admits,     \* streams whose scheduled injection core does admit
    Deltas,     \* bound: frames between start and complete of a turn
    Resets,     \* bound: how often core drops the idle live session
    Timeouts    \* whether the admission wait or the turn's idle timeout may fire

None == "none"

Shape ==
    /\ {Cap, Deltas, Resets} \subseteq Nat /\ Cap > 0 /\ {SameText, Timeouts} \subseteq BOOLEAN
    /\ Admits \subseteq Streams /\ None \notin Streams

VARIABLES
    live,     \* the live session: whether it exists, how many came before
    log,      \* frames published on its event stream
    pending,  \* admissions queued, oldest first
    running,  \* the admission running, or none
    order,    \* admissions in the order core admitted them
    said,     \* said[s]: turn frames published for admission s
    st,       \* st[s]: the request
    runs      \* the synthetic ids, in the order they were issued

vars == <<live, log, pending, running, order, said, st, runs>>

Open == {"issued", "attached"}
Fresh == [pc |-> "idle", mark |-> <<0, 0>>, queue |-> <<>>, target |-> None, started |-> FALSE,
          shown |-> <<>>, ended |-> None]

Ids == {runs[i].id : i \in DOMAIN runs}

TypeOK ==
    /\ live.up \in BOOLEAN /\ live.epoch <= Resets
    /\ Len(runs) <= Cap /\ \A i, j \in DOMAIN runs : runs[i].id = runs[j].id => i = j
    /\ running \in Streams \cup {None} /\ Range(pending) \subseteq Range(order)
    /\ \A s \in Streams :
         /\ st[s].pc \in {"idle", "prepared", "sent", "issued", "attached", "closed"}
         /\ st[s].target \in Streams \cup {None}
         /\ st[s].ended \in {None, "run.completed", "not_seen", "left"}

Init ==
    /\ live = [up |-> FALSE, epoch |-> 0] /\ log = <<>>
    /\ pending = <<>> /\ running = None /\ order = <<>>
    /\ said = [s \in Streams |-> <<>>] /\ st = [s \in Streams |-> Fresh] /\ runs = <<>>

-----------------------------------------------------------------------------
(* The gateway (external): admissions and the frames it publishes          *)

\* SessionEvents.publish: into the ring and to every observer, under the lock.
Publish(frame, up) ==
    /\ log' = Append(log, frame)
    /\ st' = [s \in Streams |-> IF st[s].pc = "attached" /\ st[s].mark[1] = live.epoch
                                THEN [st[s] EXCEPT !.queue = Append(@, frame)] ELSE st[s]]
    /\ live' = [live EXCEPT !.up = up]

Info(queued) == [type |-> "info", pending |-> Range(queued)]

\* n is for the proofs: which frame of its turn this is; no code reads it.
Frame(type, s) == [type |-> type, adm |-> s, n |-> Len(said[s]) + 1]

\* The scheduled injection becomes a durable admission of the session.
Admit(s) ==
    /\ s \in Admits /\ st[s].pc \notin {"idle", "prepared"} /\ s \notin Range(order)
    /\ order' = Append(order, s) /\ pending' = Append(pending, s)
    /\ Publish(Info(pending'), TRUE)
    /\ UNCHANGED <<running, said, runs>>

Says(s, type) ==
    /\ said' = [said EXCEPT ![s] = Append(@, type)]
    /\ Publish(Frame(type, s), TRUE)
    /\ UNCHANGED <<order, runs>>

Start ==
    /\ running = None /\ pending # <<>>
    /\ running' = Head(pending) /\ pending' = Tail(pending) /\ Says(Head(pending), "start")

Delta ==
    /\ running # None /\ Len(said[running]) <= Deltas
    /\ Says(running, "delta") /\ UNCHANGED <<running, pending>>

Complete ==
    /\ running # None
    /\ Says(running, "complete") /\ running' = None /\ UNCHANGED pending

\* Core drops an idle live session; a later admission makes another.
LiveGone ==
    /\ live.up /\ live.epoch < Resets /\ running = None /\ pending = <<>>
    /\ live' = [up |-> FALSE, epoch |-> live.epoch + 1] /\ log' = <<>>
    /\ UNCHANGED <<pending, running, order, said, st, runs>>

-----------------------------------------------------------------------------
(* SyntheticRuns                                                           *)

Without(id) ==
    IF id \in Ids THEN RemovedAt(runs, CHOOSE i \in DOMAIN runs : runs[i].id = id) ELSE runs

\* Released ids go first; only then the oldest open stream's.
Victim ==
    LET gone == {i \in DOMAIN runs : runs[i].released} IN
    IF gone # {} THEN runs[CHOOSE i \in gone : \A j \in gone : i <= j].id ELSE runs[1].id

Issued(s) ==
    Append(IF Len(runs) >= Cap THEN Without(Victim) ELSE runs,
           [id |-> s, adm |-> None, released |-> FALSE, terminal |-> FALSE])

Bound(rs, s, adm) ==
    [i \in DOMAIN rs |-> IF rs[i].id = s /\ adm # None THEN [rs[i] EXCEPT !.adm = adm] ELSE rs[i]]

Released(rs, s, ended) ==
    [i \in DOMAIN rs |-> IF rs[i].id = s
                         THEN [rs[i] EXCEPT !.released = TRUE, !.terminal = ended = "run.completed"] ELSE rs[i]]

\* The grace of a released id is over: the next call prunes it. (No stream
\* stays open for SYNTHETIC_MAX_AGE_SECONDS here.)
Expire(id) ==
    /\ \E i \in DOMAIN runs : runs[i].id = id /\ runs[i].released
    /\ runs' = Without(id)
    /\ UNCHANGED <<live, log, pending, running, order, said, st>>

\* What GET /v1/runs/{id} and the steer routes read: the admission the follow
\* named, else the session's running or newest pending one, else terminal.
Admission(e) ==
    IF e.adm # None THEN e.adm
    ELSE IF running # None THEN running
    ELSE IF pending # <<>> THEN pending[Len(pending)] ELSE None

Status(adm) ==
    IF adm = running /\ adm # None THEN "running"
    ELSE IF adm \in Range(pending) THEN "queued" ELSE "terminal"

-----------------------------------------------------------------------------
(* The stream request                                                      *)

\* follow.prepare: the watermark of the live session, if there is one.
Prepare(s) ==
    /\ st[s].pc = "idle"
    /\ st' = [st EXCEPT ![s].pc = "prepared",
                        ![s].mark = <<live.epoch, IF live.up THEN Len(log) ELSE 0>>]
    /\ UNCHANGED <<live, log, pending, running, order, said, runs>>

\* bridge.deliver injected the text; the admission follows when core gets to it.
Deliver(s) ==
    /\ st[s].pc = "prepared" /\ st' = [st EXCEPT ![s].pc = "sent"]
    /\ UNCHANGED <<live, log, pending, running, order, said, runs>>

\* issue and run.started.
Issue(s) ==
    /\ st[s].pc = "sent" /\ st' = [st EXCEPT ![s].pc = "issued"]
    /\ runs' = Issued(s)
    /\ UNCHANGED <<live, log, pending, running, order, said>>

\* Mutant: the frames published between prepare and attach are not replayed.
Replay_None(s) == <<>>

\* Everything published since the watermark of this very stream, else all of it.
Replay(s) == IF st[s].mark[1] = live.epoch THEN SubSeq(log, st[s].mark[2] + 1, Len(log)) ELSE log

\* The observer is added and the ring read under the stream's lock.
Attach(s) ==
    /\ st[s].pc = "issued" /\ live.up
    /\ st' = [st EXCEPT ![s].pc = "attached", ![s].queue = Replay(s), ![s].mark = <<live.epoch, 0>>]
    /\ UNCHANGED <<live, log, pending, running, order, said, runs>>

\* close, bind, release.
End(s, ended) ==
    /\ st' = [st EXCEPT ![s].pc = "closed", ![s].queue = <<>>, ![s].ended = ended]
    /\ runs' = Released(Bound(runs, s, st[s].target), s, ended)

Newest(S) == CHOOSE a \in S : \A b \in S : \E i, j \in DOMAIN order : order[i] = a /\ order[j] = b /\ j <= i

Ours(s, adm) == adm = s \/ SameText

\* session.info before the turn started: the newest matching row is this send.
Named(s, frame) ==
    LET seen == {a \in frame.pending : Ours(s, a)} \cup ({st[s].target} \ {None}) IN
    IF frame.type = "info" /\ ~st[s].started /\ seen # {} THEN Newest(seen) ELSE st[s].target

Mine(s, frame) == frame.type # "info" /\ frame.adm = st[s].target

\* One frame of the queue; a forwarded frame binds the run id to the admission.
Consume(s) ==
    LET frame == Head(st[s].queue) IN
    /\ st[s].pc = "attached" /\ st[s].queue # <<>> /\ ~(Mine(s, frame) /\ frame.type = "complete")
    /\ st' = [st EXCEPT ![s].queue = Tail(@), ![s].target = Named(s, frame),
                        ![s].started = @ \/ (Mine(s, frame) /\ frame.type = "start"),
                        ![s].shown = IF Mine(s, frame) THEN Append(@, <<frame.type, frame.adm>>) ELSE @]
    /\ runs' = IF Mine(s, frame) THEN Bound(runs, s, st[s].target) ELSE runs
    /\ UNCHANGED <<live, log, pending, running, order, said>>

\* message.complete: assistant.completed, run.<status>, done.
Finish(s) ==
    /\ st[s].pc = "attached" /\ st[s].queue # <<>>
    /\ Mine(s, Head(st[s].queue)) /\ Head(st[s].queue).type = "complete"
    /\ End(s, "run.completed")
    /\ UNCHANGED <<live, log, pending, running, order, said>>

\* No live session, no admission in time, or an idle turn: run.queued, done.
HandOff(s) ==
    /\ Timeouts /\ st[s].queue = <<>>
    /\ st[s].pc = "attached" \/ (st[s].pc = "issued" /\ ~live.up)
    /\ End(s, "not_seen")
    /\ UNCHANGED <<live, log, pending, running, order, said>>

\* The client leaves, or the SSE head cannot be written; the turn goes on.
Leave(s) ==
    /\ st[s].pc \in Open /\ End(s, "left")
    /\ UNCHANGED <<live, log, pending, running, order, said>>

Request(s) == Prepare(s) \/ Deliver(s) \/ Issue(s) \/ Attach(s) \/ Consume(s) \/ Finish(s)

Core == Start \/ Delta \/ Complete \/ \E s \in Streams : Admit(s)

Next ==
    \/ \E s \in Streams : Request(s) \/ HandOff(s) \/ Leave(s) \/ Expire(s)
    \/ Core \/ LiveGone

Spec == Init /\ [][Next]_vars

\* The request task runs while it can; core admits what was scheduled and
\* runs its queue.
FairSpec ==
    /\ Spec /\ WF_vars(Core)
    /\ \A s \in Streams : WF_vars(Request(s))

-----------------------------------------------------------------------------
\* A stream shows no turn, and its run id names none, but the one its own
\* send became.
FollowsOwnSend ==
    /\ \A s \in Streams : \A i \in DOMAIN st[s].shown : st[s].shown[i][2] = s
    /\ \A i \in DOMAIN runs : runs[i].adm \in {None, runs[i].id}

\* Attaching loses no frame and repeats none: what a stream shows of its turn
\* is what the turn published, in order, up to where the stream has got.
ShowsTheTurn ==
    \A s \in Streams :
        LET shown == st[s].shown IN
        /\ Len(shown) <= Len(said[s])
        /\ \A i \in DOMAIN shown : shown[i] = <<said[s][i], s>>

\* A stream that saw its turn end showed all of it.
EndsComplete ==
    \A s \in Streams : st[s].ended = "run.completed" => Len(st[s].shown) + 1 = Len(said[s])

\* The id of an open stream leaves the registry only when the registry is
\* full of open streams.
OpenIdIsHeld ==
    \A s \in Streams : st[s].pc \in Open /\ st'[s].pc \in Open /\ s \in Ids =>
        \/ s \in {runs'[i].id : i \in DOMAIN runs'}
        \/ Len(runs) = Cap /\ \A i \in DOMAIN runs : ~runs[i].released

\* After its turn ended in view, an id answers a terminal state, whatever
\* else the session runs by then.
EndedReadsTerminal ==
    \A i \in DOMAIN runs :
        st[runs[i].id].ended = "run.completed" => Status(Admission(runs[i])) = "terminal"
=============================================================================
