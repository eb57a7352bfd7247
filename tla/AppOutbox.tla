----------------------------- MODULE AppOutbox -----------------------------
(***************************************************************************)
(* The App's outbox for sends over the WebSocket bridge                    *)
(* (app/lib/data/ws_outbox.dart), with the sends that feed it (ws_route,   *)
(* chat_controller) and the link under it (gateway_ws). One isolate, one   *)
(* event loop: a step below is what runs between two awaits. The owner     *)
(* behind the bridge, which admits each submission id once, and the        *)
(* device's preference store, which writes in the order asked, are         *)
(* external.                                                               *)
(***************************************************************************)
EXTENDS Integers, Sequences, FiniteSets, Functions, Lists

CONSTANTS
    Sessions,      \* WS-routed sessions
    Keys,          \* bound: texts the user sends, numbered as typed
    Live,          \* whether a send may be a live turn
    MaxDrops,      \* bound: losses of the link
    MaxUnknowns,   \* bound: calls that end unknown while the link is up
    MaxCrashes,    \* bound: deaths of the App's process
    MaxRefusals,   \* bound: definitive refusals of the owner
    MaxDead        \* bound: 1 when the bridge may be given up for good

OutboxAssumption ==
    /\ Keys \in Nat /\ Live \in BOOLEAN /\ MaxDead \in 0..1
    /\ {MaxDrops, MaxUnknowns, MaxCrashes, MaxRefusals} \subseteq Nat

VARIABLES
    send,      \* each text: its session, whether it is a live turn, its place
    entries,   \* _entries, keys in insertion order
    disk,      \* the persisted outbox
    writes,    \* preference writes asked and not yet done
    claimed,   \* _claimed
    chain,     \* the bodies waiting on _chain
    job,       \* the body running
    retry,     \* whether the _retry timer is armed
    up,        \* GatewayWs.connected
    dead,      \* GatewayWs.degraded
    stray,     \* requests the App has given up on, still on their way
    admitted,  \* what the owner admitted, in order
    drafts,    \* the texts back in the persisted drafts
    left       \* the bounds not yet spent

link == <<up, dead>>
vars == <<send, entries, disk, writes, claimed, chain, job, retry, link, stray,
          admitted, drafts, left>>

Key == 1..Keys
None == 0
NoJob(freed) == [kind |-> "none", key |-> freed, stage |-> "none", rest |-> <<>>]
Idle == NoJob(None)
Unsent == [sid |-> None, live |-> FALSE, at |-> "unsent"]

\* A turn is busy from send() to the answer of its submit: sendBlocked.
Busy == {"chosen", "saving", "submitting"}
\* The user's text is spent: nothing but the outbox holds it.
Spent(k) == send[k].at \in {"queued", "parked"}
\* The owner has it, or the draft.
Left(k) == k \in Range(admitted) \cup drafts
Typed == Cardinality({k \in Key : send[k].at # "unsent"})

Init ==
    /\ send = [k \in Key |-> Unsent]
    /\ entries = <<>> /\ disk = <<>> /\ writes = <<>>
    /\ claimed = {} /\ chain = <<>> /\ job = Idle /\ retry = FALSE
    /\ up = FALSE /\ dead = FALSE /\ stray = {}
    /\ admitted = <<>> /\ drafts = {}
    /\ left = [drop |-> MaxDrops, unknown |-> MaxUnknowns, crash |-> MaxCrashes,
               refuse |-> MaxRefusals, dead |-> MaxDead]

\* Microtasks run before the next event: the body that follows on the chain
\* starts as soon as the one before it has ended, and only then is the claim
\* of an ended submit dropped (its whenComplete).
Ready == job.kind = "none" /\ (chain # <<>> \/ job.key # None)

Chained(kind, k) == Append(chain, [kind |-> kind, key |-> k])
Write(kind, k, q) == Append(writes, [kind |-> kind, key |-> k, value |-> q])

-----------------------------------------------------------------------------
(* Sends.                                                                  *)

\* Mutant: only the link decides.
MustQueue_LinkOnly(s) == ~up

\* A new send must wait in the outbox: the link is down, or older sends of
\* the session are still there.
MustQueue(s) == ~up \/ \E k \in Range(entries) : send[k].sid = s

\* ChatController.send, or a steer that goes in as the next prompt: the route
\* is decided here, the text is written after the awaits in between.
Send(s) ==
    /\ ~Ready /\ Typed < Keys /\ ~dead
    /\ \A k \in Key : send[k].sid = s => send[k].at \notin Busy
    /\ \E l \in {l \in BOOLEAN : l => Live /\ ~MustQueue(s)} :
          send' = [send EXCEPT ![Typed + 1] =
                      [sid |-> s, live |-> l, at |-> "chosen"]]
    /\ UNCHANGED <<entries, disk, writes, claimed, chain, job, retry, link,
                   stray, admitted, drafts, left>>

\* The key enqueue claims for a live turn.
Claims(k) == IF send[k].live THEN {k} ELSE {}

\* WsOutbox.enqueue up to its await.
Enqueue(k) ==
    /\ ~Ready /\ send[k].at = "chosen"
    /\ send' = [send EXCEPT ![k].at = "saving"]
    /\ claimed' = claimed \cup Claims(k)
    /\ entries' = Append(entries, k)
    /\ writes' = Write("enqueue", k, entries')
    /\ UNCHANGED <<disk, chain, job, retry, link, stray, admitted, drafts, left>>

-----------------------------------------------------------------------------
(* The bodies on the chain.                                                *)

\* flush from one entry to the next: it passes by what a live turn claimed,
\* puts the first other one on the wire, and leaves the rest for later.
FlushOn(q) ==
    LET i == CHOOSE i \in DOMAIN q : q[i] \notin claimed /\ \A j \in 1..(i - 1) : q[j] \in claimed
    IN  IF up /\ ~(Range(q) \subseteq claimed)
        THEN [kind |-> "flush", key |-> q[i], stage |-> "call",
              rest |-> SubSeq(q, i + 1, Len(q))]
        ELSE Idle

\* _releaseAll from one entry to the next.
ReleaseOn(q) ==
    IF q = <<>> THEN Idle
    ELSE [kind |-> "release", key |-> Head(q), stage |-> "refused", rest |-> Tail(q)]

StartFlush ==
    /\ Head(chain).kind = "flush"
    /\ retry' = FALSE
    /\ job' = FlushOn(entries)
    /\ UNCHANGED send

\* submit: an entry released meanwhile, or a link that is down, parks the turn.
StartSubmit ==
    /\ Head(chain).kind = "submit"
    /\ LET k == Head(chain).key
       IN  IF up /\ k \in Range(entries)
           THEN /\ job' = [kind |-> "submit", key |-> k, stage |-> "call", rest |-> <<>>]
                /\ UNCHANGED send
           ELSE /\ job' = NoJob(k)
                /\ send' = [send EXCEPT ![k].at = "parked"]
    /\ UNCHANGED retry

StartRelease ==
    /\ Head(chain).kind = "release"
    /\ retry' = FALSE
    /\ job' = ReleaseOn(entries)
    /\ UNCHANGED send

Start ==
    /\ job.kind = "none" /\ chain # <<>>
    /\ StartFlush \/ StartSubmit \/ StartRelease
    /\ chain' = Tail(chain)
    /\ claimed' = claimed \ {job.key}
    /\ UNCHANGED <<entries, disk, writes, link, stray, admitted, drafts, left>>

\* The claim of an ended submit, with nothing waiting behind it.
Unclaim ==
    /\ job.kind = "none" /\ chain = <<>> /\ job.key # None
    /\ claimed' = claimed \ {job.key}
    /\ job' = Idle
    /\ UNCHANGED <<send, entries, disk, writes, chain, retry, link, stray,
                   admitted, drafts, left>>

-----------------------------------------------------------------------------
(* The wire.                                                               *)

Lands(k) == IF k \in Range(admitted) THEN admitted ELSE Append(admitted, k)

\* The owner takes the submit: once per submission id, or never.
OwnerTakes ==
    /\ ~Ready /\ job.stage = "call"
    /\ \/ /\ admitted' = Lands(job.key)
          /\ job' = [job EXCEPT !.stage = "receipt"]
          /\ UNCHANGED left
       \/ /\ left.refuse > 0 /\ job.key \notin Range(admitted)
          /\ left' = [left EXCEPT !.refuse = @ - 1]
          /\ job' = [job EXCEPT !.stage = "refused"]
          /\ UNCHANGED admitted
    /\ UNCHANGED <<send, entries, disk, writes, claimed, chain, retry, link,
                   stray, drafts>>

\* A request the App no longer waits for lands late, or is lost.
StrayEnds ==
    /\ ~Ready
    /\ \E k \in stray : /\ stray' = stray \ {k}
                        /\ admitted' \in {admitted, Lands(k)}
    /\ UNCHANGED <<send, entries, disk, writes, claimed, chain, job, retry,
                   link, drafts, left>>

Answered == job.stage \in {"receipt", "refused"}

\* The answer: a receipt or a definitive refusal takes the entry out (_remove
\* up to its await). _releaseAll does the same with each entry in turn.
TakeOut ==
    /\ ~Ready /\ Answered
    /\ entries' = Removed(entries, job.key)
    /\ writes' = Write("remove", job.key, entries')
    /\ job' = [job EXCEPT !.stage = IF @ = "refused" THEN "dropping" ELSE "leaving"]
    /\ UNCHANGED <<send, disk, claimed, chain, retry, link, stray, admitted,
                   drafts, left>>

\* Mutant: a stopped flush leaves the rest to the next reconnect.
RetryAfter_Never == retry

\* A flush stopped at an entry arms the timer; a submit throws to its turn.
RetryAfter == retry \/ job.kind = "flush"

\* The call ends with its outcome unknown.
Fail ==
    /\ retry' = RetryAfter
    /\ stray' = IF job.stage = "call" THEN stray \cup {job.key} ELSE stray
    /\ IF job.kind = "submit"
       THEN /\ job' = NoJob(job.key)
            /\ send' = [send EXCEPT ![job.key].at = "parked"]
       ELSE job' = Idle /\ UNCHANGED send

OnWire == job.kind # "release" /\ job.stage \in {"call", "receipt", "refused"}

\* callTimeout, or the bridge's upstream_timeout, with the link still up.
CallUnknown ==
    /\ ~Ready /\ up /\ OnWire /\ left.unknown > 0
    /\ left' = [left EXCEPT !.unknown = @ - 1]
    /\ Fail
    /\ UNCHANGED <<entries, disk, writes, claimed, chain, link, admitted, drafts>>

\* The socket ends, or the bridge says its upstream does: every pending call
\* ends unknown.
LinkDown ==
    /\ ~Ready /\ up /\ left.drop > 0
    /\ left' = [left EXCEPT !.drop = @ - 1]
    /\ up' = FALSE
    /\ IF OnWire THEN Fail ELSE UNCHANGED <<job, retry, stray, send>>
    /\ UNCHANGED <<entries, disk, writes, claimed, chain, dead, admitted, drafts>>

\* The link is usable again (and the resumes replayed).
LinkUp ==
    /\ ~Ready /\ ~up /\ ~dead
    /\ up' = TRUE
    /\ chain' = Chained("flush", None)
    /\ UNCHANGED <<send, entries, disk, writes, claimed, job, retry, dead, stray,
                   admitted, drafts, left>>

\* The connector gives the bridge up for good.
Degrade ==
    /\ ~Ready /\ ~up /\ ~dead /\ left.dead > 0
    /\ left' = [left EXCEPT !.dead = @ - 1]
    /\ dead' = TRUE
    /\ chain' = Chained("release", None)
    /\ UNCHANGED <<send, entries, disk, writes, claimed, job, retry, up, stray,
                   admitted, drafts>>

RetryFires ==
    /\ ~Ready /\ retry
    /\ retry' = FALSE
    /\ chain' = Chained("flush", None)
    /\ UNCHANGED <<send, entries, disk, writes, claimed, job, link, stray,
                   admitted, drafts, left>>

-----------------------------------------------------------------------------
(* The preference store, and what waits for it.                            *)

\* enqueue returns: queue flushes, a live turn submits its own entry.
EnqueueReturns(k) ==
    /\ send' = [send EXCEPT ![k].at = IF send[k].live THEN "submitting" ELSE "queued"]
    /\ chain' = IF send[k].live THEN Chained("submit", k) ELSE Chained("flush", None)
    /\ claimed' = IF send[k].live THEN claimed \cup {k} ELSE claimed
    /\ UNCHANGED <<job, drafts>>
    /\ writes' = Tail(writes)

\* The router's refusal listener asks for the draft to be saved.
Refused(k) == Append(Tail(writes), [kind |-> "draft", key |-> k, value |-> <<>>])

\* _remove returns, to the body that called it.
RemoveReturns(k) ==
    /\ UNCHANGED <<chain, claimed, drafts>>
    /\ CASE job.kind = "submit" ->
            /\ job' = NoJob(k)
            /\ send' = [send EXCEPT ![k].at =
                           IF job.stage = "dropping" THEN "kept" ELSE "done"]
            /\ writes' = Tail(writes)
         [] OTHER ->
            /\ job' = IF job.kind = "flush" THEN FlushOn(job.rest)
                      ELSE ReleaseOn(job.rest)
            /\ writes' = IF job.stage = "dropping" THEN Refused(k) ELSE Tail(writes)
            /\ UNCHANGED send

\* The oldest write is done.
Written ==
    /\ ~Ready /\ writes # <<>>
    /\ LET w == Head(writes)
       IN  \/ /\ w.kind = "enqueue" /\ disk' = w.value
              /\ EnqueueReturns(w.key)
           \/ /\ w.kind = "remove" /\ disk' = w.value
              /\ RemoveReturns(w.key)
           \/ /\ w.kind = "draft" /\ drafts' = drafts \cup {w.key}
              /\ writes' = Tail(writes)
              /\ UNCHANGED <<send, disk, chain, claimed, job>>
    /\ UNCHANGED <<entries, retry, link, stray, admitted, left>>

\* What the constructor's _load finds.
Loaded == disk

\* The process dies, and the App is opened again: what was in memory, and
\* the writes not yet done, are gone.
Crash ==
    /\ ~Ready /\ left.crash > 0
    /\ left' = [left EXCEPT !.crash = @ - 1]
    /\ entries' = Loaded
    /\ send' = [k \in Key |->
                  IF send[k].at \notin Busy THEN send[k]
                  ELSE [send[k] EXCEPT !.at =
                           IF k \in Range(disk) THEN "queued" ELSE "kept"]]
    /\ stray' = IF job.stage = "call" THEN stray \cup {job.key} ELSE stray
    /\ writes' = <<>> /\ claimed' = {} /\ chain' = <<>> /\ job' = Idle
    /\ retry' = FALSE /\ up' = FALSE /\ dead' = FALSE
    /\ UNCHANGED <<disk, admitted, drafts>>

Next ==
    \/ \E s \in Sessions : Send(s)
    \/ \E k \in Key : Enqueue(k)
    \/ Start \/ Unclaim \/ OwnerTakes \/ StrayEnds \/ TakeOut \/ CallUnknown
    \/ LinkDown \/ LinkUp \/ Degrade \/ RetryFires \/ Written \/ Crash

\* The event loop and the store go on, timers fire, the link comes back while
\* it has not been given up, and the owner answers what reaches it.
Fairness ==
    /\ \A k \in Key : WF_vars(Enqueue(k))
    /\ WF_vars(Start) /\ WF_vars(Unclaim) /\ WF_vars(OwnerTakes)
    /\ WF_vars(TakeOut) /\ WF_vars(Written)
    /\ WF_vars(LinkUp) /\ WF_vars(RetryFires)

Spec == Init /\ [][Next]_vars /\ Fairness

-----------------------------------------------------------------------------
Jobs == [kind : {"none", "flush", "submit", "release"}, key : 0..Keys,
            stage : {"none", "call", "receipt", "refused", "leaving", "dropping"},
            rest : Seq(Key)]

\* Types of the App's state; the current body has at most one request on the
\* wire and no key is twice in the outbox.
TypeOK ==
    /\ send \in [Key -> [sid : Sessions \cup {None}, live : BOOLEAN,
                         at : Busy \cup {"unsent", "queued", "parked", "done", "kept"}]]
    /\ {entries, disk, admitted} \subseteq Seq(Key)
    /\ IsInjective(entries) /\ IsInjective(disk)
    /\ writes \in Seq([kind : {"enqueue", "remove", "draft"}, key : Key, value : Seq(Key)])
    /\ chain \in Seq([kind : {"flush", "submit", "release"}, key : 0..Keys])
    /\ job \in Jobs
    /\ claimed \subseteq Key /\ stray \subseteq Key /\ drafts \subseteq Key
    /\ {retry, up, dead} \subseteq BOOLEAN

\* The order the user typed in a session is the order the owner admits, over
\* lost answers, reconnects, restarts and live turns among queued sends. (A
\* text refused for good, or not saved when the process died, is the user's
\* again.)
InOrder ==
    \A i, j \in DOMAIN admitted :
        (i < j /\ send[admitted[i]].sid = send[admitted[j]].sid
               /\ send[admitted[j]].at # "kept")
            => admitted[i] < admitted[j]

\* A text the App has spent is somewhere the next start finds it, or with the
\* owner: in the persisted outbox, in the draft, or admitted.
SpentSurvives ==
    \A k \in Key : Spent(k) =>
        \/ k \in Range(disk) \cup Range(admitted) \cup drafts
        \/ \E i \in DOMAIN writes : writes[i].kind = "draft" /\ writes[i].key = k

\* A flush never submits the entry of a live turn that still waits for its
\* own answer.
TurnGetsReceipt ==
    job.kind = "flush" => ~(send[job.key].live /\ send[job.key].at \in Busy)

\* Every WS send is written to the outbox before its first network byte.
SavedBeforeSent == job.stage = "call" => job.key \in Range(disk)

\* A spent text reaches the owner, or comes back to the draft, without the
\* user doing anything.
SpentGoesOut ==
    \A k \in Key : Spent(k) ~> Left(k)
=============================================================================
