----------------------------- MODULE DetachPush -----------------------------
(***************************************************************************)
(* The push unit of compat.py: one session-SSE turn whose viewer may go    *)
(* away while the turn keeps running. Worker callbacks only post a         *)
(* transition; transitions run one at a time on the run's event loop. The  *)
(* writer acknowledges the terminal frame once it is written; a socket     *)
(* failure detaches the run instead of interrupting it.                    *)
(* FIFO order of posts and frames is asyncio's and the SSE queue's.        *)
(***************************************************************************)
EXTENDS Naturals, Sequences, FiniteSets

CONSTANTS
    Requests,    \* native approval requests of the turn
    LedgerLive,  \* the notification ledger owns terminal notifications
    InboxLive,   \* the approval dispatcher owns approval notifications
    Evictions,   \* whether _push_prune may release the run
    MaxPosted    \* bound on posted transitions, for repeated status writes

Shape ==
    /\ LedgerLive \in BOOLEAN /\ InboxLive \in BOOLEAN /\ Evictions \in BOOLEAN /\ MaxPosted \in Nat
    /\ Requests \cap {"none", "end", "running", "completed", "failed", "cancelled"} = {}

VARIABLES
    worker,   \* what the turn does: running, waiting on a request, or ended
    asked,    \* requests the turn has raised
    posted,   \* transitions posted to the loop and not yet run
    sse,      \* frames queued for the writer
    socket,   \* "preparing", "open", "gone" or "closed"
    wrote,    \* whether the terminal frame reached the viewer
    st,       \* the per-run state of the registry
    discard,  \* whether the discard consumer runs
    closed,   \* the unit was unloaded
    pushed    \* pushed[x]: notifications published for a request or the end

vars == <<worker, asked, posted, sse, socket, wrote, st, discard, closed, pushed>>

None == "none"
Ends == {"completed", "failed", "cancelled"}
Subjects == Requests \cup {"end"}

TypeOK ==
    /\ worker \in {"running"} \cup Requests \cup Ends
    /\ asked \subseteq Requests
    /\ socket \in {"preparing", "open", "gone", "closed"} /\ wrote \in BOOLEAN
    /\ st \in [detached : BOOLEAN, closing : BOOLEAN, released : BOOLEAN,
               pending : Requests \cup {None}, told : SUBSET Requests,
               terminal : Ends \cup {None}, ended : BOOLEAN, acked : BOOLEAN]
    /\ discard \in BOOLEAN /\ closed \in BOOLEAN
    /\ pushed \in [Subjects -> Nat]

\* register: settings are present, so the run has a state.
Init ==
    /\ worker = "running" /\ asked = {} /\ posted = <<>> /\ sse = <<>>
    /\ socket = "preparing" /\ wrote = FALSE
    /\ st = [detached |-> FALSE, closing |-> FALSE, released |-> FALSE, pending |-> None,
             told |-> {}, terminal |-> None, ended |-> FALSE, acked |-> FALSE]
    /\ discard = FALSE /\ closed = FALSE
    /\ pushed = [x \in Subjects |-> 0]

-----------------------------------------------------------------------------
(* The turn: every status write is followed by a posted transition         *)

SetStatus(status) ==
    /\ worker' = status
    /\ posted' = Append(posted, status)

\* waiting_for_approval, then the approval.request frame.
Asks(r) ==
    /\ worker = "running" /\ r \notin asked
    /\ SetStatus(r) /\ asked' = asked \cup {r} /\ sse' = Append(sse, "frame")
    /\ UNCHANGED <<socket, wrote, st, discard, closed, pushed>>

Resumes ==
    /\ worker \in Requests
    /\ SetStatus("running")
    /\ UNCHANGED <<asked, sse, socket, wrote, st, discard, closed, pushed>>

\* A status is written again: the inbox restores a waiting card, a terminal
\* status is reported by two paths.
Repeats ==
    /\ worker /= "running" /\ Len(posted) < MaxPosted
    /\ SetStatus(worker)
    /\ UNCHANGED <<asked, sse, socket, wrote, st, discard, closed, pushed>>

\* The terminal frame is queued after the terminal status. A cancelled turn
\* sends none that the writer would acknowledge.
Finishes(status) ==
    /\ worker \in {"running"} \cup Requests
    /\ SetStatus(status)
    /\ sse' = Append(sse, IF status = "cancelled" THEN "frame" ELSE "terminal")
    /\ UNCHANGED <<asked, socket, wrote, st, discard, closed, pushed>>

-----------------------------------------------------------------------------
(* Transitions on the loop                                                 *)

\* _push_publish and _push_approval_exit_handed_off: another unit publishes.
Owned(x) == IF x = "end" THEN LedgerLive ELSE InboxLive

Publishing(xs) ==
    pushed' = [x \in Subjects |-> IF x \in xs /\ ~Owned(x) THEN pushed[x] + 1 ELSE pushed[x]]

\* What a detached run still owes: its pending request, its unseen end.
Due(s) ==
    (IF s.detached /\ s.pending /= None /\ s.pending \notin s.told THEN {s.pending} ELSE {})
    \cup (IF s.detached /\ s.terminal \in {"completed", "failed"} /\ ~s.acked /\ ~s.ended
          THEN {"end"} ELSE {})

\* The state after a transition, with what it owed marked as told.
Told(s, due) ==
    [s EXCEPT !.told = @ \cup (due \ {"end"}), !.ended = @ \/ "end" \in due]

\* guarded() and the early returns: nothing happens to a closed registry, a
\* released run or a run being stopped.
Open == ~closed /\ ~st.released /\ ~st.closing

\* _push_status_transition.
Transition ==
    LET status == Head(posted)
        s == IF status \in Requests THEN [st EXCEPT !.pending = status]
             ELSE IF status = "running" THEN [st EXCEPT !.pending = None]
             ELSE [st EXCEPT !.pending = None,
                             !.terminal = IF @ = None THEN status ELSE @]
    IN /\ posted /= <<>>
       /\ posted' = Tail(posted)
       /\ IF Open THEN st' = Told(s, Due(s)) /\ Publishing(Due(s)) ELSE UNCHANGED <<st, pushed>>
       /\ UNCHANGED <<worker, asked, sse, socket, wrote, discard, closed>>

\* _push_detach, once: the turn keeps running, its queue is drained.
Detach ==
    LET s == [st EXCEPT !.detached = TRUE] IN
    IF Open /\ ~st.detached
    THEN st' = Told(s, Due(s)) /\ Publishing(Due(s)) /\ discard' = TRUE
    ELSE UNCHANGED <<st, pushed, discard>>

-----------------------------------------------------------------------------
(* The SSE writer                                                          *)

Prepares ==
    /\ socket = "preparing"
    /\ socket' = "open"
    /\ UNCHANGED <<worker, asked, posted, sse, wrote, st, discard, closed, pushed>>

\* The wrapped write: a terminal frame is acknowledged if the end is known.
Acked(frame) == frame = "terminal" /\ st.terminal /= None

\* The loop runs what was posted before it wakes the writer for a frame
\* queued later, so the transition of a frame's status precedes its write.
Writes ==
    /\ socket = "open" /\ sse /= <<>>
    /\ Head(sse) = "terminal" => st.terminal /= None \/ ~Open
    /\ sse' = Tail(sse)
    /\ wrote' = (wrote \/ Head(sse) = "terminal")
    /\ st' = IF Acked(Head(sse)) /\ ~closed /\ ~st.released THEN [st EXCEPT !.acked = TRUE] ELSE st
    /\ UNCHANGED <<worker, asked, posted, socket, discard, closed, pushed>>

\* The stream ends after its last frame; until then the socket may fail.
StreamEnds ==
    /\ socket = "open" /\ sse = <<>> /\ worker \in Ends
    /\ socket' = "closed"
    /\ UNCHANGED <<worker, asked, posted, sse, wrote, st, discard, closed, pushed>>

\* A socket error in prepare or in a write: detach, never drain.
SocketFails ==
    /\ socket \in {"preparing", "open"}
    /\ socket' = "gone"
    /\ Detach
    /\ UNCHANGED <<worker, asked, posted, sse, wrote, closed>>

\* The discard consumer empties the queue nobody reads.
Discards ==
    /\ discard /\ sse /= <<>>
    /\ sse' = Tail(sse)
    /\ discard' = (Head(sse) /= "terminal")
    /\ UNCHANGED <<worker, asked, posted, socket, wrote, st, closed, pushed>>

-----------------------------------------------------------------------------
(* Stop, shutdown, eviction, unload                                        *)

\* An explicit stop, an interrupt of a run that has not ended, or the drain
\* of a cancelled stream.
Stops ==
    /\ ~st.closing /\ worker \notin Ends
    /\ st' = [st EXCEPT !.closing = TRUE] /\ discard' = FALSE
    /\ UNCHANGED <<worker, asked, posted, sse, socket, wrote, closed, pushed>>

\* _push_prune, on the registration of another run: over PUSH_MAX_STATES, or
\* no status write for PUSH_RETENTION_SECONDS.
Evict ==
    /\ Evictions /\ ~st.released
    /\ st' = [st EXCEPT !.released = TRUE] /\ discard' = FALSE
    /\ UNCHANGED <<worker, asked, posted, sse, socket, wrote, closed, pushed>>

\* close_all: an unloaded unit publishes nothing more.
Unload ==
    /\ ~closed
    /\ closed' = TRUE /\ st' = [st EXCEPT !.released = TRUE] /\ discard' = FALSE
    /\ UNCHANGED <<worker, asked, posted, sse, socket, wrote, pushed>>

Next ==
    \/ \E r \in Requests : Asks(r)
    \/ Resumes \/ Repeats \/ \E e \in Ends : Finishes(e)
    \/ Transition \/ Prepares \/ Writes \/ StreamEnds \/ SocketFails \/ Discards
    \/ Stops \/ Evict \/ Unload

Spec == Init /\ [][Next]_vars

\* The loop runs; a turn ends, by itself or by the core's own timeouts.
TurnGoesOn == Resumes \/ \E e \in Ends : Finishes(e)
FairSpec ==
    /\ Spec /\ WF_vars(Transition) /\ WF_vars(Discards)
    /\ WF_vars(TurnGoesOn)
    /\ WF_vars(Prepares) /\ WF_vars(Writes)

-----------------------------------------------------------------------------
\* "publishes at most one": one notification per request and one per end,
\* whatever the order of detach, status and replay.
AtMostOne == \A x \in Subjects : pushed[x] <= 1

\* "a terminal frame already written to the socket is acknowledged and never
\* re-pushed": the viewer that saw the end is not notified of it.
SeenIsNotPushed == wrote => pushed["end"] = 0

\* "A connected viewer means zero pushes".
ConnectedIsQuiet == socket \notin {"gone"} => \A x \in Subjects : pushed[x] = 0

\* "cancelled/interrupted never push", and a run that is being stopped stays
\* silent from then on.
StoppedIsQuiet == st.closing \/ st.terminal = "cancelled" => pushed' = pushed

\* "the new dispatcher, so an inbox-covered run is never notified twice": the
\* exit is silent about what another unit notifies.
OneExit ==
    /\ LedgerLive => pushed["end"] = 0
    /\ InboxLive => \A r \in Requests : pushed[r] = 0

\* A viewer that left before the end hears of it, unless the run was stopped or
\* cancelled, forgotten or owned by the ledger: socket = "gone" leads to
\* AbsentIsTold.
AbsentIsTold ==
    \/ pushed["end"] = 1 \/ wrote \/ st.closing \/ st.released \/ LedgerLive
    \/ st.terminal = "cancelled"

\* "Detached turns keep running ... and one discard consumer bounds the event
\* queue", until the run is stopped or the unit unloaded.
DetachedIsDrained ==
    st.detached /\ worker \notin Ends /\ ~st.closing /\ ~closed => discard
=============================================================================
