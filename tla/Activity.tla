------------------------------ MODULE Activity ------------------------------
(***************************************************************************)
(* The activity unit of compat.py: the process-wide registry behind        *)
(* GET /api/sessions/{id}/activity. Hooks on the gateway's status writes   *)
(* and on the synchronous chat keep one entry per run or observation; a    *)
(* snapshot reads the session's ids first and the registry later. The      *)
(* by_session index is the entry's own set of sessions, read the other way.*)
(* The gateway's runs are external; compression moves a live turn to the   *)
(* next session of a chain 1, 2, ...                                       *)
(***************************************************************************)
EXTENDS Naturals, Sequences, Functions, FiniteSets

CONSTANTS
    Runs,      \* turns with a run id
    Streams,   \* those of the session stream; the others came by the runs API
    Chats,     \* turns of the synchronous chat, observed without a run id
    Tip,       \* length of the chain of sessions
    RecentCap, \* ACTIVITY_RECENT_CAP
    Reloads,   \* bound on unloads and loads of the unit
    Faults,    \* whether a hook may fail or a turn be handed to a live owner
    Drops      \* whether a request may be cancelled

Shape ==
    /\ Tip \in Nat \ {0} /\ {RecentCap, Reloads} \subseteq Nat
    /\ Streams \subseteq Runs /\ Runs \cap Chats = {} /\ {Faults, Drops} \subseteq BOOLEAN

VARIABLES
    core,    \* core[x]: the turn as the gateway has it
    entry,   \* entry[x]: its entry of the registry
    recent,  \* recent[s]: ended entries of session s, newest first
    seen,    \* seen_runs
    blind,   \* why the registry may not claim coverage, or none
    hooked,  \* the unit is installed
    loads,
    snap     \* a snapshot in progress or answered

vars == <<core, entry, recent, seen, blind, hooked, loads, snap>>

Turns == Runs \cup Chats
Sessions == 1..Tip
None == "none"
Ends == {"completed", "failed", "cancelled"}
NoEntry == [kept |-> FALSE, status |-> None, sessions |-> {}]
NoSnap == [pc |-> "none", sid |-> 1, resolved |-> 1, live |-> {}, rows |-> {}]

Live == {x \in Turns : core[x].state \in {"queued", "opening", "running"}}
Running == {x \in Turns : core[x].state = "running"}

Turn == [state : {None, "queued", "opening", "running", "lost"} \cup Ends,
         first : Sessions, sid : Sessions, wrapped : BOOLEAN]
Entry == [kept : BOOLEAN, status : {None, "queued", "running", "unknown"} \cup Ends,
          sessions : SUBSET Sessions]
Snapshot == [pc : {"none", "reading", "rows", "unavailable"}, sid : Sessions,
             resolved : Sessions, live : SUBSET Turns, rows : SUBSET Turns]

TypeOK ==
    /\ core \in [Turns -> Turn] /\ entry \in [Turns -> Entry]
    /\ recent \in [Sessions -> Seq(Turns)] /\ \A s \in Sessions : Len(recent[s]) <= RecentCap
    /\ seen \subseteq Runs /\ hooked \in BOOLEAN /\ loads \in 0..Reloads
    /\ blind \in {None, "unit-unloaded", "unregistered-live-run", "fault", "handoff"}
    /\ snap \in Snapshot

Init ==
    /\ core = [x \in Turns |-> [state |-> None, first |-> 1, sid |-> 1, wrapped |-> FALSE]]
    /\ entry = [x \in Turns |-> NoEntry]
    /\ recent = [s \in Sessions |-> <<>>] /\ seen = {} /\ blind = None
    /\ hooked = TRUE /\ loads = 0 /\ snap = NoSnap

-----------------------------------------------------------------------------
(* The registry                                                            *)

\* Create or fetch an entry and index it under a session.
Tracked(x, status, s) ==
    [entry EXCEPT ![x] = [kept |-> TRUE, status |-> status, sessions |-> @.sessions \cup {s}]]

Remembered(s, x) == SubSeq(<<x>> \o recent[s], 1, IF Len(recent[s]) < RecentCap THEN Len(recent[s]) + 1 ELSE RecentCap)

\* _activity_finish: out of the registry and into the memory of each of its
\* sessions.
Finish(x, status, sessions) ==
    /\ entry' = [entry EXCEPT ![x] = [kept |-> FALSE, status |-> status, sessions |-> sessions]]
    /\ recent' = [s \in Sessions |-> IF s \in sessions THEN Remembered(s, x) ELSE recent[s]]

\* Mutant: the end of a turn is taken for another status.
Terminal_Never(status) == FALSE

Terminal(status) == status \in Ends

\* _activity_status_hook, on every status write of the gateway.
StatusHook(x, status, s) ==
    IF ~hooked THEN UNCHANGED <<entry, recent, seen>>
    ELSE IF Terminal(status)
         THEN /\ IF entry[x].kept THEN Finish(x, status, entry[x].sessions \cup {s})
                 ELSE UNCHANGED <<entry, recent>>
              /\ seen' = seen \cup {x}
         ELSE entry' = Tracked(x, status, s) /\ seen' = seen \cup {x} /\ UNCHANGED recent

-----------------------------------------------------------------------------
(* Turns with a run id                                                     *)

Queues(r, s) ==
    /\ core[r].state = None /\ core' = [core EXCEPT ![r] = [state |-> "queued", first |-> s, sid |-> s, wrapped |-> FALSE]]
    /\ StatusHook(r, "queued", s)
    /\ UNCHANGED <<blind, hooked, loads, snap>>

\* The task runs; for the runs API execute wraps it in track and settle, and
\* handle_runs settles a task that ends before it.
Starts(r) ==
    /\ core[r].state = "queued"
    /\ core' = [core EXCEPT ![r].state = "running", ![r].wrapped = hooked /\ r \notin Streams]
    /\ StatusHook(r, "running", core[r].sid)
    /\ UNCHANGED <<blind, hooked, loads, snap>>

\* Compression rotates the live turn to a child session; no hook sees it.
Rotates(x) ==
    /\ core[x].state = "running" /\ core[x].sid < Tip
    /\ core' = [core EXCEPT ![x].sid = @ + 1]
    /\ UNCHANGED <<entry, recent, seen, blind, hooked, loads, snap>>

EndsWith(r, status) ==
    /\ r \in Runs /\ core[r].state \in {"queued", "running"}
    /\ core' = [core EXCEPT ![r].state = status]
    /\ StatusHook(r, status, core[r].sid)
    /\ UNCHANGED <<blind, hooked, loads, snap>>

\* _activity_settle: only an entry that is still open.
Unsettled(x) == entry[x].kept

\* The executor or its task ends with no terminal status.
Lost(r) ==
    /\ r \in Runs \ Streams /\ core[r].state \in {"queued", "running"}
    /\ core' = [core EXCEPT ![r].state = "lost"]
    /\ IF Unsettled(r) /\ (core[r].wrapped \/ hooked)
       THEN Finish(r, "unknown", entry[r].sessions) ELSE UNCHANGED <<entry, recent>>
    /\ UNCHANGED <<seen, blind, hooked, loads, snap>>

\* The wrapped executor returns after a status the hook did not see.
Settles(r) ==
    /\ r \in Runs /\ core[r].state \in Ends /\ core[r].wrapped /\ Unsettled(r)
    /\ Finish(r, "unknown", entry[r].sessions)
    /\ UNCHANGED <<core, seen, blind, hooked, loads, snap>>

-----------------------------------------------------------------------------
(* The synchronous chat: an observation around _run_agent                  *)

\* The observation is opened and the tail of the history is awaited.
ChatOpens(c, s) ==
    /\ core[c].state = None
    /\ core' = [core EXCEPT ![c] = [state |-> "opening", first |-> s, sid |-> s, wrapped |-> hooked]]
    /\ entry' = IF hooked THEN Tracked(c, "running", s) ELSE entry
    /\ UNCHANGED <<recent, seen, blind, hooked, loads, snap>>

ChatStarts(c) ==
    /\ core[c].state = "opening" /\ core' = [core EXCEPT ![c].state = "running"]
    /\ UNCHANGED <<entry, recent, seen, blind, hooked, loads, snap>>

\* Cancelled in that await: CancelledError is no Exception, and the block that
\* finishes the observation is not entered yet.
ChatDropped(c) ==
    /\ Drops /\ core[c].state = "opening" /\ core' = [core EXCEPT ![c].state = "cancelled"]
    /\ UNCHANGED <<entry, recent, seen, blind, hooked, loads, snap>>

ChatEnds(c, status) ==
    /\ c \in Chats /\ core[c].state = "running" /\ (status = "cancelled" => Drops)
    /\ core' = [core EXCEPT ![c].state = status]
    /\ IF entry[c].kept THEN Finish(c, status, entry[c].sessions) ELSE UNCHANGED <<entry, recent>>
    /\ UNCHANGED <<seen, blind, hooked, loads, snap>>

-----------------------------------------------------------------------------
(* Coverage: faults, hand-offs, unload and load                            *)

\* A hook raised, or a live run without a session was seen.
Fault ==
    /\ Faults /\ hooked /\ blind' = "fault"
    /\ UNCHANGED <<core, entry, recent, seen, hooked, loads, snap>>

\* A session turn went to a live owner outside this process.
HandOff ==
    /\ Faults /\ hooked /\ blind = None /\ blind' = "handoff"
    /\ UNCHANGED <<core, entry, recent, seen, hooked, loads, snap>>

Unload ==
    /\ hooked /\ loads < Reloads /\ hooked' = FALSE /\ blind' = "unit-unloaded"
    /\ UNCHANGED <<core, entry, recent, seen, loads, snap>>

\* A fresh install finds the registry of the process and claims coverage again.
Load ==
    /\ ~hooked /\ hooked' = TRUE /\ loads' = loads + 1 /\ blind' = None
    /\ UNCHANGED <<core, entry, recent, seen, snap>>

\* Live agents and tasks that neither the registry nor seen_runs knows.
Uncovered == {r \in Runs : core[r].state = "running" /\ ~entry[r].kept /\ r \notin seen}

-----------------------------------------------------------------------------
(* The snapshot                                                            *)

\* resolve_resume_session_id: the newest session of the chain so far.
Resolve(s) == CHOOSE t \in {s} \cup {core[x].sid : x \in Turns} :
                 \A u \in {s} \cup {core[x].sid : x \in Turns} : u <= t

Begins(s) ==
    /\ snap.pc # "reading"
    /\ snap' = IF blind # None THEN [NoSnap EXCEPT !.pc = "unavailable", !.sid = s]
               ELSE [pc |-> "reading", sid |-> s, resolved |-> Resolve(s), live |-> Running, rows |-> {}]
    /\ UNCHANGED <<core, entry, recent, seen, blind, hooked, loads>>

\* Mutant: the agent's own session id is not looked at.
Rotated_None(wanted) == {}

\* Open runs whose live agent has moved to a wanted session.
Rotated(wanted) == {r \in Runs : entry[r].kept /\ core[r].state = "running" /\ core[r].sid \in wanted}

\* Coverage, then the rows under the lock.
Takes ==
    LET wanted == {snap.sid, snap.resolved}
        rotated == Rotated(wanted)
    IN
    /\ snap.pc = "reading"
    /\ IF blind = None /\ Uncovered = {}
       THEN /\ snap' = [snap EXCEPT !.pc = "rows",
                                    !.rows = {x \in Turns : entry[x].kept /\ entry[x].sessions \cap wanted # {}} \cup rotated]
            /\ entry' = [x \in Turns |-> IF x \in rotated
                                         THEN [entry[x] EXCEPT !.sessions = @ \cup {core[x].sid}] ELSE entry[x]]
            /\ UNCHANGED blind
       ELSE /\ snap' = [snap EXCEPT !.pc = "unavailable"]
            /\ blind' = IF blind = None THEN "unregistered-live-run" ELSE blind
            /\ UNCHANGED entry
    /\ UNCHANGED <<core, recent, seen, hooked, loads>>

Next ==
    \/ \E r \in Runs, s \in Sessions : Queues(r, s)
    \/ \E r \in Runs : Starts(r) \/ Lost(r) \/ Settles(r) \/ \E e \in Ends : EndsWith(r, e)
    \/ \E x \in Turns : Rotates(x)
    \/ \E c \in Chats : \/ \E s \in Sessions : ChatOpens(c, s)
                        \/ ChatStarts(c) \/ ChatDropped(c)
                        \/ \E e \in Ends : ChatEnds(c, e)
    \/ Fault \/ HandOff \/ Unload \/ Load
    \/ \E s \in Sessions : Begins(s)
    \/ Takes

Spec == Init /\ [][Next]_vars

-----------------------------------------------------------------------------
\* A turn belongs to the sessions it has run in.
Of(x, s) == core[x].first <= s /\ s <= core[x].sid

\* What the comment on the registry promises of a snapshot that answers rows:
\* every turn of the session that was running when it was asked and still is.
NeverFabricatedIdle ==
    snap.pc = "reading" /\ snap'.pc = "rows" =>
        \A x \in snap.live \cap Running : Of(x, snap.sid) => x \in snap'.rows

\* What it keeps, over unloads, faults and compression between its reads: it
\* lists the running turns that began in the session, those of the chat if they
\* began under the hooks, and the runs whose agent is now at the session that
\* was asked for or at the one it resolved to.
LiveTurnListed ==
    snap.pc = "reading" /\ snap'.pc = "rows" =>
        \A x \in Running :
            \/ core[x].first = snap.sid /\ (x \in Runs \/ core[x].wrapped)
            \/ x \in Runs /\ core[x].sid \in {snap.sid, snap.resolved}
            => x \in snap'.rows

\* While the unit is installed and claims coverage, what it holds open is
\* alive: no queued or running ghost.
NoGhost == hooked /\ blind = None => \A x \in Turns : entry[x].kept => x \in Live

\* A turn that ended with a status is remembered with it, under every session
\* it was known by, as long as the memory has room.
EndIsRemembered ==
    \A x \in Turns : ~entry[x].kept /\ entry[x].sessions # {} =>
        /\ core[x].state \in Ends => entry[x].status = core[x].state
        /\ core[x].state = "lost" => entry[x].status = "unknown"
        /\ \A s \in entry[x].sessions : Len(recent[s]) < RecentCap => x \in Range(recent[s])

\* Together, while the unit is not unloaded under a live turn; a request
\* cancelled at its start leaves a ghost.
ActivityHonest == Reloads = 0 => EndIsRemembered /\ (~Drops => NoGhost)
=============================================================================
