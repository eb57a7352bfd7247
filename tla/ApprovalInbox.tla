---------------------------- MODULE ApprovalInbox ---------------------------
(***************************************************************************)
(* The approval inbox of one run (compat/approval_inbox.py), its push      *)
(* dispatcher (approval_push.py) and their cuts in the api server          *)
(* (compat.py:_install_approval_inbox). The core's queue is the truth      *)
(* about what is pending; the inbox enriches it. Captures run on worker    *)
(* threads, GET and POST on the event loop, reminders on timer threads,    *)
(* and the core settles requests on threads of its own. The core lock and  *)
(* the inbox lock are never held together, so each locked part is a step.  *)
(***************************************************************************)
EXTENDS Naturals, FiniteSets

CONSTANTS
    Requests,    \* native approval requests of the run
    Captures,    \* threads that write waiting_for_approval
    Posts,       \* answers a client sends
    MaxPending,  \* INBOX_MAX_PENDING
    MaxToggles   \* bound on uses of the kill switch

Shape == MaxPending \in Nat /\ MaxToggles \in Nat /\ "no request" \notin Requests

VARIABLES
    core,     \* core[r]: where the request stands in the core's queue
    entry,    \* entry[r]: the inbox entry, "none" when absent
    outcome,  \* outcome[r]: of a resolved entry
    cap,      \* cap[c]: a capture in progress
    post,     \* post[p]: an answer in progress
    get,      \* the GET in progress, and its last answer
    timer,    \* timer[r]: reminder timers armed for the request
    firing,   \* firing[r]: the check a fired timer of the request is at
    late,     \* history: requests gone, or of an ended run, when their timer fired
    initial, reminder,  \* notifications published, per request
    emitted,  \* approval.resolved events, per request
    dropped,  \* requests turned away at the cap while fewer were pending
    enabled,  \* the capability; its kill switch is read at every invocation
    ended,    \* whether the run has a terminal status
    toggles

vars == <<core, entry, outcome, cap, post, get, timer, firing, late, initial, reminder,
          emitted, dropped, enabled, ended, toggles>>
pushes == <<timer, firing, late, initial, reminder>>
env == <<enabled, ended, toggles>>

None == "no request"
Free == [pc |-> "idle", req |-> None]
Outcomes == {"none", "answered", "withdrawn", "settled", "run-ended"}

Capture == [pc : {"idle", "chain", "insert", "dispatch"}, req : Requests \cup {None}]
Post == [pc : {"new", "submit", "native", "respond", "reconcile", "done"},
         asked : Requests \cup {None}, exact : BOOLEAN, got : Requests \cup {None},
         live : SUBSET Requests]
Get == [pc : {"idle", "read", "answered"}, live : SUBSET Requests,
        shown : SUBSET Requests, available : BOOLEAN]

TypeOK ==
    /\ core \in [Requests -> {"new", "queued", "hooked", "removed", "hook due", "settled"}]
    /\ entry \in [Requests -> {"none", "pending", "resolved"}]
    /\ outcome \in [Requests -> Outcomes]
    /\ cap \in [Captures -> Capture] /\ post \in [Posts -> Post] /\ get \in Get
    /\ timer \in [Requests -> Nat] /\ initial \in [Requests -> Nat]
    /\ firing \in [Requests -> {"idle", "queue", "switch", "status", "publish"}]
    /\ late \subseteq Requests
    /\ reminder \in [Requests -> Nat] /\ emitted \in [Requests -> Nat]
    /\ dropped \subseteq Requests
    /\ enabled \in BOOLEAN /\ ended \in BOOLEAN /\ toggles \in Nat

Init ==
    /\ core = [r \in Requests |-> "new"] /\ entry = [r \in Requests |-> "none"]
    /\ outcome = [r \in Requests |-> "none"]
    /\ cap = [c \in Captures |-> Free]
    /\ post = [p \in Posts |-> [pc |-> "new", asked |-> None, exact |-> FALSE, got |-> None,
                                live |-> {}]]
    /\ get = [pc |-> "idle", live |-> {}, shown |-> {}, available |-> TRUE]
    /\ timer = [r \in Requests |-> 0] /\ firing = [r \in Requests |-> "idle"] /\ late = {}
    /\ initial = [r \in Requests |-> 0] /\ reminder = [r \in Requests |-> 0]
    /\ emitted = [r \in Requests |-> 0] /\ dropped = {}
    /\ enabled = TRUE /\ ended = FALSE /\ toggles = 0

Live == {r \in Requests : core[r] \in {"queued", "hooked"}}
Entries == {r \in Requests : entry[r] /= "none"}
Pending == {r \in Requests : entry[r] = "pending"}

-----------------------------------------------------------------------------
(* The core's queue                                                        *)

\* The guarded worker queues the request before it notifies.
Enqueue(r) ==
    /\ core[r] = "new" /\ ~ended
    /\ core' = [core EXCEPT ![r] = "queued"]
    /\ UNCHANGED <<entry, outcome, cap, post, get, pushes, emitted, dropped, env>>

\* Leaves the queue; the settle hook of a captured request runs afterwards.
Removed(r) == core' = [core EXCEPT ![r] = IF @ = "hooked" THEN "hook due" ELSE "removed"]

\* A timeout, an interrupt or the end of the session takes the request away.
Withdraw(r) ==
    /\ r \in Live
    /\ Removed(r)
    /\ UNCHANGED <<entry, outcome, cap, post, get, pushes, emitted, dropped, env>>

\* Mutant: a later outcome replaces the first one.
Settleable_Any(r) == entry[r] /= "none"

\* settle: idempotent, the first outcome wins.
Settleable(r) == entry[r] = "pending"

\* settle cancels the reminder and emits approval.resolved.
Settle(rs, o) ==
    LET s == {r \in rs : Settleable(r)} IN
    /\ entry' = [r \in Requests |-> IF r \in s THEN "resolved" ELSE entry[r]]
    /\ outcome' = [r \in Requests |-> IF r \in s THEN o ELSE outcome[r]]
    /\ timer' = [r \in Requests |-> IF r \in s THEN 0 ELSE timer[r]]
    /\ emitted' = [r \in Requests |-> IF r \in s THEN emitted[r] + 1 ELSE emitted[r]]

\* make_settle_hook: the chained hook settles the entry.
HookRuns(r) ==
    /\ core[r] = "hook due"
    /\ core' = [core EXCEPT ![r] = "settled"]
    /\ Settle({r}, "withdrawn")
    /\ UNCHANGED <<cap, post, get, firing, late, initial, reminder, dropped, env>>

-----------------------------------------------------------------------------
(* Capture, dispatch and reminder                                          *)

\* A native waiting_for_approval status write, one per request. (The one that
\* after_responded repeats finds its pending entry and returns it.)
CaptureStarts(c, r) ==
    /\ cap[c].pc = "idle" /\ core[r] /= "new" /\ enabled /\ ~ended
    /\ entry[r] = "none" /\ outcome[r] = "none" /\ \A x \in Captures : cap[x].req /= r
    /\ cap' = [cap EXCEPT ![c] = [pc |-> "chain", req |-> r]]
    /\ UNCHANGED <<core, entry, outcome, post, get, pushes, emitted, dropped, env>>

\* Under the core lock: a request that is gone is not captured; the settle
\* hook is chained to one that is still there.
CaptureChains(c) ==
    LET r == cap[c].req IN
    /\ cap[c].pc = "chain"
    /\ IF r \in Live THEN core' = [core EXCEPT ![r] = "hooked"] /\ cap' = [cap EXCEPT ![c].pc = "insert"]
       ELSE cap' = [cap EXCEPT ![c] = Free] /\ UNCHANGED core
    /\ UNCHANGED <<entry, outcome, post, get, pushes, emitted, dropped, env>>

\* The cap counts every entry of the bucket, resolved ones that linger too.
Room == Cardinality(Entries) < MaxPending

\* Under the inbox lock: the entry appears, or the bucket degrades.
CaptureInserts(c) ==
    LET r == cap[c].req IN
    /\ cap[c].pc = "insert"
    /\ IF entry[r] = "pending" \/ ~Room
       THEN /\ cap' = [cap EXCEPT ![c] = Free]
            /\ dropped' = IF entry[r] /= "pending" /\ Cardinality(Pending) < MaxPending
                          THEN dropped \cup {r} ELSE dropped
            /\ UNCHANGED <<entry, outcome>>
       ELSE /\ entry' = [entry EXCEPT ![r] = "pending"]
            /\ outcome' = [outcome EXCEPT ![r] = "none"]
            /\ cap' = [cap EXCEPT ![c].pc = "dispatch"]
            /\ UNCHANGED dropped
    /\ UNCHANGED <<core, post, get, pushes, emitted, env>>

\* dispatch: the initial notification, then the reminder timer.
Dispatch(c) ==
    LET r == cap[c].req IN
    /\ cap[c].pc = "dispatch"
    /\ cap' = [cap EXCEPT ![c] = Free]
    /\ initial' = [initial EXCEPT ![r] = @ + 1]
    /\ timer' = [timer EXCEPT ![r] = @ + 1]
    /\ UNCHANGED <<core, entry, outcome, post, get, firing, late, reminder, emitted, dropped, env>>

\* fire, on a timer thread: the entry first. (Only one timer is ever armed for
\* a request, so no firing of it is on its way.)
FireStarts(r) ==
    /\ timer[r] > 0 /\ firing[r] = "idle"
    /\ timer' = [timer EXCEPT ![r] = @ - 1]
    /\ firing' = [firing EXCEPT ![r] = IF entry[r] = "pending" THEN "queue" ELSE "idle"]
    /\ late' = IF r \in Live /\ ~ended THEN late ELSE late \cup {r}
    /\ UNCHANGED <<core, entry, outcome, cap, post, get, initial, reminder, emitted, dropped, env>>

\* Mutant: the queue is not asked, the entry's phase is taken for the truth.
CheckPasses_Phase(r) ==
    \/ firing[r] = "queue"
    \/ firing[r] = "switch" /\ enabled
    \/ firing[r] = "status" /\ ~ended /\ reminder[r] = 0

\* Exact membership in the queue, whose lock is taken and released, the kill
\* switch, the status of the run: each read by itself, with nothing held.
CheckPasses(r) ==
    \/ firing[r] = "queue" /\ r \in Live
    \/ firing[r] = "switch" /\ enabled
    \/ firing[r] = "status" /\ ~ended /\ reminder[r] = 0

NextCheck == [queue |-> "switch", switch |-> "status", status |-> "publish"]

\* A check that fails ends the firing, and so does less than a second left.
FireChecks(r) ==
    /\ firing[r] \in DOMAIN NextCheck
    /\ \/ CheckPasses(r) /\ firing' = [firing EXCEPT ![r] = NextCheck[@]]
       \/ /\ ~CheckPasses(r) \/ firing[r] = "status"
          /\ firing' = [firing EXCEPT ![r] = "idle"]
    /\ UNCHANGED <<core, entry, outcome, cap, post, get, timer, late, initial, reminder, emitted, dropped, env>>

\* The notification leaves, whatever happened since the checks.
FirePublishes(r) ==
    /\ firing[r] = "publish"
    /\ firing' = [firing EXCEPT ![r] = "idle"]
    /\ reminder' = [reminder EXCEPT ![r] = @ + 1]
    /\ UNCHANGED <<core, entry, outcome, cap, post, get, timer, late, initial, emitted, dropped, env>>

-----------------------------------------------------------------------------
(* GET of the pending list                                                 *)

\* The queue is listed on a thread; the snapshot is taken after the await.
GetReads ==
    /\ get.pc = "idle" /\ enabled
    /\ get' = [get EXCEPT !.pc = "read", !.live = Live]
    /\ UNCHANGED <<core, entry, outcome, cap, post, pushes, emitted, dropped, env>>

\* Pending entries whose id is not in the listed queue.
Gone(live) == {r \in Pending : r \notin live}

\* They are resolved in place: no event, and their timer stays.
Reconcile(live) ==
    /\ entry' = [r \in Requests |-> IF r \in Gone(live) THEN "resolved" ELSE entry[r]]
    /\ outcome' = [r \in Requests |-> IF r \in Gone(live) THEN "settled" ELSE outcome[r]]

Shown(live) == Pending \cap live

\* snapshot under the inbox lock.
GetAnswers ==
    /\ get.pc = "read"
    /\ Reconcile(get.live)
    /\ get' = [get EXCEPT !.pc = "answered", !.shown = Shown(get.live),
                          !.available = get.live \subseteq Entries]
    /\ UNCHANGED <<core, cap, post, pushes, emitted, dropped, env>>

GetDone ==
    /\ get.pc = "answered"
    /\ get' = [pc |-> "idle", live |-> {}, shown |-> {}, available |-> TRUE]
    /\ UNCHANGED <<core, entry, outcome, cap, post, pushes, emitted, dropped, env>>

-----------------------------------------------------------------------------
(* POST of an answer                                                       *)

\* classify_answer under the core lock, for an exact id.
PostExact(p, r) ==
    /\ post[p].pc = "new" /\ enabled /\ core[r] /= "new"
    /\ post' = [post EXCEPT ![p] = [@ EXCEPT !.pc = "submit", !.asked = r, !.exact = TRUE]]
    /\ UNCHANGED <<core, entry, outcome, cap, get, pushes, emitted, dropped, env>>

\* Without an id: one pending request is backfilled, several are refused,
\* and with none the body goes to the native handler as it is.
PostLegacy(p) ==
    /\ post[p].pc = "new" /\ enabled
    /\ \/ /\ Live = {}
          /\ post' = [post EXCEPT ![p] = [@ EXCEPT !.pc = "native"]]
       \/ /\ Cardinality(Live) > 1
          /\ post' = [post EXCEPT ![p] = [@ EXCEPT !.pc = "done"]]
       \/ \E r \in Live : /\ Live = {r}
                          /\ post' = [post EXCEPT ![p] = [@ EXCEPT !.pc = "submit", !.asked = r]]
    /\ UNCHANGED <<core, entry, outcome, cap, get, pushes, emitted, dropped, env>>

\* Mutant: an id that is gone falls back to another request of the queue.
Answerable_Fifo(p) == IF post[p].asked \in Live THEN {post[p].asked} ELSE Live

\* The native resolver settles the exact id; without one, the queue's head.
Answerable(p) == IF post[p].pc = "native" THEN Live ELSE {post[p].asked} \cap Live

PostResolves(p) ==
    /\ post[p].pc \in {"submit", "native"}
    /\ \/ /\ Answerable(p) = {}
          /\ post' = [post EXCEPT ![p].pc = "done"] /\ UNCHANGED core
       \/ \E r \in Answerable(p) :
             /\ Removed(r)
             /\ post' = [post EXCEPT ![p].got = r, ![p].pc = "respond"]
    /\ UNCHANGED <<entry, outcome, cap, get, pushes, emitted, dropped, env>>

\* approval.responded: after_responded lists the queue and settles the id.
PostResponds(p) ==
    /\ post[p].pc = "respond"
    /\ post' = [post EXCEPT ![p].pc = IF enabled THEN "reconcile" ELSE "done", ![p].live = Live]
    /\ IF enabled THEN Settle({post[p].got}, "answered")
       ELSE UNCHANGED <<entry, outcome, timer, emitted>>
    /\ UNCHANGED <<core, cap, get, firing, late, initial, reminder, dropped, env>>

\* It then reconciles with the list it read; the earliest pending request is
\* shown again (the status write finds its entry and changes nothing).
PostReconciles(p) ==
    /\ post[p].pc = "reconcile"
    /\ Reconcile(post[p].live)
    /\ post' = [post EXCEPT ![p].pc = "done", ![p].live = {}]
    /\ UNCHANGED <<core, cap, get, pushes, emitted, dropped, env>>

-----------------------------------------------------------------------------
\* A terminal status settles what is pending.
RunEnds ==
    /\ ~ended
    /\ ended' = TRUE
    /\ IF enabled THEN Settle(Pending, "run-ended")
       ELSE UNCHANGED <<entry, outcome, timer, emitted>>
    /\ UNCHANGED <<core, cap, post, get, firing, late, initial, reminder, dropped, enabled, toggles>>

\* Resolved entries linger for RESOLVED_TTL.
Forget(r) ==
    /\ entry[r] = "resolved" /\ core[r] \in {"settled", "removed"}
    /\ entry' = [entry EXCEPT ![r] = "none"]
    /\ UNCHANGED <<core, outcome, cap, post, get, pushes, emitted, dropped, env>>

\* set_capability: the kill switch, read at every invocation.
Toggle ==
    /\ toggles < MaxToggles
    /\ toggles' = toggles + 1 /\ enabled' = ~enabled
    /\ UNCHANGED <<core, entry, outcome, cap, post, get, pushes, emitted, dropped, ended>>

Fire(r) == FireStarts(r) \/ FireChecks(r) \/ FirePublishes(r)
CaptureStep(c) == CaptureChains(c) \/ CaptureInserts(c) \/ Dispatch(c)
PostStep(p) == PostResolves(p) \/ PostResponds(p) \/ PostReconciles(p)
GetStep == GetReads \/ GetAnswers \/ GetDone

Next ==
    \/ \E r \in Requests : Enqueue(r) \/ Withdraw(r) \/ HookRuns(r) \/ Fire(r) \/ Forget(r)
    \/ \E c \in Captures : CaptureStep(c) \/ \E r \in Requests : CaptureStarts(c, r)
    \/ \E p \in Posts : PostStep(p) \/ PostLegacy(p) \/ \E r \in Requests : PostExact(p, r)
    \/ GetStep \/ RunEnds \/ Toggle

Spec == Init /\ [][Next]_vars

\* Threads and handlers run, every request times out in the end, the app
\* keeps refreshing its list.
FairSpec ==
    /\ Spec
    /\ \A r \in Requests : WF_vars(Withdraw(r)) /\ WF_vars(HookRuns(r))
    /\ \A c \in Captures : WF_vars(CaptureStep(c))
    /\ \A p \in Posts : WF_vars(PostStep(p))
    /\ WF_vars(GetStep)

-----------------------------------------------------------------------------
\* "idempotent (first outcome wins)": the hook, an answer, a reconciliation
\* and the end of the run race for an entry; its outcome never changes.
OutcomeKept ==
    \A r \in Requests : entry[r] = "resolved" /\ entry'[r] = "resolved"
        => outcome'[r] = outcome[r]

\* "One initial notification per exact request ... one reminder", and one
\* approval.resolved, whichever threads meet over it.
OneOfEach == \A r \in Requests : initial[r] <= 1 /\ reminder[r] <= 1 /\ emitted[r] <= 1

\* A request that was answered, withdrawn or of a run that ended before its
\* timer fired is not reminded of, though its hook or its event be still to
\* come and its entry still pending.
GoneIsNotReminded ==
    \A r \in Requests : reminder'[r] /= reminder[r] => r \notin late

\* "never fall back to FIFO": an answer that named a request, or was
\* backfilled with one, settles that request or none.
AnswersAreExact ==
    \A p \in Posts : post[p].asked /= None => post[p].got \in {None, post[p].asked}

\* The list shows only requests the queue held when it was read.
ShownWasLive == get.shown \subseteq get.live

\* The per-run bound of the registry.
RegistryBounded == Cardinality(Entries) <= MaxPending

\* All of an approval's exactness.
ApprovalsExact == AnswersAreExact /\ ShownWasLive /\ RegistryBounded /\ OneOfEach

\* "if it already settled (raced answer/withdraw) we publish no phantom
\* pending": a request whose hook has run has no pending entry.
NoPhantom == \A r \in Requests : core[r] = "settled" => entry[r] /= "pending"

\* "never folded into an empty list": a request that stayed in the queue from
\* the listing to the answer is shown, or the answer says it is incomplete.
NothingHidden ==
    get.pc = "answered" /\ get.available => \A r \in get.live \cap Live : r \in get.shown

\* "nothing pending: the native 409 stands": an answer that names no request
\* and met an empty queue settles nothing.
NoBlindAnswer == \A p \in Posts : post[p].asked = None => post[p].got = None

\* "INBOX_MAX_PENDING": a request is turned away only when so many are pending.
DroppedOnlyWhenFull == dropped = {}

\* "an expired card never broadcasts 'still approvable'": a reminder leaves
\* only for a request the queue still holds, in a run that has not ended.
RemindsLive ==
    \A r \in Requests : reminder'[r] /= reminder[r] => r \in Live /\ ~ended

\* "approval.resolved on both API surfaces": every card that closed said so.
ClosedIsAnnounced == \A r \in Requests : entry[r] = "resolved" => emitted[r] = 1
=============================================================================
