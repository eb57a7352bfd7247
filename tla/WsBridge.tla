------------------------------ MODULE WsBridge ------------------------------
(***************************************************************************)
(* One app link of wsbridge.py: the reader of the app socket, the serial   *)
(* worker that relays requests, the upstream task that dials, replays      *)
(* session.resume and pumps events, and the background resumes after a     *)
(* replay gap. The gateway is external: it subscribes a connection on      *)
(* session.resume and refuses a write on a connection that has not         *)
(* resumed. Frames of one upstream connection are handled in order.        *)
(***************************************************************************)
EXTENDS Naturals, Sequences, Lists, FiniteSets

CONSTANTS
    Sessions,    \* session ids
    HttpOwned,   \* sessions whose source the HTTP API owns
    Listed,      \* sessions whose thread test_thread_ids lists
    Limited,     \* whether the config lists test_thread_ids at all
    Methods,     \* what the app calls
    InboxBound,  \* size of the worker's queue (256)
    MaxRequests, \* bound on requests of the app
    MaxAsks,     \* bound on its liveness asks
    MaxDrops,    \* bound on lost upstream connections
    MaxGaps      \* bound on revoked subscriptions

Shape ==
    /\ HttpOwned \subseteq Sessions /\ Listed \subseteq Sessions /\ Limited \in BOOLEAN
    /\ Methods \subseteq {"resume", "create", "submit", "other"}
    /\ {InboxBound, MaxRequests, MaxAsks, MaxDrops, MaxGaps} \subseteq Nat

VARIABLES
    wire,      \* frames the app sent and the reader has not read
    asked,     \* requests and liveness asks the app sent
    answered,  \* liveness asks read and answered
    inbox,     \* the worker's queue
    work,      \* the request the worker holds
    out,       \* ids of the requests answered, in order
    relayed,   \* relayed[i]: how often request i reached the gateway
    wrote,     \* sessions a write reached
    up,        \* the upstream task: "down", "replay" or "ready"
    conn,      \* number of the upstream connection
    todo,      \* attached sessions still to be replayed
    told, wasReady,   \* the upstream state the app last heard of
    aliases, attached, created,
    subs,      \* sessions the gateway has subscribed on this connection
    gapq,      \* sessions with a session.replay_gap frame on its way
    again      \* sessions being resumed in the background

upstream == <<up, conn, todo, told, wasReady>>
link == <<aliases, attached, created>>
vars == <<wire, asked, answered, inbox, work, out, relayed, wrote, upstream, link, subs, gapq, again>>

None == "none"
Ids == 1..MaxRequests
Idle == [pc |-> "idle", id |-> 0, method |-> None, named |-> None, target |-> None, conn |-> 0]

TypeOK ==
    /\ Len(inbox) <= InboxBound /\ up \in {"down", "replay", "ready"}
    /\ work.pc \in {"idle", "wait", "rpc", "done"} /\ (work.pc = "idle" \/ work.id \in Ids)
    /\ told \in {None, "ready", "reconnecting"}
    /\ IsInjective(attached) /\ Range(attached) \cup created \cup subs \cup again \subseteq Sessions

Init ==
    /\ wire = <<>> /\ asked = [requests |-> 0, liveness |-> 0] /\ answered = [read |-> 0, done |-> 0]
    /\ inbox = <<>> /\ work = Idle /\ out = <<>> /\ relayed = [i \in Ids |-> 0] /\ wrote = {}
    /\ up = "down" /\ conn = 0 /\ todo = <<>> /\ told = None /\ wasReady = FALSE
    /\ aliases = [s \in Sessions |-> None] /\ attached = <<>> /\ created = {}
    /\ subs = {} /\ gapq = {} /\ again = {}

-----------------------------------------------------------------------------
(* The app and the reader of its socket                                    *)

AppSends(m, s) ==
    /\ asked.requests < MaxRequests /\ asked' = [asked EXCEPT !.requests = @ + 1]
    /\ wire' = Append(wire, [Idle EXCEPT !.id = asked'.requests, !.method = m, !.named = s])
    /\ UNCHANGED <<answered, inbox, work, out, relayed, wrote, upstream, link, subs, gapq, again>>

AppAsks ==
    /\ asked.liveness < MaxAsks /\ asked' = [asked EXCEPT !.liveness = @ + 1]
    /\ wire' = Append(wire, [Idle EXCEPT !.method = "liveness"])
    /\ UNCHANGED <<answered, inbox, work, out, relayed, wrote, upstream, link, subs, gapq, again>>

Aside(frame) == frame.method = "liveness"

\* A liveness ask is answered in the background; anything else is put in
\* the queue, and a full queue holds the reader.
Reads ==
    LET frame == Head(wire) IN
    /\ wire # <<>> /\ wire' = Tail(wire)
    /\ \/ Aside(frame) /\ answered' = [answered EXCEPT !.read = @ + 1] /\ UNCHANGED inbox
       \/ ~Aside(frame) /\ Len(inbox) < InboxBound /\ inbox' = Append(inbox, frame) /\ UNCHANGED answered
    /\ UNCHANGED <<asked, work, out, relayed, wrote, upstream, link, subs, gapq, again>>

\* The shared read over an upstream of its own ends with a row or an error.
LivenessAnswered ==
    /\ answered.done < answered.read /\ answered' = [answered EXCEPT !.done = @ + 1]
    /\ UNCHANGED <<wire, asked, inbox, work, out, relayed, wrote, upstream, link, subs, gapq, again>>

-----------------------------------------------------------------------------
(* AppLink.request and AppLink.call, by one serial worker                  *)

Reply(id) == out' = Append(out, id) /\ work' = Idle

\* may_write: a known foreign source, and a listed thread where the config
\* lists any.
MayWrite(s) == s \notin HttpOwned /\ (Limited => s \in Listed)

Writable(frame) == aliases[frame.named] \in created \/ MayWrite(aliases[frame.named])

\* Allowlist, resume_required and session_not_allowlisted refusals.
Relayable(frame) ==
    \/ frame.method \in {"resume", "create"}
    \/ frame.method = "submit" /\ aliases[frame.named] # None /\ Writable(frame)

Takes ==
    LET frame == Head(inbox) IN
    /\ work.pc = "idle" /\ inbox # <<>> /\ inbox' = Tail(inbox)
    /\ IF Relayable(frame)
       THEN /\ work' = [frame EXCEPT !.pc = "wait",
                                     !.target = IF frame.method = "submit" THEN aliases[frame.named] ELSE frame.named]
            /\ UNCHANGED out
       ELSE Reply(frame.id)
    /\ UNCHANGED <<wire, asked, answered, relayed, wrote, upstream, link, subs, gapq, again>>

\* upstream_client: the client once the upstream is ready.
Gets ==
    /\ work.pc = "wait" /\ up = "ready" /\ work' = [work EXCEPT !.pc = "rpc", !.conn = conn]
    /\ UNCHANGED <<wire, asked, answered, inbox, out, relayed, wrote, upstream, link, subs, gapq, again>>

\* request_wait passed: upstream_unavailable.
GivesUp ==
    /\ work.pc = "wait" /\ up # "ready" /\ Reply(work.id)
    /\ UNCHANGED <<wire, asked, answered, inbox, relayed, wrote, upstream, link, subs, gapq, again>>

\* The gateway (external) handles the call: session.resume subscribes and
\* names the session it stands for, session.create makes one.
Handles(t) ==
    /\ work.pc = "rpc" /\ work.conn = conn
    /\ work.method = "submit" => t = work.target
    /\ work.method = "create" => t \notin {aliases[s] : s \in Sessions} \cup subs
    /\ work' = [work EXCEPT !.pc = "done", !.target = t]
    /\ relayed' = [relayed EXCEPT ![work.id] = @ + 1]
    /\ wrote' = IF work.method = "submit" THEN wrote \cup {t} ELSE wrote
    /\ subs' = IF work.method = "submit" THEN subs ELSE subs \cup {t}
    /\ UNCHANGED <<wire, asked, answered, inbox, out, upstream, link, gapq, again>>

Attaching(t) == IF t \in Range(attached) THEN attached ELSE Append(attached, t)

\* The result: a resumed or created session is attached.
Answers ==
    LET t == work.target IN
    /\ work.pc = "done" /\ work.conn = conn /\ Reply(work.id)
    /\ IF work.method = "submit" THEN UNCHANGED link
       ELSE /\ aliases' = [aliases EXCEPT ![work.named] = IF work.method = "resume" THEN t ELSE @, ![t] = t]
            /\ created' = IF work.method = "create" THEN created \cup {t} ELSE created
            /\ attached' = Attaching(t)
    /\ UNCHANGED <<wire, asked, answered, inbox, relayed, wrote, upstream, subs, gapq, again>>

\* Mutant: a call lost with its connection is sent again.
Unknown_Retried == work' = [work EXCEPT !.pc = "wait"] /\ UNCHANGED out

\* upstream_disconnected: the outcome is unknown and the app decides.
Unknown == Reply(work.id)

\* The connection went away under the call, the call was refused by the
\* gateway, or it timed out.
Fails ==
    /\ work.pc \in {"rpc", "done"} /\ Unknown
    /\ UNCHANGED <<wire, asked, answered, inbox, relayed, wrote, upstream, link, subs, gapq, again>>

-----------------------------------------------------------------------------
(* AppLink.upstream: discover, dial, replay, ready, pump                   *)

\* Mutant: requests are let through before the sessions are resumed.
Replayed_Skipped == <<>>

Replayed == attached

Dials ==
    /\ up = "down" /\ up' = "replay" /\ todo' = Replayed
    /\ UNCHANGED <<wire, asked, answered, inbox, work, out, relayed, wrote, conn, told, wasReady, link, subs, gapq, again>>

Drops(s) == attached' = Removed(attached, s) /\ UNCHANGED <<aliases, created>>

\* resume_again for the head: bridge.resumed, or bridge.resume_failed.
Replays ==
    LET s == Head(todo) IN
    /\ up = "replay" /\ todo # <<>> /\ todo' = Tail(todo)
    /\ \/ subs' = subs \cup {s} /\ UNCHANGED link
       \/ Drops(s) /\ UNCHANGED subs
    /\ UNCHANGED <<wire, asked, answered, inbox, work, out, relayed, wrote, up, conn, told, wasReady, gapq, again>>

Ready ==
    /\ up = "replay" /\ todo = <<>> /\ up' = "ready" /\ wasReady' = TRUE
    /\ told' = IF wasReady THEN "ready" ELSE told
    /\ UNCHANGED <<wire, asked, answered, inbox, work, out, relayed, wrote, conn, todo, link, subs, gapq, again>>

Reported == IF up = "ready" THEN "reconnecting" ELSE told

\* The connection is lost, in the replay too; its subscriptions go with it.
Drop ==
    /\ up # "down" /\ conn < MaxDrops /\ conn' = conn + 1 /\ up' = "down" /\ todo' = <<>>
    /\ told' = Reported
    /\ subs' = {} /\ gapq' = {} /\ again' = {}
    /\ UNCHANGED <<wire, asked, answered, inbox, work, out, relayed, wrote, wasReady, link>>

\* The owner revokes a subscription and says so on the stream.
Revokes(s) ==
    /\ s \in subs /\ Cardinality(gapq \cup again) < MaxGaps
    /\ subs' = subs \ {s} /\ gapq' = gapq \cup {s}
    /\ UNCHANGED <<wire, asked, answered, inbox, work, out, relayed, wrote, upstream, link, again>>

Resumable == Range(attached)

\* pump: the gap of an attached session starts a resume in the background.
PumpsGap(s) ==
    /\ up = "ready" /\ work.pc # "done" /\ s \in gapq /\ gapq' = gapq \ {s}
    /\ again' = IF s \in Resumable THEN again \cup {s} ELSE again
    /\ UNCHANGED <<wire, asked, answered, inbox, work, out, relayed, wrote, upstream, link, subs>>

ResumesAgain(s) ==
    /\ s \in again /\ again' = again \ {s}
    /\ \/ subs' = subs \cup {s} /\ UNCHANGED link
       \/ Drops(s) /\ UNCHANGED subs
    /\ UNCHANGED <<wire, asked, answered, inbox, work, out, relayed, wrote, upstream, gapq>>

Reader == Reads \/ LivenessAnswered
Worker == Takes \/ Gets \/ GivesUp \/ Answers \/ Fails
Upstream == Dials \/ Replays \/ Ready \/ \E s \in Sessions : PumpsGap(s) \/ ResumesAgain(s)

Next ==
    \/ AppAsks \/ \E m \in Methods, s \in Sessions : AppSends(m, s)
    \/ Reader \/ Worker \/ \E t \in Sessions : Handles(t)
    \/ Upstream \/ Drop \/ \E s \in Sessions : Revokes(s)

Spec == Init /\ [][Next]_vars

\* Every task of the link runs while it can; rpc calls time out.
FairSpec == Spec /\ WF_vars(Reads) /\ WF_vars(LivenessAnswered) /\ WF_vars(Worker) /\ WF_vars(Upstream)

\* The same with a gateway that may hold the worker's call for ever.
Unheld == Takes \/ Gets \/ GivesUp
HeldSpec ==
    /\ Spec /\ WF_vars(Reads) /\ WF_vars(LivenessAnswered)
    /\ WF_vars(Unheld) /\ WF_vars(Upstream)

-----------------------------------------------------------------------------
\* Once the link is ready every session the app attached is subscribed on
\* this very connection, or its gap is being mended.
AttachedIsSubscribed == up = "ready" => Range(attached) \subseteq subs \cup gapq \cup again

\* A write waits for the replay: it reaches the gateway on a connection that
\* has resumed its session, unless the resume was refused or revoked.
ReplayBeforeRelay ==
    \A t \in Sessions : work.method = "submit" /\ work.pc = "rpc" /\ work'.pc = "done" /\ t = work'.target
        => t \in subs \cup gapq \cup again \/ t \notin Range(attached)

\* The bridge repeats nothing: a request reaches the gateway at most once and
\* requests are answered once each, in the order the app sent them.
RelayedOnce ==
    /\ \A i \in Ids : relayed[i] <= 1
    /\ \A i \in DOMAIN out : out[i] = i

\* No write reaches a session the HTTP API owns, whatever id the app used,
\* unless this connection created it.
WritesAllowed == wrote \subseteq created \cup {s \in Sessions : MayWrite(s)}

\* Writes reach only the listed threads and the connection's own sessions.
WritesOnlyListed == wrote \subseteq created \cup Listed

\* The app's last news of the upstream is true whenever requests pass or wait.
NewsIsTrue == IF up = "ready" THEN told # "reconnecting" ELSE wasReady => told = "reconnecting"

\* A liveness ask is answered, even while a call of the link is held.
LivenessAlwaysAnswered == \A n \in 1..MaxAsks : asked.liveness >= n ~> answered.done >= n

=============================================================================
