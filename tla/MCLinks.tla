------------------------------ MODULE MCLinks ------------------------------
(***************************************************************************)
(* What carries the App's calls to a turn and its frames back: the spool of *)
(* cross-source sends (CrossOutbox) and the streams that follow them        *)
(* (CrossFollow), the WebSocket bridge (WsBridge) and its tickets           *)
(* (WsTicket), and the web proxy (WebProxy). Each keeps state of its own,   *)
(* so nothing is lost by following one at a time: a behaviour belongs to    *)
(* one scenario, an instance with bounds of its own, and leaves the         *)
(* variables of the others alone.                                           *)
(***************************************************************************)
EXTENDS Naturals, Sequences

\* What each scenario gives its component for its constants, as a record.
CONSTANTS Sent, Merged, Drained, Followed, Crowded, Shown, Linked, Asked, Held,
          Ticketed, Proxied, Queued, Dismissed

VARIABLES
    scenario,
    \* CrossOutbox
    spool, act, drain, route, now, closings, crashes, injected, turned, gap, moved,
    \* CrossFollow
    live, log, pending, running, order, said, st, runs,
    \* WsBridge
    wire, asked, answered, inbox, work, out, relayed, wrote, up, conn, todo, told,
    wasReady, aliases, attached, created, subs, gapq, again,
    \* WsTicket; its now is clock here
    c, expiry, minted, opened, clock, restarts,
    \* WebProxy
    req, free, waiters

SpoolVars == <<spool, act, drain, route, now, closings, crashes, injected, turned, gap,
               moved>>
FollowVars == <<live, log, pending, running, order, said, st, runs>>
BridgeVars == <<wire, asked, answered, inbox, work, out, relayed, wrote, up, conn, todo,
                told, wasReady, aliases, attached, created, subs, gapq, again>>
TicketVars == <<c, expiry, minted, opened, clock, restarts>>
ProxyVars == <<req, free, waiters>>
vars == <<scenario, SpoolVars, FollowVars, BridgeVars, TicketVars, ProxyVars>>

\* The components, with their constants taken from the record cf of a scenario.
Outbox(cf) == INSTANCE CrossOutbox WITH
    Senders <- cf.Senders, Texts <- cf.Texts, LegacyRows <- cf.LegacyRows,
    MaxAttempts <- cf.MaxAttempts, Dedup <- cf.Dedup, MaxAge <- cf.MaxAge,
    Blind <- cf.Blind, Closings <- cf.Closings, Crashes <- cf.Crashes,
    MaxTime <- cf.MaxTime, MaxRows <- cf.MaxRows
Follow(cf) == INSTANCE CrossFollow WITH
    Streams <- cf.Streams, SameText <- cf.SameText, Cap <- cf.Cap, Admits <- cf.Admits,
    Deltas <- cf.Deltas, Resets <- cf.Resets, Timeouts <- cf.Timeouts
Link(cf) == INSTANCE WsBridge WITH
    Sessions <- cf.Sessions, HttpOwned <- cf.HttpOwned, Listed <- cf.Listed,
    Limited <- cf.Limited, Methods <- cf.Methods, InboxBound <- cf.InboxBound,
    MaxRequests <- cf.MaxRequests, MaxAsks <- cf.MaxAsks, MaxDrops <- cf.MaxDrops,
    MaxGaps <- cf.MaxGaps
Ticket(cf) == INSTANCE WsTicket WITH
    now <- clock, Conns <- cf.Conns, Tickets <- cf.Tickets, Ttl <- cf.Ttl,
    MaxTime <- cf.MaxTime, Restarts <- cf.Restarts
Proxy(cf) == INSTANCE WebProxy WITH
    Reqs <- cf.Reqs, BodyCap <- cf.BodyCap, BigChunks <- cf.BigChunks,
    LastChunk <- cf.LastChunk, BigSlots <- cf.BigSlots, UploadIdle <- cf.UploadIdle,
    HeaderWait <- cf.HeaderWait, ReadWait <- cf.ReadWait, Silence <- cf.Silence,
    Ceiling <- cf.Ceiling, Shutdown <- cf.Shutdown, Accepts <- cf.Accepts,
    Bodies <- cf.Bodies, Replies <- cf.Replies

\* The bounds TLC gives the scenarios.

\* Two requests with one text; the route closes and the gateway dies.
SentBounds == [
    Senders |-> {"p1", "p2"}, Texts |-> {"t1"}, LegacyRows |-> 0, MaxAttempts |-> 1,
    Dedup |-> 0, MaxAge |-> 2, Blind |-> FALSE, Closings |-> 1, Crashes |-> 1,
    MaxTime |-> 1, MaxRows |-> 2]

\* Rows of an older version, which the drain merges.
MergedBounds == [
    Senders |-> {"p1"}, Texts |-> {"t1", "t2"}, LegacyRows |-> 2, MaxAttempts |-> 1,
    Dedup |-> 0, MaxAge |-> 0, Blind |-> FALSE, Closings |-> 0, Crashes |-> 0,
    MaxTime |-> 1, MaxRows |-> 3]

\* An older row and two requests to their end.
DrainedBounds == [
    Senders |-> {"p1", "p2"}, Texts |-> {"t1"}, LegacyRows |-> 1, MaxAttempts |-> 2,
    Dedup |-> 1, MaxAge |-> 2, Blind |-> FALSE, Closings |-> 1, Crashes |-> 0,
    MaxTime |-> 1, MaxRows |-> 1]

\* Two streams of different texts; the live session is dropped once.
FollowedBounds == [
    Streams |-> {"s1", "s2"}, SameText |-> FALSE, Cap |-> 1, Admits |-> {"s1", "s2"},
    Deltas |-> 1, Resets |-> 1, Timeouts |-> TRUE]

\* Three streams, two places in the registry.
CrowdedBounds == [
    Streams |-> {"s1", "s2", "s3"}, SameText |-> FALSE, Cap |-> 2, Admits |-> {"s1"},
    Deltas |-> 0, Resets |-> 0, Timeouts |-> FALSE]

\* Two streams to their end, without timeouts.
ShownBounds == [
    Streams |-> {"s1", "s2"}, SameText |-> FALSE, Cap |-> 2, Admits |-> {"s1", "s2"},
    Deltas |-> 1, Resets |-> 0, Timeouts |-> FALSE]

\* Two sessions, one of them the HTTP API's; the link drops and a
\* subscription is revoked.
LinkedBounds == [
    Sessions |-> {"s1", "s2"}, HttpOwned |-> {"s2"}, Listed |-> {}, Limited |-> FALSE,
    Methods |-> {"resume", "create", "submit", "other"}, InboxBound |-> 1,
    MaxRequests |-> 3, MaxAsks |-> 0, MaxDrops |-> 1, MaxGaps |-> 1]

\* Requests and a liveness ask over a drop.
AskedBounds == [
    Sessions |-> {"s1"}, HttpOwned |-> {}, Listed |-> {}, Limited |-> FALSE,
    Methods |-> {"resume", "submit"}, InboxBound |-> 2,
    MaxRequests |-> 2, MaxAsks |-> 1, MaxDrops |-> 1, MaxGaps |-> 1]

\* A liveness ask while the gateway holds the worker's call.
HeldBounds == [
    Sessions |-> {"s1"}, HttpOwned |-> {}, Listed |-> {}, Limited |-> FALSE,
    Methods |-> {"resume"}, InboxBound |-> 2,
    MaxRequests |-> 2, MaxAsks |-> 1, MaxDrops |-> 1, MaxGaps |-> 0]

\* Two connections, one ticket, a restart.
TicketedBounds == [
    Conns |-> {"k1", "k2"}, Tickets |-> {"t1"}, Ttl |-> 1, MaxTime |-> 1,
    Restarts |-> 1]

\* One request of every shape, to its end.
ProxiedBounds == [
    Reqs |-> {"r1"}, BodyCap |-> 1, BigChunks |-> 1, LastChunk |-> 2, BigSlots |-> 1,
    UploadIdle |-> 2, HeaderWait |-> 1, ReadWait |-> 1, Silence |-> 2, Ceiling |-> 4,
    Shutdown |-> FALSE, Accepts |-> {TRUE, FALSE},
    Bodies |-> {"none", "fits", "chunked", "huge"}, Replies |-> {"events", "plain", "big"}]

\* Two requests for one permit, and then with a runner that cancels them.
QueuedBounds == [
    Reqs |-> {"r1", "r2"}, BodyCap |-> 1, BigChunks |-> 1, LastChunk |-> 2, BigSlots |-> 1,
    UploadIdle |-> 2, HeaderWait |-> 1, ReadWait |-> 1, Silence |-> 2, Ceiling |-> 4,
    Shutdown |-> FALSE, Accepts |-> {FALSE}, Bodies |-> {"none"}, Replies |-> {"plain", "big"}]
DismissedBounds == [
    Reqs |-> {"r1", "r2"}, BodyCap |-> 1, BigChunks |-> 1, LastChunk |-> 2, BigSlots |-> 1,
    UploadIdle |-> 1, HeaderWait |-> 1, ReadWait |-> 1, Silence |-> 1, Ceiling |-> 1,
    Shutdown |-> TRUE, Accepts |-> {FALSE}, Bodies |-> {"none"}, Replies |-> {"plain", "big"}]

ASSUME Instances ==
    /\ \A cf \in {Sent, Merged, Drained} : Outbox(cf)!Shape
    /\ \A cf \in {Followed, Crowded, Shown} : Follow(cf)!Shape
    /\ \A cf \in {Linked, Asked, Held} : Link(cf)!Shape
    /\ Ticket(Ticketed)!Shape
    /\ \A cf \in {Proxied, Queued, Dismissed} : Proxy(cf)!ProxyAssumption

Init ==
    \/ /\ \/ scenario = "sent" /\ Outbox(Sent)!Init
          \/ scenario = "merged" /\ Outbox(Merged)!Init
          \/ scenario = "drained" /\ Outbox(Drained)!Init
       /\ Follow(Shown)!Init /\ Link(Asked)!Init /\ Ticket(Ticketed)!Init /\ Proxy(Queued)!Init
    \/ /\ \/ scenario = "followed" /\ Follow(Followed)!Init
          \/ scenario = "crowded" /\ Follow(Crowded)!Init
          \/ scenario = "shown" /\ Follow(Shown)!Init
       /\ Outbox(Drained)!Init /\ Link(Asked)!Init /\ Ticket(Ticketed)!Init /\ Proxy(Queued)!Init
    \/ /\ \/ scenario = "linked" /\ Link(Linked)!Init
          \/ scenario = "asked" /\ Link(Asked)!Init
          \/ scenario = "held" /\ Link(Held)!Init
       /\ Outbox(Drained)!Init /\ Follow(Shown)!Init /\ Ticket(Ticketed)!Init /\ Proxy(Queued)!Init
    \/ /\ scenario = "ticketed" /\ Ticket(Ticketed)!Init
       /\ Outbox(Drained)!Init /\ Follow(Shown)!Init /\ Link(Asked)!Init /\ Proxy(Queued)!Init
    \/ /\ \/ scenario = "proxied" /\ Proxy(Proxied)!Init
          \/ scenario = "queued" /\ Proxy(Queued)!Init
          \/ scenario = "dismissed" /\ Proxy(Dismissed)!Init
       /\ Outbox(Drained)!Init /\ Follow(Shown)!Init /\ Link(Asked)!Init /\ Ticket(Ticketed)!Init

Next ==
    /\ UNCHANGED scenario
    /\ \/ /\ \/ scenario = "sent" /\ Outbox(Sent)!Next
             \/ scenario = "merged" /\ Outbox(Merged)!Next
             \/ scenario = "drained" /\ Outbox(Drained)!Next
          /\ UNCHANGED <<FollowVars, BridgeVars, TicketVars, ProxyVars>>
       \/ /\ \/ scenario = "followed" /\ Follow(Followed)!Next
             \/ scenario = "crowded" /\ Follow(Crowded)!Next
             \/ scenario = "shown" /\ Follow(Shown)!Next
          /\ UNCHANGED <<SpoolVars, BridgeVars, TicketVars, ProxyVars>>
       \/ /\ \/ scenario = "linked" /\ Link(Linked)!Next
             \/ scenario = "asked" /\ Link(Asked)!Next
             \/ scenario = "held" /\ Link(Held)!Next
          /\ UNCHANGED <<SpoolVars, FollowVars, TicketVars, ProxyVars>>
       \/ /\ scenario = "ticketed" /\ Ticket(Ticketed)!Next
          /\ UNCHANGED <<SpoolVars, FollowVars, BridgeVars, ProxyVars>>
       \/ /\ \/ scenario = "proxied" /\ Proxy(Proxied)!Next
             \/ scenario = "queued" /\ Proxy(Queued)!Next
             \/ scenario = "dismissed" /\ Proxy(Dismissed)!Next
          /\ UNCHANGED <<SpoolVars, FollowVars, BridgeVars, TicketVars>>

\* The fairness of the components, in the scenarios about liveness.
Fairness ==
    /\ WF_SpoolVars(scenario = "drained" /\ Outbox(Drained)!Draining)
    /\ \A a \in {"p1", "p2", "drain"} :
         /\ SF_SpoolVars(scenario = "drained" /\ Outbox(Drained)!Acquire(a))
         /\ WF_SpoolVars(scenario = "drained" /\ Outbox(Drained)!Delivery(a))
    /\ WF_FollowVars(scenario = "shown" /\ Follow(Shown)!Core)
    /\ \A s \in {"s1", "s2"} : WF_FollowVars(scenario = "shown" /\ Follow(Shown)!Request(s))
    /\ WF_BridgeVars(scenario = "asked" /\ Link(Asked)!Reads)
    /\ WF_BridgeVars(scenario = "asked" /\ Link(Asked)!LivenessAnswered)
    /\ WF_BridgeVars(scenario = "asked" /\ Link(Asked)!Worker)
    /\ WF_BridgeVars(scenario = "asked" /\ Link(Asked)!Upstream)
    /\ WF_BridgeVars(scenario = "held" /\ Link(Held)!Reads)
    /\ WF_BridgeVars(scenario = "held" /\ Link(Held)!LivenessAnswered)
    /\ WF_BridgeVars(scenario = "held" /\ Link(Held)!Unheld)
    /\ WF_BridgeVars(scenario = "held" /\ Link(Held)!Upstream)
    /\ WF_ProxyVars(scenario = "proxied" /\ Proxy(Proxied)!Tick)
    /\ WF_ProxyVars(scenario = "proxied" /\ Proxy(Proxied)!Timer("r1"))
    /\ WF_ProxyVars(scenario = "proxied" /\ Proxy(Proxied)!Handler("r1"))
    /\ WF_ProxyVars(scenario = "queued" /\ Proxy(Queued)!Tick)
    /\ \A r \in {"r1", "r2"} : /\ WF_ProxyVars(scenario = "queued" /\ Proxy(Queued)!Timer(r))
                               /\ WF_ProxyVars(scenario = "queued" /\ Proxy(Queued)!Handler(r))

Spec == Init /\ [][Next]_vars /\ Fairness

-----------------------------------------------------------------------------
\* A spooled send starts at most one turn, its row says what happened to it,
\* merging keeps a row of every text; the stream that follows a send shows
\* that send's turn, all of it and nothing else.
CrossOnce ==
    /\ scenario = "sent" => /\ Outbox(Sent)!TypeOK /\ Outbox(Sent)!OneTurnPerRow
                            /\ Outbox(Sent)!DeliveredWasInjected /\ Outbox(Sent)!RefusedIsKept
    /\ scenario = "drained" => Outbox(Drained)!OneTurnPerRow /\ Outbox(Drained)!DeliveredWasInjected
    /\ scenario = "merged" => Outbox(Merged)!OneTurnPerRow /\ Outbox(Merged)!MergedIsKept
    /\ scenario = "followed" =>
         /\ Follow(Followed)!TypeOK /\ Follow(Followed)!FollowsOwnSend
         /\ Follow(Followed)!ShowsTheTurn /\ Follow(Followed)!EndsComplete
         /\ Follow(Followed)!EndedReadsTerminal

\* On a ready link every attached session is subscribed on this connection,
\* requests reach the gateway once and only where the app may write, the app's
\* news of the link is true; and a ticket opens one link, whichever way its
\* request is cut into pieces.
LinkHonest ==
    /\ scenario = "linked" =>
         /\ Link(Linked)!TypeOK /\ Link(Linked)!AttachedIsSubscribed /\ Link(Linked)!RelayedOnce
         /\ Link(Linked)!WritesAllowed /\ Link(Linked)!NewsIsTrue
    /\ scenario = "ticketed" =>
         Ticket(Ticketed)!TypeOK /\ Ticket(Ticketed)!TicketOpensOnce /\ Ticket(Ticketed)!ByteForByte

\* No timeout, late answer, vanished browser or cancellation leaves a gateway
\* connection half-owned, a permit lost or minted, a truncated upload answered
\* as if it were whole, or a run cut because its browser left.
ProxyOwns ==
    /\ scenario = "proxied" => /\ Proxy(Proxied)!TypeOK /\ Proxy(Proxied)!NoHalfOwned
                               /\ Proxy(Proxied)!TruncatedNeverRelayed /\ Proxy(Proxied)!RunOutlivesBrowser
    /\ scenario = "queued" => Proxy(Queued)!TypeOK /\ Proxy(Queued)!BigNeedsPermit /\ Proxy(Queued)!PermitsConserved
    /\ scenario = "dismissed" => Proxy(Dismissed)!TypeOK /\ Proxy(Dismissed)!PermitsConserved

\* A resend within the window makes no second row to inject, an open stream
\* keeps its run id, a write waits for the replay of its session, a ticket
\* opens only within its lifetime, and a breach of the cap is answered 413.
LinkSteps ==
    [][/\ scenario = "sent" => Outbox(Sent)!NoDoublePost
       /\ scenario = "crowded" => Follow(Crowded)!OpenIdIsHeld
       /\ scenario = "linked" => Link(Linked)!ReplayBeforeRelay
       /\ scenario = "ticketed" => Ticket(Ticketed)!OpensInTime
       /\ scenario = "proxied" => Proxy(Proxied)!CapOutranks]_vars

\* Nothing is under way: the drain is over and p1 does not wait at the spool
\* (senders are interchangeable, and others may keep sending meanwhile);
\* no stream waits for its turn; no request of the link is open; no liveness
\* ask is; no plain call of the proxy goes on, and no drain.
Quiet ==
    /\ scenario = "drained" => drain.pc = "done" /\ act["p1"].pc \in {"idle", "ok", "error"}
    /\ scenario = "shown" => \A s \in {"s1", "s2"} : st[s].pc \in {"idle", "closed"}
    /\ scenario = "asked" => Len(out) = asked.requests
    /\ scenario = "held" => answered.done = asked.liveness
    /\ scenario = "proxied" => ~req["r1"].drain /\ Proxy(Proxied)!Ended("r1")
    /\ scenario = "queued" => \A r \in {"r1", "r2"} : Proxy(Queued)!Ended(r)

\* It always comes to that: a drain ends, the end of a turn reaches the stream
\* that waits for it, requests and liveness asks are answered, the latter also
\* while the gateway holds a call, and no call through the proxy hangs.
CallsEnd == []<>Quiet
=============================================================================
