----------------------------- MODULE WebProxy -----------------------------
(***************************************************************************)
(* The reverse proxy of web/serve.py: who owns the connection to the       *)
(* gateway from the moment a browser's request is accepted until it is     *)
(* released, and who holds the permits of the big-download semaphore.      *)
(* One action is the code between two awaits of api_proxy and of the       *)
(* coroutines it runs (_request_upload_then_headers, _stream_response,     *)
(* _drain_to_end); the browser, the gateway and time are the environment.  *)
(***************************************************************************)
EXTENDS Integers, Sequences, Lists, FiniteSets

CONSTANTS
    Reqs,          \* the browser requests of a behaviour
    BodyCap,       \* MAX_BODY_BYTES, in chunks
    BigChunks,     \* BIG_STREAM_BYTES, in chunks
    LastChunk,     \* bound: no response body is longer than this
    BigSlots,      \* BIG_STREAM_SLOTS
    UploadIdle,    \* UPLOAD_IDLE_TIMEOUT, in ticks
    HeaderWait,    \* _API_HEADER_TIMEOUT
    ReadWait,      \* _API_READ_TIMEOUT
    Silence,       \* _DRAIN_SILENCE_SECONDS
    Ceiling,       \* _DRAIN_MAX_SECONDS
    Shutdown,      \* whether the runner may cancel its handlers
    Accepts,       \* whether a request asks for an event stream: a subset
    Bodies,        \* the request bodies of an instance
    Replies        \* the gateway's answers of an instance

\* One read of 64 KiB is never big.
ProxyAssumption ==
    /\ IsFiniteSet(Reqs)
    /\ {BodyCap, LastChunk} \subseteq Nat
    /\ {BigChunks, BigSlots, UploadIdle, HeaderWait, ReadWait, Silence,
        Ceiling} \subseteq Nat \ {0}
    /\ Shutdown \in BOOLEAN /\ Accepts \subseteq BOOLEAN
    /\ Bodies \subseteq {"none", "fits", "chunked", "huge"}
    /\ Replies \subseteq {"events", "plain", "big"}

VARIABLES
    req,      \* each request: its handler, its connection, its drain task
    free,     \* permits left in big_streams
    waiters   \* the handlers queued on big_streams, in order

vars == <<req, free, waiters>>

Longest == CHOOSE t \in {UploadIdle, HeaderWait, ReadWait, Silence} :
             \A u \in {UploadIdle, HeaderWait, ReadWait, Silence} : u <= t

Request == [pc : {"idle", "asking", "queue", "first", "reading", "writing",
                  "slotwait", "sse", "end"},
            sse : BOOLEAN, body : {"none", "fits", "chunked"},
            here : BOOLEAN, sent : 0..BodyCap, done : BOOLEAN, over : BOOLEAN,
            conn : {"none", "asked", "failed", "answered", "ended"},
            reply : {"none", "events", "plain", "big"}, whole : BOOLEAN,
            streamed : 0..(LastChunk + 1), slot : BOOLEAN,
            clock : 0..Longest, drain : BOOLEAN, age : 0..Ceiling,
            quiet : 0..Silence, run : {"none", "live", "over", "cut"},
            out : {"none", "413", "504", "error", "begun"}]

Fresh == [pc |-> "idle", sse |-> FALSE, body |-> "none", here |-> TRUE,
          sent |-> 0, done |-> FALSE, over |-> FALSE, conn |-> "none",
          reply |-> "none", whole |-> TRUE, streamed |-> 0, slot |-> FALSE,
          clock |-> 0, drain |-> FALSE, age |-> 0, quiet |-> 0, run |-> "none",
          out |-> "none"]

Init == /\ req = [r \in Reqs |-> Fresh]
        /\ free = BigSlots
        /\ waiters = <<>>

Keep == UNCHANGED <<free, waiters>>

\* The gateway interrupts a run whose stream is dropped while it is live.
Dropped(run) == IF run = "live" THEN "cut" ELSE run

\* Mutant: an answer that came with the timeout is left open.
GiveUp_KeepsLate(r, why) ==
    /\ req' = [req EXCEPT ![r].pc = "end",
                          ![r].conn = IF @ = "answered" THEN @ ELSE "ended",
                          ![r].run = Dropped(@),
                          ![r].out = IF req[r].over THEN "413" ELSE why]
    /\ Keep

\* A handler that ends without a response of its own to relay: the request
\* task is cancelled, or the response it produced meanwhile is released, and
\* a breach of the body cap outranks every other reason.
GiveUp(r, why) ==
    /\ req' = [req EXCEPT ![r].pc = "end", ![r].conn = "ended",
                          ![r].run = Dropped(@),
                          ![r].out = IF req[r].over THEN "413" ELSE why]
    /\ Keep

\* _stream_response's finally: the permit goes back, and an unfinished body
\* releases the connection. At EOF the client library has released it.
Settle(r, out) ==
    /\ req' = [req EXCEPT ![r].pc = "end", ![r].conn = "ended",
                          ![r].slot = FALSE, ![r].out = out]
    /\ free' = IF req[r].slot THEN free + 1 ELSE free
    /\ waiters' = Removed(waiters, r)

-----------------------------------------------------------------------------
(* The browser and the request body.                                       *)

Arrive(r, sse, body) ==
    /\ req[r].pc = "idle"
    /\ IF body = "huge"
         THEN req' = [req EXCEPT ![r].pc = "end", ![r].out = "413"]
         ELSE req' = [req EXCEPT ![r].pc = "asking", ![r].conn = "asked",
                                 ![r].sse = sse, ![r].body = body,
                                 ![r].done = body = "none"]
    /\ Keep

Leave(r) ==
    /\ req[r].pc \notin {"idle", "end"}
    /\ req[r].here
    /\ req' = [req EXCEPT ![r].here = FALSE]
    /\ Keep

\* _request_body_stream: one more chunk reaches the upstream writer, or the
\* cap trips and the body stops quietly.
Feed(r) ==
    /\ req[r].pc \notin {"idle", "end"}
    /\ req[r].here /\ ~req[r].done /\ ~req[r].over
    /\ IF req[r].sent + 1 > BodyCap
         THEN /\ req[r].body = "chunked"
              /\ req' = [req EXCEPT ![r].over = TRUE]
         ELSE req' = [req EXCEPT ![r].sent = @ + 1,
                        ![r].clock = IF req[r].pc = "asking" THEN 0 ELSE @]
    /\ Keep

BodyEnd(r) ==
    /\ req[r].pc \notin {"idle", "end"}
    /\ req[r].here /\ ~req[r].done /\ ~req[r].over
    /\ req' = [req EXCEPT ![r].done = TRUE,
                 ![r].clock = IF req[r].pc = "asking" THEN 0 ELSE @]
    /\ Keep

-----------------------------------------------------------------------------
(* The gateway's side of the connection.                                   *)

\* Response headers; an event stream is the life of a run. The gateway may
\* answer before it has the whole body.
Answer(r, reply) ==
    /\ req[r].conn = "asked"
    /\ req' = [req EXCEPT ![r].conn = "answered", ![r].reply = reply,
                          ![r].whole = ~req[r].over, ![r].quiet = 0,
                          ![r].run = IF reply = "events" THEN "live" ELSE @]
    /\ Keep

Refuse(r) ==
    /\ req[r].conn = "asked"
    /\ req' = [req EXCEPT ![r].conn = "failed"]
    /\ Keep

-----------------------------------------------------------------------------
(* The handler until it has the response headers.                          *)

Asking(r) == req[r].pc = "asking"

\* A body over the cap is refused whatever the request task has done.
OverCap(r) == /\ Asking(r) /\ req[r].over
              /\ GiveUp(r, "413")

\* How a reply is relayed: by its content type, and its declared length.
Relay == [events |-> "sse", plain |-> "first", big |-> "queue"]

\* The upstream is handed to the relay its content type asks for; a declared
\* big body first queues for a permit.
HandOver(r) ==
    /\ Asking(r) /\ req[r].conn = "answered" /\ ~req[r].over
    /\ req' = [req EXCEPT ![r].clock = 0, ![r].pc = Relay[req[r].reply]]
    /\ waiters' = IF req[r].reply = "big" THEN Append(waiters, r) ELSE waiters
    /\ UNCHANGED free

RequestFails(r) == /\ Asking(r) /\ req[r].conn = "failed"
                   /\ GiveUp(r, "error")

\* The idle clock of an upload, which only real bytes set back.
UploadStalls(r) ==
    /\ Asking(r) /\ ~req[r].sse /\ ~req[r].done
    /\ req[r].clock >= UploadIdle
    /\ GiveUp(r, "504")

HeaderDeadline(r) ==
    /\ Asking(r) /\ ~req[r].sse /\ req[r].done
    /\ req[r].clock >= HeaderWait
    /\ GiveUp(r, "504")

-----------------------------------------------------------------------------
(* _stream_response: a plain body, under a permit once it is big.          *)

\* asyncio.Semaphore: first come, first served. A handler that queued in
\* mid-stream goes on with the write it had in hand.
Acquire(r) ==
    /\ waiters # <<>> /\ r = Head(waiters) /\ free > 0
    /\ req' = [req EXCEPT ![r].slot = TRUE, ![r].clock = 0,
                 ![r].pc = IF @ = "queue" THEN "first" ELSE "writing"]
    /\ free' = free - 1
    /\ waiters' = Tail(waiters)

\* The first chunk is read before the response is prepared.
FirstChunk(r) ==
    /\ req[r].pc = "first"
    /\ IF req[r].here
         THEN /\ req' = [req EXCEPT ![r].pc = "writing", ![r].out = "begun",
                                    ![r].streamed = 1]
              /\ Keep
         ELSE Settle(r, "error")

NextChunk(r) ==
    /\ req[r].pc = "reading" /\ req[r].streamed < LastChunk
    /\ LET wait == ~req[r].slot /\ req[r].streamed + 1 > BigChunks
       IN  /\ req' = [req EXCEPT ![r].streamed = @ + 1,
                         ![r].pc = IF wait THEN "slotwait" ELSE "writing"]
           /\ waiters' = IF wait THEN Append(waiters, r) ELSE waiters
    /\ UNCHANGED free

\* The write is paced by the browser and has no deadline of its own.
Write(r) ==
    /\ req[r].pc = "writing"
    /\ IF req[r].here
         THEN req' = [req EXCEPT ![r].pc = "reading", ![r].clock = 0] /\ Keep
         ELSE Settle(r, "begun")

BodyEof(r) == /\ req[r].pc = "reading"
              /\ Settle(r, "begun")

ReadDeadline(r) ==
    /\ req[r].pc \in {"first", "reading"}
    /\ req[r].clock >= ReadWait
    /\ Settle(r, IF req[r].pc = "first" THEN "504" ELSE "begun")

ReadFails(r) ==
    /\ req[r].pc \in {"first", "reading"}
    /\ Settle(r, IF req[r].pc = "first" THEN "error" ELSE "begun")

-----------------------------------------------------------------------------
(* The event stream and the task that outlives the browser.                *)

\* _spawn_drain: the handler returns and the drain owns the connection.
SpawnDrain(r, quiet) ==
    /\ req' = [req EXCEPT ![r].pc = "end", ![r].drain = TRUE, ![r].clock = 0,
                          ![r].age = 0, ![r].quiet = quiet, ![r].out = "begun"]
    /\ Keep

\* An event, or the gateway's keepalive, on a stream whose run is live.
SseChunk(r) ==
    /\ req[r].pc = "sse" /\ req[r].run = "live"
    /\ IF req[r].here
         THEN req' = [req EXCEPT ![r].quiet = 0, ![r].out = "begun"] /\ Keep
         ELSE SpawnDrain(r, 0)

\* The relay's own read raises: the drain reads once more, and releases.
SseFails(r) ==
    /\ req[r].pc = "sse" /\ req[r].run = "over"
    /\ SpawnDrain(r, req[r].quiet)

SseEof(r) ==
    /\ req[r].pc = "sse" /\ req[r].run = "over"
    /\ req' = [req EXCEPT ![r].pc = "end", ![r].conn = "ended",
                          ![r].out = "begun"]
    /\ Keep

RunEnds(r) ==
    /\ req[r].run = "live"
    /\ req' = [req EXCEPT ![r].run = "over"]
    /\ Keep

\* Whatever ends _drain_to_end, its finally releases.
EndDrain(r) ==
    /\ req' = [req EXCEPT ![r].drain = FALSE, ![r].conn = "ended",
                          ![r].run = Dropped(@)]
    /\ Keep

DrainChunk(r) ==
    /\ req[r].drain /\ req[r].run = "live"
    /\ req' = [req EXCEPT ![r].clock = 0, ![r].quiet = 0]
    /\ Keep

DrainEof(r) == /\ req[r].drain /\ req[r].run = "over"
               /\ EndDrain(r)

DrainSilent(r) == /\ req[r].drain /\ req[r].clock >= Silence
                  /\ EndDrain(r)

DrainCeiling(r) == /\ req[r].drain /\ req[r].age >= Ceiling
                   /\ EndDrain(r)

-----------------------------------------------------------------------------
(* The runner cancels what still runs, and time passes.                    *)

\* CancelledError at the await the handler is suspended on. The wait for an
\* up-front permit lies outside every try that would release the upstream.
Cancel(r) ==
    /\ Shutdown
    /\ CASE req[r].pc = "asking" -> GiveUp(r, "error")
         [] req[r].pc = "queue" ->
              /\ req' = [req EXCEPT ![r].pc = "end", ![r].out = "error"]
              /\ waiters' = Removed(waiters, r)
              /\ UNCHANGED free
         [] req[r].pc \in {"first", "reading", "writing", "slotwait"} ->
              Settle(r, IF req[r].pc = "first" THEN "error" ELSE "begun")
         [] req[r].pc = "sse" -> SpawnDrain(r, req[r].quiet)
         [] OTHER -> req[r].drain /\ EndDrain(r)

Timed(q) == \/ q.pc = "asking" /\ ~q.sse
            \/ q.pc \in {"first", "reading"}
            \/ q.drain

Later(n, cap) == IF n < cap THEN n + 1 ELSE n

Tick ==
    /\ req' = [r \in Reqs |->
         [req[r] EXCEPT
            !.clock = IF Timed(req[r]) THEN Later(@, Longest) ELSE @,
            !.age   = IF req[r].drain THEN Later(@, Ceiling) ELSE @,
            !.quiet = IF req[r].run = "live" THEN Later(@, Silence) ELSE @]]
    /\ Keep

-----------------------------------------------------------------------------
Timer(r) == UploadStalls(r) \/ HeaderDeadline(r) \/ ReadDeadline(r)
              \/ DrainSilent(r) \/ DrainCeiling(r)

Handler(r) == OverCap(r) \/ HandOver(r) \/ RequestFails(r) \/ Acquire(r)
                \/ Write(r) \/ SseEof(r) \/ DrainEof(r)

Environment(r) ==
    \/ \E sse \in Accepts, body \in Bodies : Arrive(r, sse, body)
    \/ Leave(r) \/ Feed(r) \/ BodyEnd(r)
    \/ \E reply \in Replies : Answer(r, reply)
    \/ Refuse(r) \/ FirstChunk(r) \/ NextChunk(r) \/ BodyEof(r) \/ ReadFails(r)
    \/ SseChunk(r) \/ SseFails(r) \/ RunEnds(r) \/ DrainChunk(r)
    \/ Cancel(r)

Next == \/ \E r \in Reqs : Timer(r) \/ Handler(r) \/ Environment(r)
        \/ Tick

Spec == Init /\ [][Next]_vars

\* The event loop runs what is ready and fires the timers that are due, time
\* passes, and a browser either takes what is written to it or is gone. The
\* gateway and the browser owe nothing else.
FairSpec ==
    /\ Spec
    /\ WF_vars(Tick)
    /\ \A r \in Reqs : WF_vars(Timer(r)) /\ WF_vars(Handler(r))

-----------------------------------------------------------------------------
TypeOK ==
    /\ req \in [Reqs -> Request]
    /\ free \in 0..BigSlots
    /\ waiters \in Seq(Reqs)

\* A connection whose response headers have come is always somebody's: the
\* handler's, or, once the handler has returned, a drain task's. No timeout,
\* late answer, vanished browser or failed write leaves it half-owned
\* (_request_upload_then_headers, _stream_response, _spawn_drain).
NoHalfOwned ==
    \A r \in Reqs :
      req[r].pc = "end" /\ req[r].conn \in {"asked", "answered"} => req[r].drain

\* The semaphore's permits are neither lost nor minted, through every
\* exception and cancellation: what is not free is held by a handler that is
\* still streaming, and who queues holds none (_stream_response).
PermitsConserved ==
    /\ free + Cardinality({r \in Reqs : req[r].slot}) = BigSlots
    /\ \A r \in Reqs : req[r].slot => req[r].pc \in {"first", "reading", "writing"}
    /\ Range(waiters) = {r \in Reqs : req[r].pc \in {"queue", "slotwait"}}

\* No body passes the big threshold on its way to the browser without a
\* permit, whether its length was declared or found out while streaming.
BigNeedsPermit ==
    \A r \in Reqs : /\ req[r].pc \in {"reading", "writing"}
                    /\ req[r].streamed > BigChunks
                    => req[r].slot

\* What the gateway answered to a body cut at the cap never reaches the
\* browser as the answer to its request (_request_body_stream stops quietly,
\* so the truncated upload looks complete upstream).
TruncatedNeverRelayed ==
    \A r \in Reqs : ~req[r].whole =>
      /\ req[r].pc \in {"asking", "end"} /\ ~req[r].drain
      /\ req[r].out \in {"none", "413"}

\* Until the response is handed over, a breach of the cap is answered 413
\* whatever else went wrong at the same time: a timeout, a failed request.
CapOutranks ==
    \A r \in Reqs :
      (req[r].pc = "asking" /\ req'[r].pc = "end" /\ req[r].over)
        => req'[r].out = "413"

\* A browser that leaves never interrupts its run: the gateway sees a live
\* run's stream dropped only after Silence without a byte, or Ceiling after
\* the browser left (api_proxy, _drain_to_end). Refusing an upload whose
\* response nobody was given is the one exception.
RunOutlivesBrowser ==
    \A r \in Reqs : req[r].run = "cut" =>
      \/ req[r].quiet >= Silence
      \/ req[r].age >= Ceiling
      \/ req[r].out \in {"413", "504"}

\* A plain API call ends: a wedged gateway, a stalled upload, a queue for a
\* permit, none holds it for ever (AUDIT-10, AUDIT-18). Ended(r) comes true.
Ended(r) == req[r].pc \in {"idle", "end"} \/ req[r].sse \/ req[r].reply = "events"
=============================================================================
