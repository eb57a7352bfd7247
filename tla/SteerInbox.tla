----------------------------- MODULE SteerInbox -----------------------------
(***************************************************************************)
(* The durable steer inbox (compat/steer_store.py, steer_inbox.py and the  *)
(* hooks of compat.py:_install_steer_inbox). A steer is a message a client *)
(* sends into a run that is already going. It is admitted under a key of   *)
(* the client's, claimed with all other accepted ones at the next tool     *)
(* boundary, appended to the agent's messages as one row per batch, and    *)
(* called delivered once that row is committed to session history. Runs    *)
(* the core's session authority owns take the steer themselves; the inbox  *)
(* only keeps a receipt.                                                   *)
(*                                                                         *)
(* Admission, tool boundary and seal hold the run's guard and are one step *)
(* each; confirmation and recovery hold only the store's lock, transaction *)
(* by transaction. A request reads the run's status before it awaits its   *)
(* body and once more inside the guard. A retry under a key that is known  *)
(* changes nothing, whatever its text, and is not a step.                  *)
(***************************************************************************)
EXTENDS Naturals, FiniteSets

CONSTANTS
    Runs, Keys,          \* run ids; client request ids
    Batches,             \* batch ids (uuid4, never reused)
    Requests,            \* POST requests in progress
    AuthorityRuns,       \* runs owned by the core's session authority
    OUTSTANDING_LIMIT,
    RecordMayFail,       \* whether record_handoff may raise
    MaxRestarts          \* bound on crashes and hot reloads, for model checking

Shape == /\ AuthorityRuns \subseteq Runs
                /\ RecordMayFail \in BOOLEAN
                /\ "no batch" \notin Batches
Limits == OUTSTANDING_LIMIT \in Nat \ {0} /\ MaxRestarts \in Nat

VARIABLES
    status,    \* status[r]: _run_statuses entry, "none" when absent
    agent,     \* agent[r]: none, bound (in _active_run_agents) or gone
    sealing,   \* runs whose new status is set and whose seal is still to come
    closed,    \* runs with a closed_reason
    nextSeq,   \* nextSeq[r], column of table runs
    steer,     \* table steers
    batch,     \* batch[b]: state column of table batches, "none" if no row
    purged,    \* table purged_keys
    tail,      \* tail[r]: batches in the agent's messages, not flushed
    history,   \* batches whose row is committed to session history
    flushed,   \* flushed[r]: committed batches the flush has yet to confirm
    request,   \* request[q]: a POST that has read the status before its body
    recovery,  \* where recover() stands
    aged,      \* runs closed longer than RECEIPT_TTL_SECONDS
    injected,  \* injected[x]: batches that carried the steer (history)
    handed,    \* handed[x]: times the core took the steer (history)
    restarts

vars == <<status, agent, sealing, closed, nextSeq, steer, batch, purged, tail,
          history, flushed, request, recovery, aged, injected, handed, restarts>>
store == <<closed, nextSeq, steer, batch, purged>>
memory == <<status, agent, sealing, tail, flushed, request>>
ghosts == <<injected, handed>>

Steers == Runs \X Keys
NoBatch == "no batch"
Ended == {"stopping", "terminal"}
Outstanding == {"accepted", "staged"}
States == {"none", "accepted", "staged", "delivered", "not_delivered", "outcome_unknown"}
SteerRow == [state : States, seq : Nat, batch : Batches \cup {NoBatch}]
NoSteer == [state |-> "none", seq |-> 0, batch |-> NoBatch]
NoRequest == [pc |-> "idle"]
NoRecovery == [pc |-> "idle"]

TypeOK ==
    /\ status \in [Runs -> {"none", "queued", "running", "stopping", "terminal"}]
    /\ agent \in [Runs -> {"none", "bound", "gone"}]
    /\ sealing \subseteq Runs /\ closed \subseteq Runs /\ aged \subseteq closed
    /\ nextSeq \in [Runs -> Nat]
    /\ steer \in [Steers -> SteerRow]
    /\ batch \in [Batches -> {"none", "staged", "delivered", "outcome_unknown"}]
    /\ purged \subseteq Steers
    /\ tail \in [Runs -> SUBSET Batches] /\ flushed \in [Runs -> SUBSET Batches]
    /\ history \subseteq Batches
    /\ request \in [Requests -> [pc : {"body"}, steer : Steers, seen : {"running", "other"}]
                                \cup {NoRequest}]
    /\ recovery \in [pc : {"seal"}, runs : SUBSET Runs]
                    \cup [pc : {"scan"}, batches : SUBSET Batches]
                    \cup [pc : {"settle"}, batches : SUBSET Batches, batch : Batches,
                          evidence : BOOLEAN]
                    \cup {NoRecovery}
    /\ injected \in [Steers -> SUBSET Batches]
    /\ handed \in [Steers -> Nat]
    /\ restarts \in Nat

Init ==
    /\ status = [r \in Runs |-> "none"]
    /\ agent = [r \in Runs |-> "none"]
    /\ sealing = {} /\ closed = {} /\ purged = {} /\ history = {} /\ aged = {}
    /\ nextSeq = [r \in Runs |-> 1]
    /\ steer = [x \in Steers |-> NoSteer]
    /\ batch = [b \in Batches |-> "none"]
    /\ tail = [r \in Runs |-> {}] /\ flushed = [r \in Runs |-> {}]
    /\ request = [q \in Requests |-> NoRequest]
    /\ recovery = NoRecovery
    /\ injected = [x \in Steers |-> {}]
    /\ handed = [x \in Steers |-> 0]
    /\ restarts = 0

OfRun(r) == {x \in Steers : x[1] = r}
In(r, S) == {x \in OfRun(r) : steer[x].state \in S}

-----------------------------------------------------------------------------
(* The run, as the core moves it: status entries, agents, eviction.        *)

RunQueued(r) ==
    /\ status[r] = "none" /\ agent[r] = "none"
    /\ status' = [status EXCEPT ![r] = "queued"]
    /\ UNCHANGED <<agent, sealing, store, tail, history, flushed, request, recovery,
                   aged, ghosts, restarts>>

AgentBinds(r) ==
    /\ status[r] = "queued" /\ agent[r] = "none"
    /\ agent' = [agent EXCEPT ![r] = "bound"]
    /\ status' = [status EXCEPT ![r] = "running"]
    /\ UNCHANGED <<sealing, store, tail, history, flushed, request, recovery, aged,
                   ghosts, restarts>>

\* The agent is done: it leaves _active_run_agents, before or after the
\* terminal status is set. What it has not flushed by then is lost.
AgentLeaves(r) ==
    /\ agent[r] = "bound"
    /\ agent' = [agent EXCEPT ![r] = "gone"]
    /\ tail' = [tail EXCEPT ![r] = {}]
    /\ UNCHANGED <<status, sealing, store, history, flushed, request, recovery, aged,
                   ghosts, restarts>>

\* _set_run_status: the core's own part first, the seal after it.
StatusSet(r, s) ==
    /\ status[r] \in {"running", "stopping"} /\ status[r] # s
    /\ r \notin sealing
    /\ status' = [status EXCEPT ![r] = s]
    /\ sealing' = sealing \cup {r}
    /\ UNCHANGED <<agent, store, tail, history, flushed, request, recovery, aged,
                   ghosts, restarts>>

StatusEvicted(r) ==
    /\ status[r] = "terminal" /\ r \notin sealing /\ agent[r] = "gone"
    /\ status' = [status EXCEPT ![r] = "none"]
    /\ UNCHANGED <<agent, sealing, store, tail, history, flushed, request, recovery,
                   aged, ghosts, restarts>>

-----------------------------------------------------------------------------
(* Admission.                                                              *)

\* Authentication and ownership: the status is read, then the body awaited.
PostArrives(q, x) ==
    /\ request[q] = NoRequest
    /\ status[x[1]] # "none"
    /\ request' = [request EXCEPT ![q] =
          [pc |-> "body", steer |-> x,
           seen |-> IF status[x[1]] = "running" THEN "running" ELSE "other"]]
    /\ UNCHANGED <<status, agent, sealing, store, tail, history, flushed, recovery,
                   aged, ghosts, restarts>>

\* The decision of admit_request inside the guard: status and agent are read
\* again; only an evicted status falls back to the one seen before.
Verdict(q) ==
    LET r == request[q].steer[1] IN
    /\ IF status[r] = "none" THEN request[q].seen = "running" ELSE status[r] = "running"
    /\ agent[r] = "bound"

\* steer_store.admit: a purged key, a known key, a sealed run or a full queue
\* refuses; otherwise the steer is accepted with the run's next number.
Admissible(x) ==
    /\ x \notin purged
    /\ steer[x] = NoSteer
    /\ x[1] \notin closed
    /\ Cardinality(In(x[1], Outstanding)) < OUTSTANDING_LIMIT

NewSteer(x, s) == [state |-> s, seq |-> nextSeq[x[1]], batch |-> NoBatch]

Admit(q) ==
    LET x == request[q].steer IN
    /\ request[q] # NoRequest
    /\ x[1] \notin AuthorityRuns
    /\ IF Verdict(q) /\ Admissible(x)
       THEN /\ steer' = [steer EXCEPT ![x] = NewSteer(x, "accepted")]
            /\ nextSeq' = [nextSeq EXCEPT ![x[1]] = @ + 1]
       ELSE UNCHANGED <<steer, nextSeq>>
    /\ request' = [request EXCEPT ![q] = NoRequest]
    /\ UNCHANGED <<status, agent, sealing, closed, batch, purged, tail, history, flushed,
                   recovery, aged, ghosts, restarts>>

\* The key must be new and the run unsealed (_duplicate, handoff_gate).
Handable(x) == steer[x] = NoSteer /\ x \notin purged /\ x[1] \notin closed

\* _admit_via_authority: the core takes the steer, and then the
\* receipt is recorded, if it can be.
HandOver(q) ==
    LET x == request[q].steer IN
    /\ request[q] # NoRequest
    /\ x[1] \in AuthorityRuns
    /\ IF Verdict(q) /\ Handable(x)
       THEN /\ handed' = [handed EXCEPT ![x] = @ + 1]
            /\ \/ /\ steer' = [steer EXCEPT ![x] = NewSteer(x, "outcome_unknown")]
                  /\ nextSeq' = [nextSeq EXCEPT ![x[1]] = @ + 1]
               \/ RecordMayFail /\ handed[x] < 2 /\ UNCHANGED <<steer, nextSeq>>
       ELSE UNCHANGED <<handed, steer, nextSeq>>
    /\ request' = [request EXCEPT ![q] = NoRequest]
    /\ UNCHANGED <<status, agent, sealing, closed, batch, purged, tail, history, flushed,
                   recovery, aged, injected, restarts>>

-----------------------------------------------------------------------------
(* Seal, tool boundary, flush.                                             *)

\* steer_store.seal_run: no more admissions or claims; accepted ones retire.
SealRun(R) ==
    /\ closed' = closed \cup R
    /\ steer' = [x \in Steers |->
                   IF x[1] \in R /\ steer[x].state = "accepted"
                   THEN [steer[x] EXCEPT !.state = "not_delivered"] ELSE steer[x]]

Seal(r) ==
    /\ r \in sealing
    /\ sealing' = sealing \ {r}
    /\ SealRun({r})
    /\ UNCHANGED <<status, agent, nextSeq, batch, purged, tail, history, flushed, request,
                   recovery, aged, ghosts, restarts>>

\* claim_batch: everything accepted, unless the run is sealed.
Claimable(r) == IF r \in closed THEN {} ELSE In(r, {"accepted"})

\* Mutant: the claimed rows are not marked.
ClaimBatch_Unmarked(r, b) == UNCHANGED steer

ClaimBatch(r, b) ==
    steer' = [x \in Steers |->
                IF x \in Claimable(r) THEN [steer[x] EXCEPT !.state = "staged", !.batch = b]
                ELSE steer[x]]

\* on_tool_boundary: the claimed batch becomes one row of the agent's messages.
ToolBoundary(r, b) ==
    /\ agent[r] = "bound"
    /\ batch[b] = "none" /\ \A x \in Steers : b \notin injected[x]
    /\ Claimable(r) # {}
    /\ batch' = [batch EXCEPT ![b] = "staged"]
    /\ ClaimBatch(r, b)
    /\ injected' = [x \in Steers |->
                      IF x \in Claimable(r) THEN injected[x] \cup {b} ELSE injected[x]]
    /\ tail' = [tail EXCEPT ![r] = @ \cup {b}]
    /\ UNCHANGED <<status, agent, sealing, closed, nextSeq, purged, history, flushed,
                   request, recovery, aged, handed, restarts>>

\* _db_flush_write: the rows are committed, then each is confirmed.
Flush(r) ==
    /\ agent[r] = "bound" /\ tail[r] # {} /\ flushed[r] = {}
    /\ history' = history \cup tail[r]
    /\ flushed' = [flushed EXCEPT ![r] = tail[r]]
    /\ tail' = [tail EXCEPT ![r] = {}]
    /\ UNCHANGED <<status, agent, sealing, store, request, recovery, aged, ghosts, restarts>>

\* confirm_batch and mark_outcome_unknown: delivered is final.
Resolve(b, s) ==
    IF batch[b] \in {"none", "delivered"} THEN UNCHANGED <<batch, steer>>
    ELSE /\ batch' = [batch EXCEPT ![b] = s]
         /\ steer' = [x \in Steers |-> IF steer[x].batch = b
                                       THEN [steer[x] EXCEPT !.state = s] ELSE steer[x]]

\* confirm_flushed_rows: a row whose id is not known is left as it is.
ConfirmFlushed(r, b) ==
    /\ b \in flushed[r]
    /\ flushed' = [flushed EXCEPT ![r] = @ \ {b}]
    /\ Resolve(b, "delivered") \/ UNCHANGED <<batch, steer>>
    /\ UNCHANGED <<status, agent, sealing, closed, nextSeq, purged, tail, history, request,
                   recovery, aged, ghosts, restarts>>

-----------------------------------------------------------------------------
(* Restart and recovery: after a crash nothing is bound; a hot reload runs *)
(* the same recovery while agents live on.                                 *)

Live == {r \in Runs : agent[r] = "bound"}
Accepted == {r \in Runs : In(r, {"accepted"}) # {}}
StagedBatches == {b \in Batches : batch[b] = "staged"}

Crash ==
    /\ restarts < MaxRestarts /\ restarts' = restarts + 1
    /\ status' = [r \in Runs |-> "none"]
    /\ agent' = [r \in Runs |-> IF agent[r] = "none" /\ status[r] = "none" THEN "none" ELSE "gone"]
    /\ sealing' = {}
    /\ tail' = [r \in Runs |-> {}] /\ flushed' = [r \in Runs |-> {}]
    /\ request' = [q \in Requests |-> NoRequest]
    /\ recovery' = [pc |-> "seal", runs |-> Accepted \ closed]
    /\ UNCHANGED <<store, history, aged, ghosts>>

HotReload ==
    /\ restarts < MaxRestarts /\ restarts' = restarts + 1
    /\ recovery = NoRecovery
    /\ recovery' = [pc |-> "seal", runs |-> (Accepted \ Live) \ closed]
    /\ UNCHANGED <<memory, store, history, aged, ghosts>>

RecoverSeals ==
    /\ recovery.pc = "seal"
    /\ IF recovery.runs = {}
       THEN /\ recovery' = [pc |-> "scan", batches |-> StagedBatches]
            /\ UNCHANGED <<closed, steer>>
       ELSE \E r \in recovery.runs :
            /\ recovery' = [recovery EXCEPT !.runs = @ \ {r}]
            /\ SealRun({r})
    /\ UNCHANGED <<memory, nextSeq, batch, purged, history, aged, ghosts, restarts>>

\* _find_committed_batch reads history; a read that fails finds nothing.
RecoverScans(b) ==
    /\ recovery.pc = "scan" /\ b \in recovery.batches
    /\ \E e \in {(b \in history), FALSE} :
          recovery' = [pc |-> "settle", batches |-> recovery.batches \ {b},
                       batch |-> b, evidence |-> e]
    /\ UNCHANGED <<memory, store, history, aged, ghosts, restarts>>

RecoverSettles ==
    /\ recovery.pc = "settle"
    /\ Resolve(recovery.batch, IF recovery.evidence THEN "delivered" ELSE "outcome_unknown")
    /\ recovery' = [pc |-> "scan", batches |-> recovery.batches]
    /\ UNCHANGED <<memory, closed, nextSeq, purged, history, aged, ghosts, restarts>>

\* prune_expired: runs closed for 30 days lose their receipts, not their keys.
RecoverPrunes ==
    LET gone == {x \in Steers : x[1] \in aged /\ steer[x] # NoSteer} IN
    /\ recovery.pc = "scan" /\ recovery.batches = {}
    /\ purged' = purged \cup gone
    /\ batch' = [b \in Batches |-> IF \E x \in gone : steer[x].batch = b THEN "none" ELSE batch[b]]
    /\ steer' = [x \in Steers |-> IF x \in gone THEN NoSteer ELSE steer[x]]
    /\ recovery' = NoRecovery
    /\ UNCHANGED <<memory, closed, nextSeq, history, aged, ghosts, restarts>>

\* Thirty days pass for a sealed run nothing works on any more.
RunAges(r) ==
    /\ r \in closed \ aged
    /\ agent[r] # "bound" /\ flushed[r] = {} /\ recovery = NoRecovery
    /\ aged' = aged \cup {r}
    /\ UNCHANGED <<memory, store, history, recovery, ghosts, restarts>>

-----------------------------------------------------------------------------
Next ==
    \/ \E r \in Runs :
        \/ RunQueued(r) \/ AgentBinds(r) \/ AgentLeaves(r) \/ StatusEvicted(r)
        \/ \E s \in Ended : StatusSet(r, s)
        \/ Seal(r) \/ Flush(r) \/ RunAges(r)
        \/ \E b \in Batches : ToolBoundary(r, b) \/ ConfirmFlushed(r, b)
    \/ \E q \in Requests : \/ \E x \in Steers : PostArrives(q, x)
                           \/ Admit(q) \/ HandOver(q)
    \/ Crash \/ HotReload \/ RecoverSeals \/ RecoverSettles \/ RecoverPrunes
    \/ \E b \in Batches : RecoverScans(b)

Spec == Init /\ [][Next]_vars

\* A restarted process runs its recovery to the end.
Recovers == \/ RecoverSeals \/ RecoverSettles \/ RecoverPrunes
            \/ \E b \in Batches : RecoverScans(b)
FairSpec == Spec /\ WF_vars(Recovers)

-----------------------------------------------------------------------------
(* Properties.                                                             *)

\* A steer reaches the agent's messages at most once, whatever is retried,
\* restarted or purged, and one the core took itself never does.
InjectedOnce ==
    \A x \in Steers : /\ Cardinality(injected[x]) <= 1
                      /\ x[1] \in AuthorityRuns => injected[x] = {}

\* "delivered means the row containing the batch committed to session history"
\* (steer_store.py:15), and a receipt that says not_delivered is as honest: no
\* agent ever saw that steer.
ReceiptsAreHonest ==
    \A x \in Steers :
        /\ steer[x].state = "delivered" => steer[x].batch \in history \cap injected[x]
        /\ steer[x].state = "not_delivered" => injected[x] = {}

\* Accepted plus staged steers of a run never exceed the limit.
QueueBounded == \A r \in Runs : Cardinality(In(r, Outstanding)) <= OUTSTANDING_LIMIT

\* "admitted then sealed and sealed then 409 are the only interleavings": once
\* the status of a run is final and its seal done, no steer waits in its queue.
NothingStranded ==
    \A r \in Runs : status[r] \in Ended /\ r \notin sealing => In(r, {"accepted"}) = {}

\* Steers enter the agent's messages in the order of their numbers.
InOrder ==
    \A r \in Runs : \A x, y \in OfRun(r) :
        steer[x].state = "accepted" /\ injected[y] # {} /\ steer[y] # NoSteer
            => steer[y].seq < steer[x].seq

\* The two final verdicts stay until the receipt is purged, and a sealed run
\* accepts and claims nothing any more.
VerdictKept ==
    \A x \in Steers :
        /\ steer[x].state \in {"delivered", "not_delivered"} =>
              steer'[x].state \in {steer[x].state, "none"}
        /\ x[1] \in closed /\ steer'[x] # steer[x] =>
              steer'[x].state \notin Outstanding
        /\ x \in purged => steer'[x] = NoSteer

\* A run whose process died and whose status is gone has no steer that still
\* pretends to be on its way; a restart's recovery brings this about.
Settled(r) == agent[r] = "gone" /\ status[r] = "none" => In(r, {"accepted"}) = {}

\* "idempotent" (compat.py:4591): the core takes a steer at most once.
HandedOnce == \A x \in Steers : handed[x] <= 1

\* All a steer may do over its life; the core may take one twice only where a
\* receipt can fail to be recorded.
SteersOnce ==
    /\ InjectedOnce /\ ReceiptsAreHonest /\ QueueBounded /\ NothingStranded /\ InOrder
    /\ RecordMayFail \/ HandedOnce
=============================================================================
