----------------------------- MODULE StreamTurn -----------------------------
(***************************************************************************)
(* One session-SSE turn of the approval unit of compat.py (base backend):  *)
(* the request handler and the turn's task on the loop, the agent in a     *)
(* worker thread, and the bridge through which the worker's approvals      *)
(* reach the viewer. The approval queue of the gateway, its stop and drain *)
(* handlers and the agent are external.                                    *)
(***************************************************************************)
EXTENDS Naturals, Sequences

CONSTANTS MaxAsks   \* bound on the approvals of the turn

Shape == MaxAsks \in Nat

VARIABLES
    status,     \* the run's status
    task,       \* _run_and_signal
    worker,     \* the agent's thread
    result,     \* what the worker ended with
    closed,     \* the bridge is closed
    registered, \* the bridge is in the table of bridges
    listener,   \* the worker's approvals have a listener
    pending,    \* an approval is in the gateway's queue
    calls,      \* calls posted to the loop, in order
    out,        \* events given to the viewer's queue
    viewer,     \* the viewer's socket
    asks

vars == <<status, task, worker, result, closed, registered, listener, pending, calls, out, viewer, asks>>

Terminal == {"completed", "failed", "cancelled"}

Events == {"started", "request", "responded", "assistant", "terminal", "error", "done"}

TypeOK ==
    /\ status \in {"none", "queued", "running", "waiting", "stopping"} \cup Terminal
    /\ task \in {"none", "queued", "running", "ended"}
    /\ worker \in {"none", "pooled", "inside", "asked", "waiting", "leaving", "over"}
    /\ result \in {"none", "raised", "refused"} \cup Terminal
    /\ result = "none" <=> worker \notin {"leaving", "over"}
    /\ calls \in Seq({"publish", "forget", "result"}) /\ out \in Seq(Events)
    /\ {closed, registered, listener, pending} \subseteq BOOLEAN
    /\ viewer \in {"on", "gone"} /\ asks \in 0..MaxAsks

Init ==
    /\ status = "none" /\ task = "none" /\ worker = "none" /\ result = "none"
    /\ closed = FALSE /\ registered = FALSE /\ listener = FALSE /\ pending = FALSE
    /\ calls = <<>> /\ out = <<>> /\ viewer = "on" /\ asks = 0

-----------------------------------------------------------------------------
(* The bridge                                                              *)

\* close(), under the bridge's lock: the listener goes, and unregistering it
\* resolves whatever waits for an answer.
Closes == closed' = TRUE /\ listener' = FALSE /\ pending' = (pending /\ closed)

\* Mutant: only the first close forgets the bridge.
CloseOnLoop_Once == Closes /\ registered' = (registered /\ closed) /\ UNCHANGED calls

\* close() on the loop forgets at once.
CloseOnLoop == Closes /\ registered' = FALSE /\ UNCHANGED calls

EnterRefused == closed

\* enter(), in the worker.
Enter ==
    /\ worker = "pooled"
    /\ IF EnterRefused THEN worker' = "leaving" /\ result' = "refused" /\ UNCHANGED listener
       ELSE worker' = "inside" /\ listener' = TRUE /\ UNCHANGED result
    /\ UNCHANGED <<status, task, closed, registered, pending, calls, out, viewer, asks>>

\* A guarded command: with a listener the gateway queues the approval first
\* and notifies after; without one the unattended policy decides at once.
Ask ==
    /\ worker = "inside" /\ listener /\ asks < MaxAsks
    /\ pending' = TRUE /\ worker' = "asked" /\ asks' = asks + 1
    /\ UNCHANGED <<status, task, result, closed, registered, listener, calls, out, viewer>>

\* notify(): a refusal makes the gateway withdraw the approval.
Notify ==
    /\ worker = "asked"
    /\ IF closed THEN worker' = "inside" /\ pending' = FALSE /\ UNCHANGED calls
       ELSE worker' = "waiting" /\ calls' = Append(calls, "publish") /\ UNCHANGED pending
    /\ UNCHANGED <<status, task, result, closed, registered, listener, out, viewer, asks>>

Resumes ==
    /\ worker = "waiting" /\ ~pending /\ worker' = "inside"
    /\ UNCHANGED <<status, task, result, closed, registered, listener, pending, calls, out, viewer, asks>>

Publishable == ~closed /\ status \notin Terminal \cup {"stopping"}

\* publish(), on the loop.
Publish ==
    /\ calls # <<>> /\ Head(calls) = "publish" /\ calls' = Tail(calls)
    /\ IF Publishable THEN status' = "waiting" /\ out' = Append(out, "request") ELSE UNCHANGED <<status, out>>
    /\ UNCHANGED <<task, worker, result, closed, registered, listener, pending, viewer, asks>>

\* forget(), posted by a close from another thread.
Forget ==
    /\ calls # <<>> /\ Head(calls) = "forget" /\ calls' = Tail(calls) /\ registered' = FALSE
    /\ UNCHANGED <<status, task, worker, result, closed, listener, pending, out, viewer, asks>>

-----------------------------------------------------------------------------
(* The turn                                                                *)

\* The handler claims the run, makes the bridge and creates the task.
Launch ==
    /\ task = "none" /\ task' = "queued" /\ status' = "queued" /\ registered' = TRUE
    /\ UNCHANGED <<worker, result, closed, listener, pending, calls, out, viewer, asks>>

\* The task announces the run and hands the agent to the executor.
TaskStarts ==
    /\ task = "queued" /\ task' = "running" /\ status' = "running" /\ worker' = "pooled"
    /\ out' = Append(out, "started")
    /\ UNCHANGED <<result, closed, registered, listener, pending, calls, viewer, asks>>

\* The agent's turn ends in one way or another.
WorkerEnds(r) ==
    /\ worker = "inside" /\ worker' = "leaving" /\ result' = r
    /\ UNCHANGED <<status, task, closed, registered, listener, pending, calls, out, viewer, asks>>

\* The worker's finally closes the bridge; its future resolves after.
WorkerLeaves ==
    /\ worker = "leaving" /\ worker' = "over" /\ Closes /\ calls' = calls \o <<"forget", "result">>
    /\ UNCHANGED <<status, task, result, registered, out, viewer, asks>>

\* The last events of a task that ends with r: the outcome, then done.
LastEvents(r) ==
    out \o (CASE r \in Terminal -> <<"assistant", "terminal">>
              [] r = "raised" -> <<"error">>
              [] r = "refused" -> <<>>) \o <<"done">>

\* Outcome, status, then the finally of the task.
TaskEnds(r) ==
    /\ status' = (CASE r = "raised" -> "failed" [] r = "refused" -> "cancelled" [] OTHER -> r)
    /\ out' = LastEvents(r) /\ task' = "ended"

TaskResult ==
    /\ calls # <<>> /\ Head(calls) = "result"
    /\ IF task = "running" THEN TaskEnds(result) /\ Closes /\ registered' = FALSE
       ELSE UNCHANGED <<status, out, task, closed, registered, listener, pending>>
    /\ calls' = Tail(calls)
    /\ UNCHANGED <<worker, result, viewer, asks>>

\* The task is cancelled while it awaits the worker, which runs on.
TaskCancelled ==
    /\ task = "running" /\ worker # "over" /\ TaskEnds("refused") /\ CloseOnLoop
    /\ UNCHANGED <<worker, result, viewer, asks>>

-----------------------------------------------------------------------------
(* The others: client, stop, shutdown, unload                              *)

\* The answer to an approval; the event wrapper mirrors it to the viewer.
Answer ==
    /\ pending /\ worker = "waiting" /\ status = "waiting" /\ pending' = FALSE /\ status' = "running"
    /\ out' = IF registered /\ ~closed THEN Append(out, "responded") ELSE out
    /\ UNCHANGED <<task, worker, result, closed, registered, listener, calls, viewer, asks>>

\* The gateway's approval timeout.
Timeout ==
    /\ pending /\ worker = "waiting" /\ pending' = FALSE
    /\ UNCHANGED <<status, task, worker, result, closed, registered, listener, calls, out, viewer, asks>>

\* The stop handler, wrapped.
Stop ==
    /\ status \in {"queued", "running", "waiting"} /\ status' = "stopping"
    /\ IF registered THEN CloseOnLoop ELSE UNCHANGED <<closed, registered, listener, pending, calls>>
    /\ UNCHANGED <<task, worker, result, out, viewer, asks>>

\* The socket fails: drain, wrapped, then the handler's finally. Shutdown's
\* interrupt closes the bridge the same way.
Disconnect ==
    /\ viewer = "on" /\ task \in {"queued", "running"} /\ viewer' = "gone" /\ CloseOnLoop
    /\ UNCHANGED <<status, task, worker, result, out, asks>>

\* The unit is unloaded from a loader thread.
Unload ==
    /\ registered /\ ~closed /\ Closes /\ calls' = Append(calls, "forget")
    /\ UNCHANGED <<status, task, worker, result, registered, out, viewer, asks>>

Done == task = "ended" /\ worker \in {"none", "over"} /\ calls = <<>> /\ UNCHANGED vars

\* The agent's call comes to an end.
Returns == \E r \in Terminal \cup {"raised"} : WorkerEnds(r)

Next ==
    \/ Launch \/ TaskStarts \/ TaskResult \/ TaskCancelled
    \/ Enter \/ Ask \/ Notify \/ Resumes \/ WorkerLeaves
    \/ Returns
    \/ Publish \/ Forget \/ Answer \/ Timeout \/ Stop \/ Disconnect \/ Unload \/ Done

Spec == Init /\ [][Next]_vars

\* Threads and the loop run on, and the agent's own steps end; nobody has to
\* answer an approval and no timeout is counted on.
FairSpec ==
    /\ Spec /\ WF_vars(TaskStarts) /\ WF_vars(Enter) /\ WF_vars(Notify) /\ WF_vars(Resumes)
    /\ WF_vars(Publish) /\ WF_vars(Forget) /\ WF_vars(TaskResult) /\ WF_vars(WorkerLeaves)
    /\ WF_vars(Returns)

-----------------------------------------------------------------------------
\* A closed bridge holds nobody: no listener is left, and no worker waits for
\* an answer that can no longer come.
ClosedFrees == closed => ~listener /\ ~(worker = "waiting" /\ pending)

\* A turn that is over has left the tables: bridge, listener and approval.
OverIsClean ==
    task = "ended" => ~registered /\ ~listener /\ (worker \in {"none", "over"} => ~pending)

\* A terminal status is final: a late approval never overwrites it.
TerminalKept == status \in Terminal => status' = status

\* The viewer's stream starts with the run and ends with done: no approval or
\* answer is delivered past it.
DoneIsLast == \A i \in DOMAIN out : (out[i] = "started" <=> i = 1) /\ (out[i] = "done" => i = Len(out))

\* The three of them: whichever of worker, task, stop, disconnect and unload
\* closes the bridge, and in whatever order.
TurnsClose == ClosedFrees /\ OverIsClean /\ DoneIsLast
=============================================================================
