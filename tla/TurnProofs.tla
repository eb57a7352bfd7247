----------------------------- MODULE TurnProofs -----------------------------
(***************************************************************************)
(* Safety of a streamed turn (StreamTurn), of the steers that reach it     *)
(* while it runs (SteerInbox) and of what it asks of its user, approvals   *)
(* (ApprovalInbox) and forms (Clarify), for every value of the constants.  *)
(* cf is a record of a component's constants; the lemmas hold for any such *)
(* record, and the theorems for the records of all scenarios of MCTurn.    *)
(***************************************************************************)
EXTENDS MCTurn, FiniteSets, SequenceTheorems, FiniteSetTheorems, TLAPS

-----------------------------------------------------------------------------
(* StreamTurn.                                                             *)

\* Where the worker, the status and the bridge stand at each stage of the task.
StageFacts(cf) ==
    /\ shut => ~listener /\ ~pending
    /\ task \in {"none", "queued"} => worker = "none"
    /\ task = "none" => turn = "none"
    /\ turn \in Stream(cf)!Terminal => task = "ended"
    /\ task = "ended" => shut /\ ~registered
    /\ worker = "over" => shut

\* What is still to run on the loop was posted by the worker in its time.
CallFacts ==
    \A i \in DOMAIN calls :
        /\ calls[i] = "publish" => worker # "none"
        /\ calls[i] = "result" => worker = "over"

\* What the viewer has seen at each stage of the task.
OutFacts ==
    /\ task \in {"none", "queued"} => out = <<>>
    /\ task \in {"running", "ended"} => out # <<>>
    /\ task = "running" => \A i \in DOMAIN out : out[i] # "done"

StreamInv(cf) == Stream(cf)!TypeOK /\ StageFacts(cf) /\ CallFacts /\ OutFacts /\ Stream(cf)!DoneIsLast

LEMMA StreamStarts ==
  ASSUME NEW cf, Stream(cf)!Shape, Stream(cf)!Init
  PROVE  StreamInv(cf)
  <1> USE DEF Stream!Shape, Stream!Init, Stream!Terminal
  <1>1. Stream(cf)!TypeOK
    <2>1. {shut, registered, listener, pending} \subseteq BOOLEAN OBVIOUS
    <2>2. calls \in Seq({"publish", "forget", "result"}) /\ out \in Seq(Stream(cf)!Events)
      OBVIOUS
    <2> QED BY <2>1, <2>2 DEF Stream!TypeOK
  <1>2. StageFacts(cf) /\ OutFacts BY DEF StageFacts, OutFacts
  <1>3. CallFacts /\ Stream(cf)!DoneIsLast BY DEF CallFacts, Stream!DoneIsLast
  <1> QED BY <1>1, <1>2, <1>3 DEF StreamInv

\* The next call on the loop is one of the calls, and the rest are too.
LEMMA NextCall ==
  ASSUME NEW cf, StreamInv(cf), calls # <<>>
  PROVE  /\ Head(calls) = "publish" => worker # "none"
         /\ Head(calls) = "result" => worker = "over"
         /\ Tail(calls) \in Seq({"publish", "forget", "result"})
         /\ \A i \in DOMAIN Tail(calls) : \E j \in DOMAIN calls : Tail(calls)[i] = calls[j]
  BY HeadTailProperties DEF StreamInv, CallFacts, Stream!TypeOK

\* One more call, or the two of a worker that leaves.
LEMMA PostedCall ==
  ASSUME NEW cf, StreamInv(cf), NEW c \in {"publish", "forget"}
  PROVE  /\ Append(calls, c) \in Seq({"publish", "forget", "result"})
         /\ \A i \in DOMAIN Append(calls, c) :
               Append(calls, c)[i] = c \/ \E j \in DOMAIN calls : Append(calls, c)[i] = calls[j]
  BY AppendProperties DEF StreamInv, Stream!TypeOK

LEMMA LastCalls ==
  ASSUME NEW cf, StreamInv(cf)
  PROVE  calls \o <<"forget", "result">> \in Seq({"publish", "forget", "result"})
  BY ConcatProperties DEF StreamInv, Stream!TypeOK

LEMMA StageKept ==
  ASSUME NEW cf, StreamInv(cf), [Stream(cf)!Next]_(Stream(cf)!vars)
  PROVE  StageFacts(cf)'
  <1> USE DEF StreamInv, Stream!TypeOK, StageFacts, Stream!Closes, Stream!CloseOnLoop
  <1>1. CASE Stream(cf)!Launch BY <1>1 DEF Stream!Launch, Stream!Terminal
  <1>2. CASE Stream(cf)!TaskStarts BY <1>2 DEF Stream!TaskStarts, Stream!Terminal
  <1>3. CASE Stream(cf)!TaskResult BY <1>3 DEF Stream!TaskResult, Stream!TaskEnds
  <1>4. CASE Stream(cf)!TaskCancelled BY <1>4 DEF Stream!TaskCancelled, Stream!TaskEnds
  <1>5. CASE Stream(cf)!Enter BY <1>5 DEF Stream!Enter, Stream!EnterRefused
  <1>6. CASE Stream(cf)!Ask BY <1>6 DEF Stream!Ask
  <1>7. CASE Stream(cf)!Notify BY <1>7 DEF Stream!Notify
  <1>8. CASE Stream(cf)!Resumes BY <1>8 DEF Stream!Resumes
  <1>9. CASE Stream(cf)!WorkerLeaves BY <1>9 DEF Stream!WorkerLeaves
  <1>10. CASE Stream(cf)!Returns BY <1>10 DEF Stream!Returns, Stream!WorkerEnds
  <1>11. CASE Stream(cf)!Publish
    BY <1>11, NextCall DEF Stream!Publish, Stream!Publishable, Stream!Terminal
  <1>12. CASE Stream(cf)!Forget BY <1>12 DEF Stream!Forget
  <1>13. CASE Stream(cf)!Answer BY <1>13 DEF Stream!Answer, Stream!Terminal
  <1>14. CASE Stream(cf)!Timeout BY <1>14 DEF Stream!Timeout
  <1>15. CASE Stream(cf)!Stop BY <1>15 DEF Stream!Stop, Stream!Terminal
  <1>16. CASE Stream(cf)!Disconnect BY <1>16 DEF Stream!Disconnect
  <1>17. CASE Stream(cf)!Unload BY <1>17 DEF Stream!Unload
  <1>18. CASE UNCHANGED Stream(cf)!vars BY <1>18 DEF Stream!vars
  <1> QED
    BY <1>1, <1>2, <1>3, <1>4, <1>5, <1>6, <1>7, <1>8, <1>9, <1>10, <1>11, <1>12, <1>13,
       <1>14, <1>15, <1>16, <1>17, <1>18
    DEF Stream!Next, Stream!Done

LEMMA CallsKept ==
  ASSUME NEW cf, StreamInv(cf), [Stream(cf)!Next]_(Stream(cf)!vars)
  PROVE  /\ calls' \in Seq({"publish", "forget", "result"})
         /\ CallFacts'
  <1>1. calls \in Seq({"publish", "forget", "result"}) /\ CallFacts /\ StageFacts(cf)
    BY DEF StreamInv, Stream!TypeOK
  <1>2. CASE calls # <<>> /\ calls' = Tail(calls) /\ worker' = worker
    BY <1>1, <1>2, NextCall DEF CallFacts
  <1>3. CASE Stream(cf)!Notify
    BY <1>1, <1>3, PostedCall DEF Stream!Notify, CallFacts
  <1>4. CASE Stream(cf)!Unload
    BY <1>1, <1>4, PostedCall DEF Stream!Unload, CallFacts
  <1>5. CASE Stream(cf)!WorkerLeaves
    BY <1>1, <1>5, LastCalls DEF Stream!WorkerLeaves, CallFacts
  <1>6. CASE UNCHANGED calls /\ worker # "over" /\ worker' # "none"
    BY <1>1, <1>6 DEF CallFacts
  <1>7. CASE UNCHANGED <<calls, worker>> BY <1>1, <1>7 DEF CallFacts
  <1>8. \/ calls # <<>> /\ calls' = Tail(calls) /\ worker' = worker
        \/ Stream(cf)!Notify \/ Stream(cf)!Unload \/ Stream(cf)!WorkerLeaves
        \/ UNCHANGED calls /\ worker # "over" /\ worker' # "none"
        \/ UNCHANGED <<calls, worker>>
    BY <1>1
    DEF Stream!Next, Stream!vars, Stream!Launch, Stream!TaskStarts, Stream!TaskResult,
        Stream!TaskCancelled, Stream!Enter, Stream!Ask, Stream!Resumes, Stream!Returns,
        Stream!WorkerEnds, Stream!Publish, Stream!Forget, Stream!Answer, Stream!Timeout,
        Stream!Stop, Stream!Disconnect, Stream!Done, Stream!CloseOnLoop, StageFacts
  <1> QED BY <1>2, <1>3, <1>4, <1>5, <1>6, <1>7, <1>8

\* The tail of a stream: what a task that ends adds to it.
LEMMA LastOut ==
  ASSUME NEW cf,
         StreamInv(cf), task = "running", NEW r \in {"raised", "refused"} \cup Stream(cf)!Terminal,
         out' = Stream(cf)!LastEvents(r)
  PROVE  /\ out' \in Seq(Stream(cf)!Events) /\ out' # <<>>
         /\ Stream(cf)!DoneIsLast'
  <1> DEFINE mid == CASE r \in Stream(cf)!Terminal -> <<"assistant", "terminal">>
                      [] r = "raised" -> <<"error">>
                      [] r = "refused" -> <<>>
  <1>1. mid = <<"assistant", "terminal">> \/ mid = <<"error">> \/ mid = <<>>
    BY DEF Stream!Terminal
  <1>2. mid \in Seq(Stream(cf)!Events) /\ Len(mid) \in Nat
        /\ \A i \in 1..Len(mid) : mid[i] \in {"assistant", "terminal", "error"}
    <2>1. CASE mid = <<"assistant", "terminal">>
      <3>1. Len(mid) = 2 /\ mid[1] = "assistant" /\ mid[2] = "terminal" BY <2>1
      <3>2. "assistant" \in Stream(cf)!Events /\ "terminal" \in Stream(cf)!Events
        BY DEF Stream!Events
      <3>3. <<"assistant", "terminal">> \in Seq(Stream(cf)!Events) BY <3>2
      <3>4. mid \in Seq(Stream(cf)!Events) BY <2>1, <3>3
      <3> QED BY <3>1, <3>4
    <2>2. CASE mid = <<"error">> BY <2>2 DEF Stream!Events
    <2>3. CASE mid = <<>> BY <2>3 DEF Stream!Events
    <2> QED BY <1>1, <2>1, <2>2, <2>3
  <1>3. out' = (out \o mid) \o <<"done">> BY DEF Stream!LastEvents
  <1> HIDE DEF mid
  <1>4. /\ out \in Seq(Stream(cf)!Events) /\ out # <<>> /\ Len(out) \in Nat \ {0}
        /\ \A i \in 1..Len(out) : out[i] # "done" /\ (out[i] = "started" <=> i = 1)
    BY EmptySeq, LenProperties DEF StreamInv, OutFacts, Stream!DoneIsLast, Stream!TypeOK
  <1>5. /\ out \o mid \in Seq(Stream(cf)!Events) /\ Len(out \o mid) = Len(out) + Len(mid)
        /\ \A i \in 1..(Len(out) + Len(mid)) :
              (out \o mid)[i] = IF i <= Len(out) THEN out[i] ELSE mid[i - Len(out)]
    BY <1>2, <1>4, ConcatProperties
  <1>6. <<"done">> \in Seq(Stream(cf)!Events) BY DEF Stream!Events
  <1>7. /\ out' \in Seq(Stream(cf)!Events) /\ Len(out') = Len(out) + Len(mid) + 1
        /\ \A i \in 1..(Len(out) + Len(mid) + 1) :
              out'[i] = IF i <= Len(out) + Len(mid) THEN (out \o mid)[i] ELSE "done"
    BY <1>2, <1>3, <1>4, <1>5, <1>6, ConcatProperties
  <1>8. DOMAIN out' = 1..(Len(out) + Len(mid) + 1) BY <1>7, LenProperties
  <1>9. \A i \in 1..(Len(out) + Len(mid)) :
           (out \o mid)[i] # "done" /\ ((out \o mid)[i] = "started" <=> i = 1)
    <2> SUFFICES ASSUME NEW i \in 1..(Len(out) + Len(mid))
                 PROVE  (out \o mid)[i] # "done" /\ ((out \o mid)[i] = "started" <=> i = 1)
      OBVIOUS
    <2>1. (out \o mid)[i] = IF i <= Len(out) THEN out[i] ELSE mid[i - Len(out)] BY <1>5
    <2>2. CASE i <= Len(out)
      BY <1>2, <1>4, <2>1, <2>2
    <2>3. CASE ~(i <= Len(out))
      BY <1>2, <1>4, <2>3, <2>1
    <2> QED BY <2>2, <2>3
  <1>10. Len(mid) \in Nat BY <1>2
  <1>11. Len(out') = Len(out) + Len(mid) + 1 /\ out'[Len(out')] = "done" BY <1>4, <1>7, <1>10
  <1>12. \A i \in 1..(Len(out) + Len(mid)) : out'[i] = (out \o mid)[i] BY <1>4, <1>7, <1>10
  <1>13. \A i \in 1..Len(out') :
            (out'[i] = "started" <=> i = 1) /\ (out'[i] = "done" => i = Len(out'))
    BY <1>4, <1>9, <1>10, <1>11, <1>12
  <1>14. DOMAIN out' = 1..Len(out') BY <1>8, <1>11
  <1>15. Stream(cf)!DoneIsLast'
    <2> SUFFICES ASSUME NEW i \in DOMAIN out'
                 PROVE  (out'[i] = "started" <=> i = 1) /\ (out'[i] = "done" => i = Len(out'))
      BY DEF Stream!DoneIsLast
    <2>1. i \in 1..Len(out') BY <1>14
    <2> QED BY <1>13, <2>1, Zenon
  <1>16. out' # <<>>
    BY <1>4, <1>10, <1>11
  <1> QED BY <1>7, <1>15, <1>16

LEMMA OneMoreOut ==
  ASSUME NEW cf, StreamInv(cf), task = "running", NEW e \in {"request", "responded"},
         out' = Append(out, e)
  PROVE  /\ out' \in Seq(Stream(cf)!Events) /\ out' # <<>>
         /\ \A i \in DOMAIN out' : out'[i] # "done" /\ (out'[i] = "started" <=> i = 1)
  BY EmptySeq, LenProperties, AppendProperties DEF StreamInv, OutFacts, Stream!DoneIsLast,
     Stream!TypeOK, Stream!Events

LEMMA OutKept ==
  ASSUME NEW cf, StreamInv(cf), [Stream(cf)!Next]_(Stream(cf)!vars)
  PROVE  out' \in Seq(Stream(cf)!Events) /\ OutFacts' /\ Stream(cf)!DoneIsLast'
  <1>1. /\ out \in Seq(Stream(cf)!Events) /\ OutFacts /\ Stream(cf)!DoneIsLast
        /\ StageFacts(cf) /\ Stream(cf)!TypeOK
    BY DEF StreamInv, Stream!TypeOK
  <1>2. CASE UNCHANGED <<out, task>> BY <1>1, <1>2 DEF OutFacts, Stream!DoneIsLast
  <1>3. CASE Stream(cf)!Launch BY <1>1, <1>3 DEF Stream!Launch, OutFacts, Stream!DoneIsLast
  <1>4. CASE Stream(cf)!TaskStarts
    BY <1>1, <1>4, LenProperties DEF Stream!TaskStarts, OutFacts, Stream!Events, Stream!DoneIsLast
  <1>5. ASSUME NEW e \in {"request", "responded"}, out' = Append(out, e),
               task = "running", task' = task
        PROVE  out' \in Seq(Stream(cf)!Events) /\ OutFacts' /\ Stream(cf)!DoneIsLast'
    BY <1>5, OneMoreOut DEF OutFacts, Stream!DoneIsLast
  <1>6. CASE Stream(cf)!Publish
    BY <1>6, NextCall, <1>1, <1>2, <1>5 DEF Stream!Publish, Stream!Publishable, StageFacts,
       Stream!TypeOK
  <1>7. CASE Stream(cf)!Answer
    BY <1>1, <1>7, <1>2, <1>5 DEF Stream!Answer, StageFacts, Stream!TypeOK
  <1>8. ASSUME NEW r \in {"raised", "refused"} \cup Stream(cf)!Terminal, Stream(cf)!TaskEnds(r),
               task = "running"
        PROVE  out' \in Seq(Stream(cf)!Events) /\ OutFacts' /\ Stream(cf)!DoneIsLast'
    BY <1>8, LastOut DEF Stream!TaskEnds, OutFacts
  <1>9. CASE Stream(cf)!TaskResult
    BY <1>9, NextCall, <1>1, <1>2, <1>8 DEF Stream!TaskResult, Stream!TypeOK
  <1>10. CASE Stream(cf)!TaskCancelled BY <1>8, <1>10 DEF Stream!TaskCancelled
  <1> QED
    BY <1>2, <1>3, <1>4, <1>6, <1>7, <1>9, <1>10
    DEF Stream!Next, Stream!vars, Stream!Enter, Stream!Ask, Stream!Notify, Stream!Resumes,
        Stream!WorkerLeaves, Stream!Returns, Stream!WorkerEnds, Stream!Forget,
        Stream!Timeout, Stream!Stop, Stream!Disconnect, Stream!Unload, Stream!Done

LEMMA StreamTyped ==
  ASSUME NEW cf, Stream(cf)!Shape, StreamInv(cf), [Stream(cf)!Next]_(Stream(cf)!vars)
  PROVE  Stream(cf)!TypeOK'
  <1>1. calls' \in Seq({"publish", "forget", "result"}) BY CallsKept
  <1>2. out' \in Seq(Stream(cf)!Events) BY OutKept
  <1>3. StageFacts(cf) /\ Stream(cf)!TypeOK BY DEF StreamInv
  <1>4. /\ turn' \in {"none", "queued", "running", "waiting", "stopping"} \cup Stream(cf)!Terminal
        /\ task' \in {"none", "queued", "running", "ended"}
        /\ worker' \in {"none", "pooled", "inside", "asked", "waiting", "leaving", "over"}
        /\ result' \in {"none", "raised", "refused"} \cup Stream(cf)!Terminal
        /\ result' = "none" <=> worker' \notin {"leaving", "over"}
        /\ {shut', registered', listener', pending'} \subseteq BOOLEAN
        /\ viewer' \in {"on", "gone"} /\ asks' \in 0..cf.MaxAsks
    <2> USE <1>3 DEF Stream!TypeOK, Stream!Shape, StageFacts, Stream!Closes,
                     Stream!CloseOnLoop, Stream!Terminal
    <2>1. CASE Stream(cf)!Launch BY <2>1 DEF Stream!Launch
    <2>2. CASE Stream(cf)!TaskStarts BY <2>2 DEF Stream!TaskStarts
    <2>3. CASE Stream(cf)!TaskResult
      BY <2>3, NextCall DEF Stream!TaskResult, Stream!TaskEnds
    <2>4. CASE Stream(cf)!TaskCancelled BY <2>4 DEF Stream!TaskCancelled, Stream!TaskEnds
    <2>5. CASE Stream(cf)!Enter BY <2>5 DEF Stream!Enter, Stream!EnterRefused
    <2>6. CASE Stream(cf)!Ask BY <2>6 DEF Stream!Ask
    <2>7. CASE Stream(cf)!Notify BY <2>7 DEF Stream!Notify
    <2>8. CASE Stream(cf)!Resumes BY <2>8 DEF Stream!Resumes
    <2>9. CASE Stream(cf)!WorkerLeaves BY <2>9 DEF Stream!WorkerLeaves
    <2>10. CASE Stream(cf)!Returns BY <2>10 DEF Stream!Returns, Stream!WorkerEnds
    <2>11. CASE Stream(cf)!Publish BY <2>11 DEF Stream!Publish
    <2>12. CASE Stream(cf)!Forget BY <2>12 DEF Stream!Forget
    <2>13. CASE Stream(cf)!Answer BY <2>13 DEF Stream!Answer
    <2>14. CASE Stream(cf)!Timeout BY <2>14 DEF Stream!Timeout
    <2>15. CASE Stream(cf)!Stop BY <2>15 DEF Stream!Stop
    <2>16. CASE Stream(cf)!Disconnect BY <2>16 DEF Stream!Disconnect
    <2>17. CASE Stream(cf)!Unload BY <2>17 DEF Stream!Unload
    <2>18. CASE UNCHANGED Stream(cf)!vars BY <2>18 DEF Stream!vars
    <2> QED
      BY <2>1, <2>2, <2>3, <2>4, <2>5, <2>6, <2>7, <2>8, <2>9, <2>10, <2>11, <2>12, <2>13,
         <2>14, <2>15, <2>16, <2>17, <2>18
      DEF Stream!Next, Stream!Done
  <1> QED BY <1>1, <1>2, <1>4 DEF Stream!TypeOK

LEMMA StreamInductive ==
  ASSUME NEW cf, Stream(cf)!Shape, StreamInv(cf), [Stream(cf)!Next]_(Stream(cf)!vars)
  PROVE  StreamInv(cf)'
  BY StreamTyped, StageKept, CallsKept, OutKept DEF StreamInv

LEMMA StreamImplies ==
  ASSUME NEW cf, StreamInv(cf)
  PROVE  Stream(cf)!TypeOK /\ Stream(cf)!TurnsClose
  BY DEF StreamInv, StageFacts, Stream!ClosedFrees, Stream!OverIsClean, Stream!TurnsClose

LEMMA TerminalStays ==
  ASSUME NEW cf, StreamInv(cf), [Stream(cf)!Next]_(Stream(cf)!vars)
  PROVE  Stream(cf)!TerminalKept
  <1> SUFFICES ASSUME turn \in Stream(cf)!Terminal PROVE turn' = turn
    BY DEF Stream!TerminalKept
  <1>1. task = "ended" BY DEF StreamInv, StageFacts
  <1> QED
    BY <1>1
    DEF Stream!Next, Stream!Launch, Stream!TaskStarts, Stream!TaskResult,
        Stream!TaskCancelled, Stream!Enter, Stream!Ask, Stream!Notify, Stream!Resumes,
        Stream!WorkerLeaves, Stream!Returns, Stream!WorkerEnds, Stream!Publish,
        Stream!Publishable, Stream!Forget, Stream!Answer, Stream!Timeout, Stream!Stop,
        Stream!Disconnect, Stream!Unload, Stream!Done, Stream!vars, Stream!Terminal

-----------------------------------------------------------------------------
(* SteerInbox.                                                             *)

\* What a steer's row says of the batch that carried it: a row names the one
\* batch the steer was injected with, and only a purged steer has none left.
Carried(cf, x) ==
    /\ x \in purged => steer[x] = Inbox(cf)!NoSteer
    /\ steer[x].state = "none" => steer[x] = Inbox(cf)!NoSteer
    /\ injected[x] = {} \/ \E b \in cf.Batches : injected[x] = {b}
    /\ x \notin purged =>
          injected[x] = IF steer[x].batch = Inbox(cf)!NoBatch THEN {} ELSE {steer[x].batch}
    /\ steer[x].batch # Inbox(cf)!NoBatch =>
          steer[x].state \in {"staged", "delivered", "outcome_unknown"}
    /\ steer[x].state \in {"staged", "delivered"} => steer[x].batch # Inbox(cf)!NoBatch
    /\ x[1] \in cf.AuthorityRuns =>
          /\ injected[x] = {} /\ steer[x].batch = Inbox(cf)!NoBatch
          /\ steer[x].state \in {"none", "outcome_unknown"}
CarriedFacts(cf) == \A x \in Inbox(cf)!Steers : Carried(cf, x)

\* Evidence of a delivery: a committed row.
FlushedFacts(cf) == \A r \in cf.Runs : flushed[r] \subseteq history
SettleFacts(cf) ==
    recovery.pc = "settle" =>
        recovery.batch \in cf.Batches /\ (recovery.evidence => recovery.batch \in history)
EvidenceFacts(cf) == FlushedFacts(cf) /\ SettleFacts(cf)
DeliveredFacts(cf) ==
    \A x \in Inbox(cf)!Steers : steer[x].state = "delivered" =>
        /\ steer[x].batch \in history
        /\ batch[steer[x].batch] \in {"delivered", "none"}

\* Numbers are handed out in order, and what waits is younger than what went.
OrderFacts(cf) ==
    /\ \A x \in Inbox(cf)!Steers : steer[x] # Inbox(cf)!NoSteer => steer[x].seq < nextSeq[x[1]]
    /\ \A x, y \in Inbox(cf)!Steers :
          x[1] = y[1] /\ steer[x].state = "accepted" /\ injected[y] # {}
             /\ steer[y] # Inbox(cf)!NoSteer => steer[y].seq < steer[x].seq

\* Where a lost receipt is out of the question, the core took what has a row.
HandedFacts(cf) ==
    ~cf.RecordMayFail =>
        \A x \in Inbox(cf)!Steers : handed[x] = 0 \/ (handed[x] = 1 /\ (steer[x] # Inbox(cf)!NoSteer \/ x \in purged))

\* The queue of a run is finite and within the limit.
Queue(cf, r) == Inbox(cf)!In(r, Inbox(cf)!Outstanding)
QueueFacts(cf) ==
    \A r \in cf.Runs : IsFiniteSet(Queue(cf, r)) /\ Cardinality(Queue(cf, r)) <= cf.OUTSTANDING_LIMIT

\* A run whose status is final and whose seal is done has nothing accepted.
StrandedFacts(cf) ==
    \A x \in Inbox(cf)!Steers :
        status[x[1]] \in Inbox(cf)!Ended /\ x[1] \notin sealing => steer[x].state # "accepted"

SteerInv(cf) ==
    /\ Inbox(cf)!TypeOK /\ CarriedFacts(cf) /\ EvidenceFacts(cf) /\ DeliveredFacts(cf) /\ OrderFacts(cf)
    /\ HandedFacts(cf) /\ QueueFacts(cf) /\ StrandedFacts(cf)

LEMMA RowsAre ==
  ASSUME NEW cf
  PROVE  /\ Inbox(cf)!NoSteer \in Inbox(cf)!SteerRow
         /\ Inbox(cf)!NoSteer.state = "none" /\ Inbox(cf)!NoSteer.batch = Inbox(cf)!NoBatch
  BY DEF Inbox!NoSteer, Inbox!SteerRow, Inbox!States

\* The instance counts as FiniteSets does.
LEMMA Counts ==
  ASSUME NEW cf
  PROVE  \A S : Inbox(cf)!Cardinality(S) = Cardinality(S)
  BY DEF Inbox!Cardinality, Cardinality, Inbox!IsFiniteSet, IsFiniteSet

LEMMA RunOf ==
  ASSUME NEW cf
  PROVE  \A x \in Inbox(cf)!Steers : x[1] \in cf.Runs BY DEF Inbox!Steers

\* What each operation of the store does to the rows.
LEMMA SealedRows ==
  ASSUME NEW cf,
         steer \in [Inbox(cf)!Steers -> Inbox(cf)!SteerRow], NEW R, Inbox(cf)!SealRun(R)
  PROVE  /\ steer' \in [Inbox(cf)!Steers -> Inbox(cf)!SteerRow]
         /\ closed' = closed \cup R
         /\ \A x \in Inbox(cf)!Steers :
               IF x[1] \in R /\ steer[x].state = "accepted"
               THEN /\ steer'[x].state = "not_delivered"
                    /\ steer'[x].seq = steer[x].seq /\ steer'[x].batch = steer[x].batch
               ELSE steer'[x] = steer[x]
  BY DEF Inbox!SealRun, Inbox!SteerRow, Inbox!States

LEMMA ClaimedRows ==
  ASSUME NEW cf,
         steer \in [Inbox(cf)!Steers -> Inbox(cf)!SteerRow], NEW r \in cf.Runs, NEW b \in cf.Batches,
         Inbox(cf)!ClaimBatch(r, b)
  PROVE  /\ steer' \in [Inbox(cf)!Steers -> Inbox(cf)!SteerRow]
         /\ \A x \in Inbox(cf)!Steers :
               IF x \in Inbox(cf)!Claimable(r)
               THEN /\ steer'[x].state = "staged"
                    /\ steer'[x].seq = steer[x].seq /\ steer'[x].batch = b
               ELSE steer'[x] = steer[x]
  BY DEF Inbox!ClaimBatch, Inbox!SteerRow, Inbox!States

LEMMA ResolvedRows ==
  ASSUME NEW cf, Inbox(cf)!Shape, steer \in [Inbox(cf)!Steers -> Inbox(cf)!SteerRow],
         batch \in [cf.Batches -> {"none", "staged", "delivered", "outcome_unknown"}],
         NEW b \in cf.Batches, NEW s \in {"delivered", "outcome_unknown"}, Inbox(cf)!Resolve(b, s)
  PROVE  /\ steer' \in [Inbox(cf)!Steers -> Inbox(cf)!SteerRow]
         /\ batch' \in [cf.Batches -> {"none", "staged", "delivered", "outcome_unknown"}]
         /\ \/ UNCHANGED <<batch, steer>>
            \/ /\ batch[b] \notin {"none", "delivered"} /\ batch' = [batch EXCEPT ![b] = s]
               /\ \A x \in Inbox(cf)!Steers :
                     IF steer[x].batch = b
                     THEN /\ steer'[x].state = s
                          /\ steer'[x].seq = steer[x].seq /\ steer'[x].batch = b
                     ELSE steer'[x] = steer[x]
  <1>1. CASE UNCHANGED <<batch, steer>> BY <1>1
  <1>2. CASE /\ batch[b] \notin {"none", "delivered"} /\ batch' = [batch EXCEPT ![b] = s]
             /\ steer' = [x \in Inbox(cf)!Steers |->
                            IF steer[x].batch = b
                            THEN [steer[x] EXCEPT !.state = s] ELSE steer[x]]
    BY <1>2 DEF Inbox!SteerRow, Inbox!States
  <1> QED BY <1>1, <1>2 DEF Inbox!Resolve

LEMMA AddedRow ==
  ASSUME NEW cf,
         steer \in [Inbox(cf)!Steers -> Inbox(cf)!SteerRow], nextSeq \in [cf.Runs -> Nat],
         NEW x \in Inbox(cf)!Steers, NEW s \in {"accepted", "outcome_unknown"},
         steer' = [steer EXCEPT ![x] = Inbox(cf)!NewSteer(x, s)],
         nextSeq' = [nextSeq EXCEPT ![x[1]] = nextSeq[x[1]] + 1]
  PROVE  /\ steer' \in [Inbox(cf)!Steers -> Inbox(cf)!SteerRow] /\ nextSeq' \in [cf.Runs -> Nat]
         /\ steer'[x].state = s /\ steer'[x].seq = nextSeq[x[1]]
         /\ steer'[x].batch = Inbox(cf)!NoBatch
         /\ \A y \in Inbox(cf)!Steers : y # x => steer'[y] = steer[y]
         /\ \A r \in cf.Runs : nextSeq'[r] = IF r = x[1] THEN nextSeq[r] + 1 ELSE nextSeq[r]
  <1>1. x[1] \in cf.Runs BY RunOf
  <1> QED BY <1>1 DEF Inbox!NewSteer, Inbox!SteerRow, Inbox!States

\* A post in progress names a steer; one that is not there names nothing.
LEMMA Posted ==
  ASSUME NEW cf,
         request \in [cf.Requests -> [pc : {"body"}, steer : Inbox(cf)!Steers, seen : {"running", "other"}]
                                  \cup {Inbox(cf)!NoRequest}],
         NEW q \in cf.Requests, request[q] # Inbox(cf)!NoRequest
  PROVE  request[q].steer \in Inbox(cf)!Steers
  BY DEF Inbox!NoRequest

\* What prune_expired leaves.
Gone(cf) == {x \in Inbox(cf)!Steers : x[1] \in aged /\ steer[x] # Inbox(cf)!NoSteer}

LEMMA PrunedRows ==
  ASSUME NEW cf, steer \in [Inbox(cf)!Steers -> Inbox(cf)!SteerRow],
         batch \in [cf.Batches -> {"none", "staged", "delivered", "outcome_unknown"}],
         Inbox(cf)!RecoverPrunes
  PROVE  /\ steer' \in [Inbox(cf)!Steers -> Inbox(cf)!SteerRow]
         /\ batch' \in [cf.Batches -> {"none", "staged", "delivered", "outcome_unknown"}]
         /\ purged' = purged \cup Gone(cf)
         /\ \A b \in cf.Batches : batch'[b] \in {batch[b], "none"}
         /\ \A x \in Inbox(cf)!Steers :
               steer'[x] = IF x \in Gone(cf) THEN Inbox(cf)!NoSteer ELSE steer[x]
  BY RowsAre DEF Inbox!RecoverPrunes, Gone

-----------------------------------------------------------------------------
(* The store changes in six ways; everything else leaves it alone.         *)

StillStep == UNCHANGED <<closed, nextSeq, steer, batch, purged, injected, handed>>

SealStep(cf, R) ==
    /\ closed' = closed \cup R
    /\ \A x \in Inbox(cf)!Steers :
          IF x[1] \in R /\ steer[x].state = "accepted"
          THEN /\ steer'[x].state = "not_delivered"
               /\ steer'[x].seq = steer[x].seq /\ steer'[x].batch = steer[x].batch
          ELSE steer'[x] = steer[x]
    /\ UNCHANGED <<nextSeq, batch, purged, injected, handed>>

ClaimStep(cf, r, b) ==
    /\ r \notin closed /\ batch[b] = "none" /\ \A x \in Inbox(cf)!Steers : b \notin injected[x]
    /\ batch' = [batch EXCEPT ![b] = "staged"]
    /\ \A x \in Inbox(cf)!Steers :
          IF x[1] = r /\ steer[x].state = "accepted"
          THEN /\ steer'[x].state = "staged" /\ steer'[x].batch = b
               /\ steer'[x].seq = steer[x].seq /\ injected'[x] = injected[x] \cup {b}
          ELSE steer'[x] = steer[x] /\ injected'[x] = injected[x]
    /\ UNCHANGED <<closed, nextSeq, purged, handed>>

ResolveStep(cf, b, s) ==
    /\ s = "delivered" => b \in history
    /\ batch[b] \notin {"none", "delivered"} /\ batch' = [batch EXCEPT ![b] = s]
    /\ \A x \in Inbox(cf)!Steers :
          IF steer[x].batch = b
          THEN /\ steer'[x].state = s
               /\ steer'[x].seq = steer[x].seq /\ steer'[x].batch = b
          ELSE steer'[x] = steer[x]
    /\ UNCHANGED <<closed, nextSeq, purged, injected, handed>>

AddStep(cf, x, s) ==
    /\ steer[x] = Inbox(cf)!NoSteer /\ x \notin purged /\ x[1] \notin closed
    /\ IF s = "accepted"
       THEN /\ x[1] \notin cf.AuthorityRuns /\ status[x[1]] \notin Inbox(cf)!Ended
            /\ Cardinality(Inbox(cf)!In(x[1], Inbox(cf)!Outstanding)) < cf.OUTSTANDING_LIMIT
            /\ handed' = handed
       ELSE x[1] \in cf.AuthorityRuns /\ handed' = [handed EXCEPT ![x] = handed[x] + 1]
    /\ steer'[x].state = s /\ steer'[x].seq = nextSeq[x[1]]
    /\ steer'[x].batch = Inbox(cf)!NoBatch
    /\ \A y \in Inbox(cf)!Steers : y # x => steer'[y] = steer[y]
    /\ \A r \in cf.Runs : nextSeq'[r] = IF r = x[1] THEN nextSeq[r] + 1 ELSE nextSeq[r]
    /\ UNCHANGED <<closed, batch, purged, injected>>

LostStep(cf, x) ==
    /\ cf.RecordMayFail /\ handed' = [handed EXCEPT ![x] = handed[x] + 1]
    /\ UNCHANGED <<closed, nextSeq, steer, batch, purged, injected>>

PruneStep(cf) ==
    /\ purged' = purged \cup Gone(cf)
    /\ \A b \in cf.Batches : batch'[b] \in {batch[b], "none"}
    /\ \A x \in Inbox(cf)!Steers : steer'[x] = IF x \in Gone(cf) THEN Inbox(cf)!NoSteer ELSE steer[x]
    /\ UNCHANGED <<closed, nextSeq, injected, handed>>

StoreStep(cf) ==
    \/ StillStep \/ PruneStep(cf)
    \/ \E R \in SUBSET cf.Runs : SealStep(cf, R)
    \/ \E r \in cf.Runs, b \in cf.Batches : ClaimStep(cf, r, b)
    \/ \E b \in cf.Batches, s \in {"delivered", "outcome_unknown"} : ResolveStep(cf, b, s)
    \/ \E x \in Inbox(cf)!Steers, s \in {"accepted", "outcome_unknown"} : AddStep(cf, x, s)
    \/ \E x \in Inbox(cf)!Steers : LostStep(cf, x)

\* Where recover() stands, by its program counter.
LEMMA Recovering ==
  ASSUME NEW cf, recovery \in [pc : {"seal"}, runs : SUBSET cf.Runs]
                      \cup [pc : {"scan"}, batches : SUBSET cf.Batches]
                      \cup [pc : {"settle"}, batches : SUBSET cf.Batches, batch : cf.Batches,
                            evidence : BOOLEAN]
                      \cup {Inbox(cf)!NoRecovery}
  PROVE  /\ recovery.pc = "seal" =>
               recovery \in [pc : {"seal"}, runs : SUBSET cf.Runs]
         /\ recovery.pc = "scan" => recovery.batches \in SUBSET cf.Batches
         /\ recovery.pc = "settle" => /\ recovery.batches \in SUBSET cf.Batches
                                      /\ recovery.batch \in cf.Batches
                                      /\ recovery.evidence \in BOOLEAN
  BY DEF Inbox!NoRecovery

LEMMA SteerTyped ==
  ASSUME NEW cf, Inbox(cf)!Shape, steer \in [Inbox(cf)!Steers -> Inbox(cf)!SteerRow],
         batch \in [cf.Batches -> {"none", "staged", "delivered", "outcome_unknown"}],
         nextSeq \in [cf.Runs -> Nat],
         request \in [cf.Requests -> [pc : {"body"}, steer : Inbox(cf)!Steers, seen : {"running", "other"}]
                                \cup {Inbox(cf)!NoRequest}],
         recovery.pc = "settle" => recovery.batch \in cf.Batches, [Inbox(cf)!Next]_(Inbox(cf)!vars)
  PROVE  steer' \in [Inbox(cf)!Steers -> Inbox(cf)!SteerRow]
         /\ batch' \in [cf.Batches -> {"none", "staged", "delivered", "outcome_unknown"}]
         /\ nextSeq' \in [cf.Runs -> Nat]
  <1> USE DEF Inbox!store, Inbox!memory, Inbox!ghosts
  <1>1. CASE UNCHANGED <<steer, batch, nextSeq>>
    BY <1>1
  <1>2. ASSUME NEW r \in cf.Runs, Inbox(cf)!Seal(r)
        PROVE  steer' \in [Inbox(cf)!Steers -> Inbox(cf)!SteerRow]
               /\ batch' \in [cf.Batches -> {"none", "staged", "delivered", "outcome_unknown"}]
               /\ nextSeq' \in [cf.Runs -> Nat]
    BY <1>2, SealedRows DEF Inbox!Seal
  <1>3. ASSUME NEW r \in cf.Runs, NEW b \in cf.Batches, Inbox(cf)!ToolBoundary(r, b)
        PROVE  steer' \in [Inbox(cf)!Steers -> Inbox(cf)!SteerRow]
               /\ batch' \in [cf.Batches -> {"none", "staged", "delivered", "outcome_unknown"}]
               /\ nextSeq' \in [cf.Runs -> Nat]
    BY <1>3, ClaimedRows DEF Inbox!ToolBoundary
  <1>4. ASSUME NEW r \in cf.Runs, NEW b \in cf.Batches, Inbox(cf)!ConfirmFlushed(r, b)
        PROVE  steer' \in [Inbox(cf)!Steers -> Inbox(cf)!SteerRow]
               /\ batch' \in [cf.Batches -> {"none", "staged", "delivered", "outcome_unknown"}]
               /\ nextSeq' \in [cf.Runs -> Nat]
    BY <1>4, ResolvedRows DEF Inbox!ConfirmFlushed
  <1>5. ASSUME NEW q \in cf.Requests, Inbox(cf)!Admit(q)
        PROVE  steer' \in [Inbox(cf)!Steers -> Inbox(cf)!SteerRow]
               /\ batch' \in [cf.Batches -> {"none", "staged", "delivered", "outcome_unknown"}]
               /\ nextSeq' \in [cf.Runs -> Nat]
    BY <1>5, AddedRow, Posted DEF Inbox!Admit
  <1>6. ASSUME NEW q \in cf.Requests, Inbox(cf)!HandOver(q)
        PROVE  steer' \in [Inbox(cf)!Steers -> Inbox(cf)!SteerRow]
               /\ batch' \in [cf.Batches -> {"none", "staged", "delivered", "outcome_unknown"}]
               /\ nextSeq' \in [cf.Runs -> Nat]
    BY <1>6, AddedRow, Posted DEF Inbox!HandOver
  <1>7. CASE Inbox(cf)!RecoverSeals BY <1>7, SealedRows DEF Inbox!RecoverSeals
  <1>8. CASE Inbox(cf)!RecoverSettles BY <1>8, ResolvedRows DEF Inbox!RecoverSettles
  <1>9. CASE Inbox(cf)!RecoverPrunes BY <1>9, PrunedRows DEF Inbox!RecoverPrunes
  <1> QED
    BY <1>1, <1>2, <1>3, <1>4, <1>5, <1>6, <1>7, <1>8, <1>9
    DEF Inbox!vars, Inbox!Next, Inbox!RunQueued, Inbox!AgentBinds, Inbox!AgentLeaves,
        Inbox!StatusEvicted, Inbox!StatusSet, Inbox!Flush, Inbox!RunAges, Inbox!PostArrives,
        Inbox!Crash, Inbox!HotReload, Inbox!RecoverScans, Inbox!store, Inbox!memory,
        Inbox!ghosts

LEMMA RunsTyped ==
  ASSUME NEW cf, Inbox(cf)!Shape, Inbox(cf)!TypeOK, [Inbox(cf)!Next]_(Inbox(cf)!vars)
  PROVE  /\ status' \in [cf.Runs -> {"none", "queued", "running", "stopping", "terminal"}]
         /\ agent' \in [cf.Runs -> {"none", "bound", "gone"}]
         /\ sealing' \subseteq cf.Runs
  <1> USE DEF Inbox!store, Inbox!memory, Inbox!ghosts, Inbox!TypeOK, Inbox!Ended
  <1>1. CASE UNCHANGED <<status, agent, sealing>>
    BY <1>1
  <1>2. ASSUME NEW r \in cf.Runs, Inbox(cf)!RunQueued(r)
        PROVE  /\ status' \in [cf.Runs -> {"none", "queued", "running", "stopping", "terminal"}]
               /\ agent' \in [cf.Runs -> {"none", "bound", "gone"}]
               /\ sealing' \subseteq cf.Runs
    BY <1>2 DEF Inbox!RunQueued
  <1>3. ASSUME NEW r \in cf.Runs, Inbox(cf)!AgentBinds(r)
        PROVE  /\ status' \in [cf.Runs -> {"none", "queued", "running", "stopping", "terminal"}]
               /\ agent' \in [cf.Runs -> {"none", "bound", "gone"}]
               /\ sealing' \subseteq cf.Runs
    BY <1>3 DEF Inbox!AgentBinds
  <1>4. ASSUME NEW r \in cf.Runs, Inbox(cf)!AgentLeaves(r)
        PROVE  /\ status' \in [cf.Runs -> {"none", "queued", "running", "stopping", "terminal"}]
               /\ agent' \in [cf.Runs -> {"none", "bound", "gone"}]
               /\ sealing' \subseteq cf.Runs
    BY <1>4 DEF Inbox!AgentLeaves
  <1>5. ASSUME NEW r \in cf.Runs, Inbox(cf)!StatusEvicted(r)
        PROVE  /\ status' \in [cf.Runs -> {"none", "queued", "running", "stopping", "terminal"}]
               /\ agent' \in [cf.Runs -> {"none", "bound", "gone"}]
               /\ sealing' \subseteq cf.Runs
    BY <1>5 DEF Inbox!StatusEvicted
  <1>6. ASSUME NEW r \in cf.Runs, NEW s \in Inbox(cf)!Ended, Inbox(cf)!StatusSet(r, s)
        PROVE  /\ status' \in [cf.Runs -> {"none", "queued", "running", "stopping", "terminal"}]
               /\ agent' \in [cf.Runs -> {"none", "bound", "gone"}]
               /\ sealing' \subseteq cf.Runs
    BY <1>6 DEF Inbox!StatusSet
  <1>7. ASSUME NEW r \in cf.Runs, Inbox(cf)!Seal(r)
        PROVE  /\ status' \in [cf.Runs -> {"none", "queued", "running", "stopping", "terminal"}]
               /\ agent' \in [cf.Runs -> {"none", "bound", "gone"}]
               /\ sealing' \subseteq cf.Runs
    BY <1>7 DEF Inbox!Seal
  <1>8. CASE Inbox(cf)!Crash BY <1>8 DEF Inbox!Crash
  <1> QED
    BY <1>1, <1>2, <1>3, <1>4, <1>5, <1>6, <1>7, <1>8
    DEF Inbox!vars, Inbox!Next, Inbox!Flush, Inbox!RunAges, Inbox!ToolBoundary,
        Inbox!ConfirmFlushed, Inbox!PostArrives, Inbox!Admit, Inbox!HandOver,
        Inbox!HotReload, Inbox!RecoverSeals, Inbox!RecoverSettles, Inbox!RecoverPrunes,
        Inbox!RecoverScans, Inbox!store, Inbox!memory, Inbox!ghosts

LEMMA SealsTyped ==
  ASSUME NEW cf, Inbox(cf)!Shape, Inbox(cf)!TypeOK, [Inbox(cf)!Next]_(Inbox(cf)!vars)
  PROVE  /\ closed' \subseteq cf.Runs /\ aged' \subseteq closed'
         /\ purged' \subseteq Inbox(cf)!Steers
         /\ restarts' \in Nat
  <1> USE DEF Inbox!store, Inbox!memory, Inbox!ghosts, Inbox!TypeOK, Inbox!SealRun
  <1>1. CASE UNCHANGED <<closed, aged, purged, restarts>>
    BY <1>1
  <1>2. ASSUME NEW r \in cf.Runs, Inbox(cf)!Seal(r)
        PROVE  /\ closed' \subseteq cf.Runs /\ aged' \subseteq closed'
               /\ purged' \subseteq Inbox(cf)!Steers
               /\ restarts' \in Nat
    BY <1>2 DEF Inbox!Seal
  <1>3. ASSUME NEW r \in cf.Runs, Inbox(cf)!RunAges(r)
        PROVE  /\ closed' \subseteq cf.Runs /\ aged' \subseteq closed'
               /\ purged' \subseteq Inbox(cf)!Steers
               /\ restarts' \in Nat
    BY <1>3 DEF Inbox!RunAges
  <1>4. CASE Inbox(cf)!Crash BY <1>4 DEF Inbox!Crash
  <1>5. CASE Inbox(cf)!HotReload BY <1>5 DEF Inbox!HotReload
  <1>6. CASE Inbox(cf)!RecoverSeals
    BY <1>6, Recovering DEF Inbox!RecoverSeals
  <1>7. CASE Inbox(cf)!RecoverPrunes BY <1>7 DEF Inbox!RecoverPrunes
  <1> QED
    BY <1>1, <1>2, <1>3, <1>4, <1>5, <1>6, <1>7
    DEF Inbox!vars, Inbox!Next, Inbox!RunQueued, Inbox!AgentBinds, Inbox!AgentLeaves,
        Inbox!StatusEvicted, Inbox!StatusSet, Inbox!Flush, Inbox!ToolBoundary,
        Inbox!ConfirmFlushed, Inbox!PostArrives, Inbox!Admit, Inbox!HandOver,
        Inbox!RecoverSettles, Inbox!RecoverScans, Inbox!store, Inbox!memory, Inbox!ghosts

LEMMA RowsTyped ==
  ASSUME NEW cf, Inbox(cf)!Shape, Inbox(cf)!TypeOK, [Inbox(cf)!Next]_(Inbox(cf)!vars)
  PROVE  /\ tail' \in [cf.Runs -> SUBSET cf.Batches] /\ flushed' \in [cf.Runs -> SUBSET cf.Batches]
         /\ history' \subseteq cf.Batches
         /\ injected' \in [Inbox(cf)!Steers -> SUBSET cf.Batches]
         /\ handed' \in [Inbox(cf)!Steers -> Nat]
  <1> USE DEF Inbox!store, Inbox!memory, Inbox!ghosts, Inbox!TypeOK
  <1>1. CASE UNCHANGED <<tail, flushed, history, injected, handed>>
    BY <1>1
  <1>2. ASSUME NEW r \in cf.Runs, Inbox(cf)!AgentLeaves(r)
        PROVE  /\ tail' \in [cf.Runs -> SUBSET cf.Batches] /\ flushed' \in [cf.Runs -> SUBSET cf.Batches]
               /\ history' \subseteq cf.Batches
               /\ injected' \in [Inbox(cf)!Steers -> SUBSET cf.Batches]
               /\ handed' \in [Inbox(cf)!Steers -> Nat]
    BY <1>2 DEF Inbox!AgentLeaves
  <1>3. ASSUME NEW r \in cf.Runs, Inbox(cf)!Flush(r)
        PROVE  /\ tail' \in [cf.Runs -> SUBSET cf.Batches] /\ flushed' \in [cf.Runs -> SUBSET cf.Batches]
               /\ history' \subseteq cf.Batches
               /\ injected' \in [Inbox(cf)!Steers -> SUBSET cf.Batches]
               /\ handed' \in [Inbox(cf)!Steers -> Nat]
    BY <1>3 DEF Inbox!Flush
  <1>4. ASSUME NEW r \in cf.Runs, NEW b \in cf.Batches, Inbox(cf)!ToolBoundary(r, b)
        PROVE  /\ tail' \in [cf.Runs -> SUBSET cf.Batches] /\ flushed' \in [cf.Runs -> SUBSET cf.Batches]
               /\ history' \subseteq cf.Batches
               /\ injected' \in [Inbox(cf)!Steers -> SUBSET cf.Batches]
               /\ handed' \in [Inbox(cf)!Steers -> Nat]
    BY <1>4 DEF Inbox!ToolBoundary
  <1>5. ASSUME NEW r \in cf.Runs, NEW b \in cf.Batches, Inbox(cf)!ConfirmFlushed(r, b)
        PROVE  /\ tail' \in [cf.Runs -> SUBSET cf.Batches] /\ flushed' \in [cf.Runs -> SUBSET cf.Batches]
               /\ history' \subseteq cf.Batches
               /\ injected' \in [Inbox(cf)!Steers -> SUBSET cf.Batches]
               /\ handed' \in [Inbox(cf)!Steers -> Nat]
    BY <1>5 DEF Inbox!ConfirmFlushed
  <1>6. ASSUME NEW q \in cf.Requests, Inbox(cf)!HandOver(q)
        PROVE  /\ tail' \in [cf.Runs -> SUBSET cf.Batches] /\ flushed' \in [cf.Runs -> SUBSET cf.Batches]
               /\ history' \subseteq cf.Batches
               /\ injected' \in [Inbox(cf)!Steers -> SUBSET cf.Batches]
               /\ handed' \in [Inbox(cf)!Steers -> Nat]
    BY <1>6 DEF Inbox!HandOver
  <1>7. CASE Inbox(cf)!Crash BY <1>7 DEF Inbox!Crash
  <1> QED
    BY <1>1, <1>2, <1>3, <1>4, <1>5, <1>6, <1>7
    DEF Inbox!vars, Inbox!Next, Inbox!RunQueued, Inbox!AgentBinds, Inbox!StatusEvicted,
        Inbox!StatusSet, Inbox!Seal, Inbox!RunAges, Inbox!PostArrives, Inbox!Admit,
        Inbox!HotReload, Inbox!RecoverSeals, Inbox!RecoverSettles, Inbox!RecoverPrunes,
        Inbox!RecoverScans, Inbox!store, Inbox!memory, Inbox!ghosts

LEMMA PostsTyped ==
  ASSUME NEW cf,
         request \in [cf.Requests -> [pc : {"body"}, steer : Inbox(cf)!Steers, seen : {"running", "other"}]
                                \cup {Inbox(cf)!NoRequest}],
         [Inbox(cf)!Next]_(Inbox(cf)!vars)
  PROVE  request' \in [cf.Requests -> [pc : {"body"}, steer : Inbox(cf)!Steers, seen : {"running", "other"}]
                                \cup {Inbox(cf)!NoRequest}]
  <1> USE DEF Inbox!store, Inbox!memory, Inbox!ghosts
  <1>1. CASE UNCHANGED request
    BY <1>1
  <1>2. ASSUME NEW q \in cf.Requests, NEW x \in Inbox(cf)!Steers, Inbox(cf)!PostArrives(q, x)
        PROVE  request' \in [cf.Requests -> [pc : {"body"}, steer : Inbox(cf)!Steers, seen : {"running", "other"}]
                                      \cup {Inbox(cf)!NoRequest}]
    BY <1>2 DEF Inbox!PostArrives
  <1>3. ASSUME NEW q \in cf.Requests, Inbox(cf)!Admit(q)
        PROVE  request' \in [cf.Requests -> [pc : {"body"}, steer : Inbox(cf)!Steers, seen : {"running", "other"}]
                                      \cup {Inbox(cf)!NoRequest}]
    BY <1>3 DEF Inbox!Admit
  <1>4. ASSUME NEW q \in cf.Requests, Inbox(cf)!HandOver(q)
        PROVE  request' \in [cf.Requests -> [pc : {"body"}, steer : Inbox(cf)!Steers, seen : {"running", "other"}]
                                      \cup {Inbox(cf)!NoRequest}]
    BY <1>4 DEF Inbox!HandOver
  <1>5. CASE Inbox(cf)!Crash BY <1>5 DEF Inbox!Crash
  <1> QED
    BY <1>1, <1>2, <1>3, <1>4, <1>5
    DEF Inbox!vars, Inbox!Next, Inbox!RunQueued, Inbox!AgentBinds, Inbox!AgentLeaves,
        Inbox!StatusEvicted, Inbox!StatusSet, Inbox!Seal, Inbox!Flush, Inbox!RunAges,
        Inbox!ToolBoundary, Inbox!ConfirmFlushed, Inbox!HotReload, Inbox!RecoverSeals,
        Inbox!RecoverSettles, Inbox!RecoverPrunes, Inbox!RecoverScans, Inbox!store,
        Inbox!memory, Inbox!ghosts

LEMMA RecoveryTyped ==
  ASSUME NEW cf, recovery \in [pc : {"seal"}, runs : SUBSET cf.Runs]
                         \cup [pc : {"scan"}, batches : SUBSET cf.Batches]
                         \cup [pc : {"settle"}, batches : SUBSET cf.Batches, batch : cf.Batches,
                               evidence : BOOLEAN]
                         \cup {Inbox(cf)!NoRecovery},
         [Inbox(cf)!Next]_(Inbox(cf)!vars)
  PROVE  recovery' \in [pc : {"seal"}, runs : SUBSET cf.Runs]
                         \cup [pc : {"scan"}, batches : SUBSET cf.Batches]
                         \cup [pc : {"settle"}, batches : SUBSET cf.Batches, batch : cf.Batches,
                               evidence : BOOLEAN]
                         \cup {Inbox(cf)!NoRecovery}
  <1> USE DEF Inbox!store, Inbox!memory, Inbox!ghosts, Inbox!NoRecovery
  <1>1. CASE UNCHANGED recovery
    BY <1>1
  <1>2. CASE Inbox(cf)!Crash BY <1>2 DEF Inbox!Crash, Inbox!Accepted
  <1>3. CASE Inbox(cf)!HotReload
    BY <1>3 DEF Inbox!HotReload, Inbox!Accepted
  <1>4. CASE Inbox(cf)!RecoverSeals
    <2>1. CASE recovery.runs = {}
      BY <1>4, <2>1 DEF Inbox!RecoverSeals, Inbox!StagedBatches
    <2>2. ASSUME NEW r \in recovery.runs, recovery' = [recovery EXCEPT !.runs = recovery.runs \ {r}]
          PROVE  recovery' \in [pc : {"seal"}, runs : SUBSET cf.Runs]
      BY <1>4, Recovering, <2>2 DEF Inbox!RecoverSeals
    <2> QED BY <1>4, <2>1, <2>2 DEF Inbox!RecoverSeals
  <1>5. CASE Inbox(cf)!RecoverSettles
    BY <1>5, Recovering DEF Inbox!RecoverSettles
  <1>6. CASE Inbox(cf)!RecoverPrunes BY <1>6 DEF Inbox!RecoverPrunes
  <1>7. ASSUME NEW b \in cf.Batches, Inbox(cf)!RecoverScans(b)
        PROVE  recovery' \in [pc : {"seal"}, runs : SUBSET cf.Runs]
                               \cup [pc : {"scan"}, batches : SUBSET cf.Batches]
                               \cup [pc : {"settle"}, batches : SUBSET cf.Batches, batch : cf.Batches,
                                     evidence : BOOLEAN]
                               \cup {Inbox(cf)!NoRecovery}
    <2>1. recovery.batches \in SUBSET cf.Batches BY <1>7, Recovering DEF Inbox!RecoverScans
    <2>2. ASSUME NEW e \in BOOLEAN,
                 recovery' = [pc |-> "settle", batches |-> recovery.batches \ {b},
                              batch |-> b, evidence |-> e]
          PROVE  recovery' \in [pc : {"settle"}, batches : SUBSET cf.Batches, batch : cf.Batches,
                                evidence : BOOLEAN]
      BY <2>1, <2>2
    <2>3. \E e \in BOOLEAN :
             recovery' = [pc |-> "settle", batches |-> recovery.batches \ {b},
                          batch |-> b, evidence |-> e]
      <3>1. (b \in history) \in BOOLEAN OBVIOUS
      <3>2. CASE recovery' = [pc |-> "settle", batches |-> recovery.batches \ {b},
                              batch |-> b, evidence |-> (b \in history)]
        BY <3>1, <3>2, Zenon
      <3>3. CASE recovery' = [pc |-> "settle", batches |-> recovery.batches \ {b},
                              batch |-> b, evidence |-> FALSE]
        BY <3>3
      <3> QED BY <1>7, <3>2, <3>3, Zenon DEF Inbox!RecoverScans
    <2> QED BY <2>2, <2>3
  <1> QED
    BY <1>1, <1>2, <1>3, <1>4, <1>5, <1>6, <1>7
    DEF Inbox!vars, Inbox!Next, Inbox!RunQueued, Inbox!AgentBinds, Inbox!AgentLeaves,
        Inbox!StatusEvicted, Inbox!StatusSet, Inbox!Seal, Inbox!Flush, Inbox!RunAges,
        Inbox!ToolBoundary, Inbox!ConfirmFlushed, Inbox!PostArrives, Inbox!Admit,
        Inbox!HandOver, Inbox!store, Inbox!memory, Inbox!ghosts

LEMMA StoreSteps ==
  ASSUME NEW cf, Inbox(cf)!Shape, steer \in [Inbox(cf)!Steers -> Inbox(cf)!SteerRow],
         batch \in [cf.Batches -> {"none", "staged", "delivered", "outcome_unknown"}],
         nextSeq \in [cf.Runs -> Nat],
         request \in [cf.Requests -> [pc : {"body"}, steer : Inbox(cf)!Steers, seen : {"running", "other"}]
                                \cup {Inbox(cf)!NoRequest}],
         EvidenceFacts(cf),
         recovery \in [pc : {"seal"}, runs : SUBSET cf.Runs]
                         \cup [pc : {"scan"}, batches : SUBSET cf.Batches]
                         \cup [pc : {"settle"}, batches : SUBSET cf.Batches, batch : cf.Batches,
                               evidence : BOOLEAN]
                         \cup {Inbox(cf)!NoRecovery},
         [Inbox(cf)!Next]_(Inbox(cf)!vars)
  PROVE  StoreStep(cf)
  <1> USE DEF Inbox!store, Inbox!memory, Inbox!ghosts
  <1>1. CASE UNCHANGED <<closed, nextSeq, steer, batch, purged, injected, handed>>
    BY <1>1 DEF StoreStep, StillStep
  <1>2. ASSUME NEW r \in cf.Runs, Inbox(cf)!Seal(r)
        PROVE  StoreStep(cf)
    <2>1. SealStep(cf, {r}) BY <1>2, SealedRows DEF Inbox!Seal, SealStep
    <2> QED BY <2>1 DEF StoreStep
  <1>3. ASSUME NEW r \in cf.Runs, NEW b \in cf.Batches, Inbox(cf)!ToolBoundary(r, b)
        PROVE  StoreStep(cf)
    <2>1. r \notin closed BY <1>3 DEF Inbox!ToolBoundary, Inbox!Claimable
    <2>2. \A x \in Inbox(cf)!Steers : x \in Inbox(cf)!Claimable(r) <=> x[1] = r /\ steer[x].state = "accepted"
      BY <2>1 DEF Inbox!Claimable, Inbox!In, Inbox!OfRun
    <2>3. \A x \in Inbox(cf)!Steers :
             injected'[x] = IF x \in Inbox(cf)!Claimable(r) THEN injected[x] \cup {b} ELSE injected[x]
      BY <1>3 DEF Inbox!ToolBoundary
    <2>4. \A x \in Inbox(cf)!Steers :
               IF x \in Inbox(cf)!Claimable(r)
               THEN /\ steer'[x].state = "staged"
                    /\ steer'[x].seq = steer[x].seq /\ steer'[x].batch = b
               ELSE steer'[x] = steer[x]
      BY <1>3, ClaimedRows DEF Inbox!ToolBoundary
    <2>5. ClaimStep(cf, r, b) BY <1>3, <2>1, <2>2, <2>3, <2>4 DEF Inbox!ToolBoundary, ClaimStep
    <2> QED BY <2>5 DEF StoreStep
  <1>4. ASSUME NEW r \in cf.Runs, NEW b \in cf.Batches, Inbox(cf)!ConfirmFlushed(r, b)
        PROVE  StoreStep(cf)
    <2>1. b \in history BY <1>4 DEF Inbox!ConfirmFlushed, EvidenceFacts, FlushedFacts
    <2>2. CASE UNCHANGED <<batch, steer>>
      BY <1>4, <2>2 DEF Inbox!ConfirmFlushed, StoreStep, StillStep
    <2>3. CASE Inbox(cf)!Resolve(b, "delivered") /\ ~UNCHANGED <<batch, steer>>
      BY <1>4, <2>1, <2>3, ResolvedRows DEF Inbox!ConfirmFlushed, ResolveStep, StoreStep
    <2> QED BY <1>4, <2>2, <2>3 DEF Inbox!ConfirmFlushed
  <1>5. ASSUME NEW q \in cf.Requests, Inbox(cf)!Admit(q)
        PROVE  StoreStep(cf)
    <2> DEFINE x == request[q].steer
    <2>1. x \in Inbox(cf)!Steers /\ x[1] \in cf.Runs BY <1>5, Posted, RunOf DEF Inbox!Admit
    <2>2. CASE ~(Inbox(cf)!Verdict(q) /\ Inbox(cf)!Admissible(x))
      BY <1>5, <2>2 DEF Inbox!Admit, StoreStep, StillStep
    <2>3. CASE Inbox(cf)!Verdict(q) /\ Inbox(cf)!Admissible(x)
      <3>1. /\ steer' = [steer EXCEPT ![x] = Inbox(cf)!NewSteer(x, "accepted")]
            /\ nextSeq' = [nextSeq EXCEPT ![x[1]] = nextSeq[x[1]] + 1]
            /\ x[1] \notin cf.AuthorityRuns
            /\ UNCHANGED <<closed, batch, purged, injected, handed>>
        BY <1>5, <2>3 DEF Inbox!Admit
      <3>2. status[x[1]] \notin Inbox(cf)!Ended BY <2>3 DEF Inbox!Verdict, Inbox!Ended
      <3> HIDE DEF x
      <3>3. /\ steer'[x].state = "accepted" /\ steer'[x].seq = nextSeq[x[1]]
            /\ steer'[x].batch = Inbox(cf)!NoBatch
            /\ \A y \in Inbox(cf)!Steers : y # x => steer'[y] = steer[y]
            /\ \A r \in cf.Runs : nextSeq'[r] = IF r = x[1] THEN nextSeq[r] + 1 ELSE nextSeq[r]
        BY <2>1, <3>1, AddedRow
      <3>4. /\ steer[x] = Inbox(cf)!NoSteer /\ x \notin purged /\ x[1] \notin closed
            /\ Cardinality(Inbox(cf)!In(x[1], Inbox(cf)!Outstanding)) < cf.OUTSTANDING_LIMIT
        BY <2>3, Counts DEF Inbox!Admissible
      <3>5. handed' = handed BY <3>1
      <3>6. AddStep(cf, x, "accepted") BY <3>1, <3>2, <3>3, <3>4, <3>5 DEF AddStep
      <3> QED BY <2>1, <3>6 DEF StoreStep
    <2> QED BY <2>2, <2>3
  <1>6. ASSUME NEW q \in cf.Requests, Inbox(cf)!HandOver(q)
        PROVE  StoreStep(cf)
    <2> DEFINE x == request[q].steer
    <2>1. x \in Inbox(cf)!Steers /\ x[1] \in cf.Runs BY <1>6, Posted, RunOf DEF Inbox!HandOver
    <2>2. CASE ~(Inbox(cf)!Verdict(q) /\ Inbox(cf)!Handable(x))
      BY <1>6, <2>2 DEF Inbox!HandOver, StoreStep, StillStep
    <2>3. CASE Inbox(cf)!Verdict(q) /\ Inbox(cf)!Handable(x)
      <3>1. /\ x[1] \in cf.AuthorityRuns /\ handed' = [handed EXCEPT ![x] = handed[x] + 1]
            /\ UNCHANGED <<closed, batch, purged, injected>>
            /\ \/ /\ steer' = [steer EXCEPT ![x] = Inbox(cf)!NewSteer(x, "outcome_unknown")]
                  /\ nextSeq' = [nextSeq EXCEPT ![x[1]] = nextSeq[x[1]] + 1]
               \/ cf.RecordMayFail /\ UNCHANGED <<steer, nextSeq>>
        BY <1>6, <2>3 DEF Inbox!HandOver
      <3> HIDE DEF x
      <3>2. CASE UNCHANGED <<steer, nextSeq>> /\ cf.RecordMayFail
        BY <2>1, <3>1, <3>2 DEF LostStep, StoreStep
      <3>3. CASE /\ steer' = [steer EXCEPT ![x] = Inbox(cf)!NewSteer(x, "outcome_unknown")]
                 /\ nextSeq' = [nextSeq EXCEPT ![x[1]] = nextSeq[x[1]] + 1]
        BY <2>1, <2>3, <3>1, <3>3, AddedRow DEF AddStep, Inbox!Handable, StoreStep
      <3> QED BY <3>1, <3>2, <3>3
    <2> QED BY <2>2, <2>3
  <1>7. CASE Inbox(cf)!RecoverSeals
    <2>1. CASE recovery.runs = {} BY <1>7, <2>1 DEF Inbox!RecoverSeals, StoreStep, StillStep
    <2>2. ASSUME NEW r \in recovery.runs, Inbox(cf)!SealRun({r}) PROVE StoreStep(cf)
      <3>1. r \in cf.Runs BY <1>7 DEF Inbox!RecoverSeals, Inbox!NoRecovery
      <3>2. SealStep(cf, {r}) BY <1>7, <2>2, SealedRows DEF Inbox!RecoverSeals, SealStep
      <3> QED BY <3>1, <3>2 DEF StoreStep
    <2> QED BY <1>7, <2>1, <2>2 DEF Inbox!RecoverSeals
  <1>8. CASE Inbox(cf)!RecoverSettles
    <2> DEFINE b == recovery.batch
               s == IF recovery.evidence THEN "delivered" ELSE "outcome_unknown"
    <2>1. b \in cf.Batches /\ s \in {"delivered", "outcome_unknown"} /\ (s = "delivered" => b \in history)
      BY <1>8 DEF Inbox!RecoverSettles, Inbox!Resolve, EvidenceFacts, SettleFacts
    <2>2. CASE UNCHANGED <<batch, steer>>
      BY <1>8, <2>2 DEF Inbox!RecoverSettles, StoreStep, StillStep
    <2>3. CASE ~UNCHANGED <<batch, steer>>
      <3>1. Inbox(cf)!Resolve(b, s) BY <1>8 DEF Inbox!RecoverSettles
      <3>2. UNCHANGED <<closed, nextSeq, purged, injected, handed>>
        BY <1>8 DEF Inbox!RecoverSettles
      <3> HIDE DEF b, s
      <3>3. ResolveStep(cf, b, s) BY <2>1, <2>3, <3>1, <3>2, ResolvedRows DEF ResolveStep
      <3> QED BY <2>1, <3>3 DEF StoreStep
    <2> QED BY <2>2, <2>3
  <1>9. CASE Inbox(cf)!RecoverPrunes
    BY <1>9, PrunedRows DEF Inbox!RecoverPrunes, PruneStep, StoreStep
  <1> QED
    BY <1>1, <1>2, <1>3, <1>4, <1>5, <1>6, <1>7, <1>8, <1>9
    DEF Inbox!vars, Inbox!Next, Inbox!RunQueued, Inbox!AgentBinds, Inbox!AgentLeaves,
        Inbox!StatusEvicted, Inbox!StatusSet, Inbox!Flush, Inbox!RunAges, Inbox!PostArrives,
        Inbox!Crash, Inbox!HotReload, Inbox!RecoverScans, Inbox!store, Inbox!memory,
        Inbox!ghosts

LEMMA CarriedKept ==
  ASSUME NEW cf, Inbox(cf)!Shape, steer \in [Inbox(cf)!Steers -> Inbox(cf)!SteerRow],
         batch \in [cf.Batches -> {"none", "staged", "delivered", "outcome_unknown"}],
         nextSeq \in [cf.Runs -> Nat], CarriedFacts(cf), StoreStep(cf)
  PROVE  CarriedFacts(cf)'
  <1> USE DEF CarriedFacts, Inbox!Shape
  <1>0. /\ \A x \in Inbox(cf)!Steers : x[1] \in cf.Runs
        /\ Inbox(cf)!NoSteer.state = "none" /\ Inbox(cf)!NoSteer.batch = Inbox(cf)!NoBatch
    BY RunOf, RowsAre
  <1> USE <1>0
  <1>1. CASE StillStep
    BY <1>1 DEF StillStep, Carried
  <1>2. CASE PruneStep(cf)
    BY <1>2 DEF PruneStep, Gone, Carried
  <1>3. ASSUME NEW R \in SUBSET cf.Runs, SealStep(cf, R) PROVE CarriedFacts(cf)'
    BY <1>3 DEF SealStep, Carried
  <1>4. ASSUME NEW r \in cf.Runs, NEW b \in cf.Batches, ClaimStep(cf, r, b) PROVE CarriedFacts(cf)'
    <2>1. SUFFICES ASSUME NEW x \in Inbox(cf)!Steers PROVE Carried(cf, x)'
      OBVIOUS
    <2>2. Carried(cf, x) /\ purged' = purged BY <1>4 DEF ClaimStep
    <2>3. CASE x[1] = r /\ steer[x].state = "accepted"
      <3>1. /\ steer'[x].state = "staged" /\ steer'[x].batch = b
            /\ injected'[x] = injected[x] \cup {b}
        BY <1>4, <2>3 DEF ClaimStep
      <3>2. x \notin purged /\ injected[x] = {} /\ x[1] \notin cf.AuthorityRuns
        BY <2>2, <2>3 DEF Carried
      <3>3. b # Inbox(cf)!NoBatch BY DEF Inbox!NoBatch
      <3>4. injected'[x] = {b} BY <3>1, <3>2
      <3>5. x \notin purged' BY <2>2, <3>2
      <3> QED BY <3>1, <3>2, <3>3, <3>4, <3>5 DEF Carried
    <2>4. CASE ~(x[1] = r /\ steer[x].state = "accepted")
      BY <1>4, <2>4, <2>2 DEF ClaimStep, Carried
    <2> QED BY <2>3, <2>4
  <1>5. ASSUME NEW b \in cf.Batches, NEW s \in {"delivered", "outcome_unknown"}, ResolveStep(cf, b, s) PROVE CarriedFacts(cf)'
    <2>1. SUFFICES ASSUME NEW x \in Inbox(cf)!Steers PROVE Carried(cf, x)'
      OBVIOUS
    <2>2. Carried(cf, x) /\ purged' = purged /\ injected' = injected BY <1>5 DEF ResolveStep
    <2>3. CASE steer[x].batch = b
      BY <1>5, <2>3, <2>2 DEF ResolveStep, Inbox!NoBatch, Carried
    <2>4. CASE steer[x].batch # b
      BY <1>5, <2>4, <2>2 DEF ResolveStep, Carried
    <2> QED BY <2>3, <2>4
  <1>6. ASSUME NEW x \in Inbox(cf)!Steers, NEW s \in {"accepted", "outcome_unknown"}, AddStep(cf, x, s) PROVE CarriedFacts(cf)'
    <2>1. SUFFICES ASSUME NEW y \in Inbox(cf)!Steers PROVE Carried(cf, y)'
      OBVIOUS
    <2>2. Carried(cf, y) /\ purged' = purged /\ injected' = injected BY <1>6 DEF AddStep
    <2>3. CASE y = x
      BY <1>6, <2>2, <2>3 DEF AddStep, Carried
    <2>4. CASE y # x
      BY <1>6, <2>4, <2>2 DEF AddStep, Carried
    <2> QED BY <2>3, <2>4
  <1>7. ASSUME NEW x \in Inbox(cf)!Steers, LostStep(cf, x) PROVE CarriedFacts(cf)'
    BY <1>7 DEF LostStep, Carried
  <1> QED BY <1>1, <1>2, <1>3, <1>4, <1>5, <1>6, <1>7 DEF StoreStep

LEMMA OrderKept ==
  ASSUME NEW cf, Inbox(cf)!Shape, steer \in [Inbox(cf)!Steers -> Inbox(cf)!SteerRow],
         batch \in [cf.Batches -> {"none", "staged", "delivered", "outcome_unknown"}],
         nextSeq \in [cf.Runs -> Nat], CarriedFacts(cf), OrderFacts(cf), StoreStep(cf)
  PROVE  OrderFacts(cf)'
  <1> USE RunOf, RowsAre DEF CarriedFacts, OrderFacts
  <1>1. CASE StillStep
    BY <1>1 DEF StillStep, Carried
  <1>2. CASE PruneStep(cf)
    BY <1>2 DEF PruneStep, Gone, Carried
  <1>3. ASSUME NEW R \in SUBSET cf.Runs, SealStep(cf, R) PROVE OrderFacts(cf)'
    BY <1>3 DEF SealStep, Carried
  <1>4. ASSUME NEW r \in cf.Runs, NEW b \in cf.Batches, ClaimStep(cf, r, b) PROVE OrderFacts(cf)'
    BY <1>4 DEF ClaimStep, Carried
  <1>5. ASSUME NEW b \in cf.Batches, NEW s \in {"delivered", "outcome_unknown"}, ResolveStep(cf, b, s) PROVE OrderFacts(cf)'
    <2>1. nextSeq' = nextSeq /\ injected' = injected BY <1>5 DEF ResolveStep
    <2>2. ASSUME NEW x \in Inbox(cf)!Steers
          PROVE  /\ steer'[x].seq = steer[x].seq
                 /\ steer'[x].state = "accepted" => steer[x].state = "accepted"
                 /\ steer'[x] # Inbox(cf)!NoSteer => steer[x] # Inbox(cf)!NoSteer
      <3>1. CASE steer[x].batch = b
        BY <1>5, <3>1, RowsAre DEF ResolveStep, Inbox!NoBatch, Inbox!Shape
      <3>2. CASE steer[x].batch # b
        BY <1>5, <3>2 DEF ResolveStep
      <3> QED BY <3>1, <3>2
    <2> QED BY <2>1, <2>2
  <1>6. ASSUME NEW x \in Inbox(cf)!Steers, NEW s \in {"accepted", "outcome_unknown"}, AddStep(cf, x, s) PROVE OrderFacts(cf)'
    <2>1. x[1] \in cf.Runs /\ nextSeq[x[1]] \in Nat BY RunOf
    <2>2. injected' = injected /\ injected[x] = {}
      BY <1>6, RowsAre DEF AddStep, Carried
    <2>3. \A y \in Inbox(cf)!Steers : /\ nextSeq[y[1]] \in Nat /\ nextSeq'[y[1]] \in Nat
                                        /\ nextSeq'[y[1]] >= nextSeq[y[1]]
      <3>1. SUFFICES ASSUME NEW y \in Inbox(cf)!Steers
                     PROVE  /\ nextSeq[y[1]] \in Nat /\ nextSeq'[y[1]] \in Nat
                            /\ nextSeq'[y[1]] >= nextSeq[y[1]]
        OBVIOUS
      <3>2. y[1] \in cf.Runs /\ nextSeq[y[1]] \in Nat BY RunOf
      <3>3. nextSeq'[y[1]] = IF y[1] = x[1] THEN nextSeq[y[1]] + 1 ELSE nextSeq[y[1]]
        BY <1>6, <3>2 DEF AddStep
      <3> QED BY <3>2, <3>3
    <2>4. \A y \in Inbox(cf)!Steers : steer[y].seq \in Nat BY DEF Inbox!SteerRow
    <2>5. /\ steer'[x].seq = nextSeq[x[1]] /\ nextSeq'[x[1]] = nextSeq[x[1]] + 1
          /\ \A y \in Inbox(cf)!Steers : y # x => steer'[y] = steer[y]
      BY <1>6, <2>1 DEF AddStep
    <2>6. \A y \in Inbox(cf)!Steers : steer'[y] # Inbox(cf)!NoSteer => steer'[y].seq < nextSeq'[y[1]]
      <3>1. SUFFICES ASSUME NEW y \in Inbox(cf)!Steers, steer'[y] # Inbox(cf)!NoSteer
                     PROVE  steer'[y].seq < nextSeq'[y[1]]
        OBVIOUS
      <3>2. CASE y = x BY <2>1, <2>5, <3>2
      <3>3. CASE y # x
        BY <2>5, <3>3, <3>1, <2>3, <2>4
      <3> QED BY <3>2, <3>3
    <2>7. ASSUME NEW y \in Inbox(cf)!Steers, NEW z \in Inbox(cf)!Steers, y[1] = z[1],
                 steer'[y].state = "accepted", injected'[z] # {}, steer'[z] # Inbox(cf)!NoSteer
          PROVE  steer'[z].seq < steer'[y].seq
      BY <2>2, <2>5, <2>7
    <2> QED BY <2>6, <2>7
  <1>7. ASSUME NEW x \in Inbox(cf)!Steers, LostStep(cf, x) PROVE OrderFacts(cf)'
    BY <1>7 DEF LostStep, Carried
  <1> QED BY <1>1, <1>2, <1>3, <1>4, <1>5, <1>6, <1>7 DEF StoreStep

LEMMA HandedKept ==
  ASSUME NEW cf, Inbox(cf)!Shape, steer \in [Inbox(cf)!Steers -> Inbox(cf)!SteerRow],
         batch \in [cf.Batches -> {"none", "staged", "delivered", "outcome_unknown"}],
         nextSeq \in [cf.Runs -> Nat], CarriedFacts(cf), HandedFacts(cf),
         handed \in [Inbox(cf)!Steers -> Nat], StoreStep(cf)
  PROVE  HandedFacts(cf)'
  <1> USE RunOf, RowsAre DEF CarriedFacts, HandedFacts
  <1>1. CASE StillStep
    BY <1>1 DEF StillStep, Carried
  <1>2. CASE PruneStep(cf)
    BY <1>2 DEF PruneStep, Gone, Carried
  <1>3. ASSUME NEW R \in SUBSET cf.Runs, SealStep(cf, R) PROVE HandedFacts(cf)'
    BY <1>3 DEF SealStep, Carried
  <1>4. ASSUME NEW r \in cf.Runs, NEW b \in cf.Batches, ClaimStep(cf, r, b) PROVE HandedFacts(cf)'
    BY <1>4 DEF ClaimStep, Carried
  <1>5. ASSUME NEW b \in cf.Batches, NEW s \in {"delivered", "outcome_unknown"}, ResolveStep(cf, b, s) PROVE HandedFacts(cf)'
    BY <1>5 DEF ResolveStep, Carried
  <1>6. ASSUME NEW x \in Inbox(cf)!Steers, NEW s \in {"accepted", "outcome_unknown"}, AddStep(cf, x, s) PROVE HandedFacts(cf)'
    BY <1>6 DEF AddStep, Carried
  <1>7. ASSUME NEW x \in Inbox(cf)!Steers, LostStep(cf, x) PROVE HandedFacts(cf)'
    BY <1>7 DEF LostStep, Carried
  <1> QED BY <1>1, <1>2, <1>3, <1>4, <1>5, <1>6, <1>7 DEF StoreStep

-----------------------------------------------------------------------------
(* Evidence, queue and seal.                                               *)

LEMMA HistoryGrows ==
  ASSUME NEW cf, [Inbox(cf)!Next]_(Inbox(cf)!vars)
  PROVE  history \subseteq history'
  <1> USE DEF Inbox!store, Inbox!memory, Inbox!ghosts
  <1>1. CASE UNCHANGED history
    BY <1>1
  <1>2. ASSUME NEW r \in cf.Runs, Inbox(cf)!Flush(r)
        PROVE  history \subseteq history'
    BY <1>2 DEF Inbox!Flush
  <1> QED
    BY <1>1, <1>2
    DEF Inbox!vars, Inbox!Next, Inbox!RunQueued, Inbox!AgentBinds, Inbox!AgentLeaves,
        Inbox!StatusEvicted, Inbox!StatusSet, Inbox!Seal, Inbox!RunAges, Inbox!ToolBoundary,
        Inbox!ConfirmFlushed, Inbox!PostArrives, Inbox!Admit, Inbox!HandOver, Inbox!Crash,
        Inbox!HotReload, Inbox!RecoverSeals, Inbox!RecoverSettles, Inbox!RecoverPrunes,
        Inbox!RecoverScans, Inbox!store, Inbox!memory, Inbox!ghosts

LEMMA FlushedKept ==
  ASSUME NEW cf, Inbox(cf)!TypeOK, FlushedFacts(cf), [Inbox(cf)!Next]_(Inbox(cf)!vars)
  PROVE  FlushedFacts(cf)'
  <1> USE DEF Inbox!store, Inbox!memory, Inbox!ghosts, Inbox!TypeOK, FlushedFacts
  <1>1. CASE UNCHANGED <<flushed, history>>
    BY <1>1
  <1>2. ASSUME NEW r \in cf.Runs, Inbox(cf)!Flush(r)
        PROVE  FlushedFacts(cf)'
    BY <1>2 DEF Inbox!Flush
  <1>3. ASSUME NEW r \in cf.Runs, NEW b \in cf.Batches, Inbox(cf)!ConfirmFlushed(r, b)
        PROVE  FlushedFacts(cf)'
    BY <1>3 DEF Inbox!ConfirmFlushed
  <1>4. CASE Inbox(cf)!Crash BY <1>4 DEF Inbox!Crash
  <1> QED
    BY <1>1, <1>2, <1>3, <1>4
    DEF Inbox!vars, Inbox!Next, Inbox!RunQueued, Inbox!AgentBinds, Inbox!AgentLeaves,
        Inbox!StatusEvicted, Inbox!StatusSet, Inbox!Seal, Inbox!RunAges, Inbox!ToolBoundary,
        Inbox!PostArrives, Inbox!Admit, Inbox!HandOver, Inbox!HotReload, Inbox!RecoverSeals,
        Inbox!RecoverSettles, Inbox!RecoverPrunes, Inbox!RecoverScans, Inbox!store,
        Inbox!memory, Inbox!ghosts

LEMMA SettleKept ==
  ASSUME NEW cf, Inbox(cf)!TypeOK, SettleFacts(cf), [Inbox(cf)!Next]_(Inbox(cf)!vars)
  PROVE  SettleFacts(cf)'
  <1> USE DEF Inbox!store, Inbox!memory, Inbox!ghosts, SettleFacts
  <1>1. CASE UNCHANGED <<recovery, history>>
    BY <1>1
  <1>2. ASSUME NEW r \in cf.Runs, Inbox(cf)!Flush(r)
        PROVE  SettleFacts(cf)'
    BY <1>2 DEF Inbox!Flush
  <1>3. CASE Inbox(cf)!Crash BY <1>3 DEF Inbox!Crash
  <1>4. CASE Inbox(cf)!HotReload BY <1>4 DEF Inbox!HotReload
  <1>5. CASE Inbox(cf)!RecoverSeals
    <2>1. recovery'.pc \in {"scan", "seal"}
      <3>1. CASE recovery.runs = {} BY <1>5, <3>1 DEF Inbox!RecoverSeals
      <3>2. ASSUME NEW r \in recovery.runs,
                   recovery' = [recovery EXCEPT !.runs = recovery.runs \ {r}]
            PROVE  recovery'.pc \in {"scan", "seal"}
        BY <1>5, Recovering, <3>2 DEF Inbox!RecoverSeals, Inbox!TypeOK
      <3> QED BY <1>5, <3>1, <3>2 DEF Inbox!RecoverSeals
    <2> QED BY <2>1
  <1>6. CASE Inbox(cf)!RecoverSettles BY <1>6 DEF Inbox!RecoverSettles
  <1>7. CASE Inbox(cf)!RecoverPrunes BY <1>7 DEF Inbox!RecoverPrunes, Inbox!NoRecovery
  <1>8. ASSUME NEW b \in cf.Batches, Inbox(cf)!RecoverScans(b)
        PROVE  SettleFacts(cf)'
    <2>1. ASSUME NEW e \in {(b \in history), FALSE},
                 recovery' = [pc |-> "settle", batches |-> recovery.batches \ {b},
                              batch |-> b, evidence |-> e]
          PROVE  recovery'.batch = b /\ (recovery'.evidence => b \in history)
      BY <2>1
    <2>2. history' = history BY <1>8 DEF Inbox!RecoverScans
    <2>3. recovery'.batch = b /\ (recovery'.evidence => b \in history)
      BY <1>8, <2>1, Zenon DEF Inbox!RecoverScans
    <2> QED BY <2>2, <2>3
  <1> QED
    BY <1>1, <1>2, <1>3, <1>4, <1>5, <1>6, <1>7, <1>8
    DEF Inbox!vars, Inbox!Next, Inbox!RunQueued, Inbox!AgentBinds, Inbox!AgentLeaves,
        Inbox!StatusEvicted, Inbox!StatusSet, Inbox!Seal, Inbox!RunAges, Inbox!ToolBoundary,
        Inbox!ConfirmFlushed, Inbox!PostArrives, Inbox!Admit, Inbox!HandOver, Inbox!store,
        Inbox!memory, Inbox!ghosts

LEMMA DeliveredKept ==
  ASSUME NEW cf, Inbox(cf)!Shape, steer \in [Inbox(cf)!Steers -> Inbox(cf)!SteerRow],
         batch \in [cf.Batches -> {"none", "staged", "delivered", "outcome_unknown"}],
         nextSeq \in [cf.Runs -> Nat], CarriedFacts(cf), DeliveredFacts(cf), history \subseteq history',
         StoreStep(cf)
  PROVE  DeliveredFacts(cf)'
  <1> USE RunOf, RowsAre DEF CarriedFacts, DeliveredFacts
  <1>1. CASE StillStep
    BY <1>1 DEF StillStep, Carried
  <1>2. CASE PruneStep(cf)
    <2>1. ASSUME NEW x \in Inbox(cf)!Steers, steer'[x].state = "delivered"
          PROVE  /\ steer'[x].batch \in history'
                 /\ batch'[steer'[x].batch] \in {"delivered", "none"}
      <3>1. steer'[x] = steer[x] BY <1>2, <2>1, RowsAre DEF PruneStep
      <3>2. steer[x].batch \in cf.Batches
        BY <2>1, <3>1 DEF Carried, Inbox!SteerRow
      <3>3. batch'[steer[x].batch] \in {batch[steer[x].batch], "none"}
        BY <1>2, <3>2 DEF PruneStep
      <3> QED BY <2>1, <3>1, <3>3
    <2> QED BY <2>1
  <1>3. ASSUME NEW R \in SUBSET cf.Runs, SealStep(cf, R) PROVE DeliveredFacts(cf)'
    BY <1>3 DEF SealStep
  <1>4. ASSUME NEW r \in cf.Runs, NEW b \in cf.Batches, ClaimStep(cf, r, b) PROVE DeliveredFacts(cf)'
    <2>1. ASSUME NEW x \in Inbox(cf)!Steers, steer'[x].state = "delivered"
          PROVE  /\ steer'[x].batch \in history'
                 /\ batch'[steer'[x].batch] \in {"delivered", "none"}
      <3>1. steer'[x] = steer[x] BY <1>4, <2>1 DEF ClaimStep
      <3>2. injected[x] = {steer[x].batch} BY <2>1, <3>1, RowsAre DEF Carried
      <3>3. steer[x].batch # b BY <1>4, <3>2 DEF ClaimStep
      <3>4. batch'[steer[x].batch] = batch[steer[x].batch] BY <1>4, <3>3 DEF ClaimStep
      <3> QED BY <2>1, <3>1, <3>4
    <2> QED BY <2>1
  <1>5. ASSUME NEW b \in cf.Batches, NEW s \in {"delivered", "outcome_unknown"}, ResolveStep(cf, b, s) PROVE DeliveredFacts(cf)'
    <2>1. ASSUME NEW x \in Inbox(cf)!Steers, steer'[x].state = "delivered"
          PROVE  /\ steer'[x].batch \in history'
                 /\ batch'[steer'[x].batch] \in {"delivered", "none"}
      <3>1. CASE steer[x].batch = b
        BY <1>5, <2>1, <3>1 DEF ResolveStep
      <3>2. CASE steer[x].batch # b
        BY <1>5, <3>2, <2>1 DEF ResolveStep
      <3> QED BY <3>1, <3>2
    <2> QED BY <2>1
  <1>6. ASSUME NEW x \in Inbox(cf)!Steers, NEW s \in {"accepted", "outcome_unknown"}, AddStep(cf, x, s) PROVE DeliveredFacts(cf)'
    BY <1>6 DEF AddStep
  <1>7. ASSUME NEW x \in Inbox(cf)!Steers, LostStep(cf, x) PROVE DeliveredFacts(cf)'
    BY <1>7 DEF LostStep, Carried
  <1> QED BY <1>1, <1>2, <1>3, <1>4, <1>5, <1>6, <1>7 DEF StoreStep

\* A row starts to wait only by an admission that found room.
Admits(cf, x) ==
    /\ steer[x] = Inbox(cf)!NoSteer /\ x[1] \notin closed /\ status[x[1]] \notin Inbox(cf)!Ended
    /\ Cardinality(Queue(cf, x[1])) < cf.OUTSTANDING_LIMIT
    /\ \A y \in Inbox(cf)!Steers : y # x => steer'[y] = steer[y]

LEMMA Waits ==
  ASSUME NEW cf,
         Inbox(cf)!Shape, steer \in [Inbox(cf)!Steers -> Inbox(cf)!SteerRow], StoreStep(cf)
  PROVE  \/ \A x \in Inbox(cf)!Steers :
               /\ steer'[x].state = "accepted" => steer[x].state = "accepted"
               /\ steer'[x].state \in Inbox(cf)!Outstanding => steer[x].state \in Inbox(cf)!Outstanding
         \/ \E x \in Inbox(cf)!Steers : Admits(cf, x)
  <1> DEFINE Fewer ==
        \A x \in Inbox(cf)!Steers :
           /\ steer'[x].state = "accepted" => steer[x].state = "accepted"
           /\ steer'[x].state \in Inbox(cf)!Outstanding => steer[x].state \in Inbox(cf)!Outstanding
  <1> USE RowsAre DEF Inbox!Outstanding
  <1>1. CASE StillStep BY <1>1 DEF StillStep
  <1>2. CASE PruneStep(cf) BY <1>2 DEF PruneStep
  <1>3. ASSUME NEW R \in SUBSET cf.Runs, SealStep(cf, R) PROVE Fewer BY <1>3 DEF SealStep
  <1>4. ASSUME NEW r \in cf.Runs, NEW b \in cf.Batches, ClaimStep(cf, r, b) PROVE Fewer
    BY <1>4 DEF ClaimStep
  <1>5. ASSUME NEW b \in cf.Batches, NEW s \in {"delivered", "outcome_unknown"},
               ResolveStep(cf, b, s) PROVE Fewer
    BY <1>5 DEF ResolveStep
  <1>6. ASSUME NEW x \in Inbox(cf)!Steers, NEW s \in {"accepted", "outcome_unknown"},
               AddStep(cf, x, s) PROVE Fewer \/ Admits(cf, x)
    BY <1>6 DEF AddStep, Admits, Queue
  <1>7. ASSUME NEW x \in Inbox(cf)!Steers, LostStep(cf, x) PROVE Fewer BY <1>7 DEF LostStep
  <1> QED BY <1>1, <1>2, <1>3, <1>4, <1>5, <1>6, <1>7 DEF StoreStep

LEMMA QueueKept ==
  ASSUME NEW cf,
         Inbox(cf)!Shape, Inbox(cf)!Limits, steer \in [Inbox(cf)!Steers -> Inbox(cf)!SteerRow], QueueFacts(cf), StoreStep(cf)
  PROVE  QueueFacts(cf)'
  <1> USE DEF QueueFacts
  <1>1. SUFFICES ASSUME NEW r \in cf.Runs
                 PROVE  IsFiniteSet(Queue(cf, r)') /\ Cardinality(Queue(cf, r)') <= cf.OUTSTANDING_LIMIT
    BY DEF Queue
  <1>2. /\ Queue(cf, r) = {x \in Inbox(cf)!Steers : x[1] = r /\ steer[x].state \in Inbox(cf)!Outstanding}
        /\ Queue(cf, r)' = {x \in Inbox(cf)!Steers : x[1] = r /\ steer'[x].state \in Inbox(cf)!Outstanding}
    BY DEF Queue, Inbox!In, Inbox!OfRun
  <1>3. Cardinality(Queue(cf, r)) \in Nat /\ cf.OUTSTANDING_LIMIT \in Nat
    BY FS_CardinalityType DEF Inbox!Limits
  <1>4. ASSUME Queue(cf, r)' \subseteq Queue(cf, r)
        PROVE  IsFiniteSet(Queue(cf, r)') /\ Cardinality(Queue(cf, r)') <= cf.OUTSTANDING_LIMIT
    BY <1>4, FS_Subset, FS_CardinalityType, <1>3
  <1>5. CASE \A x \in Inbox(cf)!Steers :
                steer'[x].state \in Inbox(cf)!Outstanding => steer[x].state \in Inbox(cf)!Outstanding
    BY <1>2, <1>4, <1>5
  <1>6. ASSUME NEW x \in Inbox(cf)!Steers, Admits(cf, x)
        PROVE  IsFiniteSet(Queue(cf, r)') /\ Cardinality(Queue(cf, r)') <= cf.OUTSTANDING_LIMIT
    <2>1. CASE x[1] # r
      BY <1>2, <1>6, <2>1, <1>4 DEF Admits
    <2>2. CASE x[1] = r
      <3>1. Queue(cf, r)' \subseteq Queue(cf, r) \cup {x} BY <1>2, <1>6 DEF Admits
      <3>2. /\ IsFiniteSet(Queue(cf, r) \cup {x})
            /\ Cardinality(Queue(cf, r) \cup {x}) \in {Cardinality(Queue(cf, r)), Cardinality(Queue(cf, r)) + 1}
        BY FS_AddElement
      <3>3. /\ IsFiniteSet(Queue(cf, r)')
            /\ Cardinality(Queue(cf, r)') <= Cardinality(Queue(cf, r) \cup {x})
            /\ Cardinality(Queue(cf, r)') \in Nat
        BY <3>1, <3>2, FS_Subset, FS_CardinalityType
      <3>4. Cardinality(Queue(cf, r)) < cf.OUTSTANDING_LIMIT BY <1>6, <2>2 DEF Admits
      <3> QED BY <1>3, <3>2, <3>3, <3>4
    <2> QED BY <2>1, <2>2
  <1> QED BY <1>5, <1>6, Waits

LEMMA SealsFinish ==
  ASSUME NEW cf,
         Inbox(cf)!Shape, steer \in [Inbox(cf)!Steers -> Inbox(cf)!SteerRow], [Inbox(cf)!Next]_(Inbox(cf)!vars)
  PROVE  \A u \in cf.Runs : status'[u] \in Inbox(cf)!Ended /\ u \notin sealing' =>
            \/ status[u] \in Inbox(cf)!Ended /\ u \notin sealing
            \/ \A x \in Inbox(cf)!Steers : x[1] = u => steer'[x].state # "accepted"
  <1> USE DEF Inbox!store, Inbox!memory, Inbox!ghosts, Inbox!Ended
  <1>1. CASE UNCHANGED <<status, sealing>>
    BY <1>1
  <1>2. ASSUME NEW r \in cf.Runs, Inbox(cf)!RunQueued(r)
        PROVE  \A u \in cf.Runs : status'[u] \in Inbox(cf)!Ended /\ u \notin sealing' =>
                  \/ status[u] \in Inbox(cf)!Ended /\ u \notin sealing
                  \/ \A x \in Inbox(cf)!Steers : x[1] = u => steer'[x].state # "accepted"
    BY <1>2 DEF Inbox!RunQueued
  <1>3. ASSUME NEW r \in cf.Runs, Inbox(cf)!AgentBinds(r)
        PROVE  \A u \in cf.Runs : status'[u] \in Inbox(cf)!Ended /\ u \notin sealing' =>
                  \/ status[u] \in Inbox(cf)!Ended /\ u \notin sealing
                  \/ \A x \in Inbox(cf)!Steers : x[1] = u => steer'[x].state # "accepted"
    BY <1>3 DEF Inbox!AgentBinds
  <1>4. ASSUME NEW r \in cf.Runs, Inbox(cf)!StatusEvicted(r)
        PROVE  \A u \in cf.Runs : status'[u] \in Inbox(cf)!Ended /\ u \notin sealing' =>
                  \/ status[u] \in Inbox(cf)!Ended /\ u \notin sealing
                  \/ \A x \in Inbox(cf)!Steers : x[1] = u => steer'[x].state # "accepted"
    BY <1>4 DEF Inbox!StatusEvicted
  <1>5. ASSUME NEW r \in cf.Runs, NEW s \in Inbox(cf)!Ended, Inbox(cf)!StatusSet(r, s)
        PROVE  \A u \in cf.Runs : status'[u] \in Inbox(cf)!Ended /\ u \notin sealing' =>
                  \/ status[u] \in Inbox(cf)!Ended /\ u \notin sealing
                  \/ \A x \in Inbox(cf)!Steers : x[1] = u => steer'[x].state # "accepted"
    BY <1>5 DEF Inbox!StatusSet
  <1>6. ASSUME NEW r \in cf.Runs, Inbox(cf)!Seal(r)
        PROVE  \A u \in cf.Runs : status'[u] \in Inbox(cf)!Ended /\ u \notin sealing' =>
                  \/ status[u] \in Inbox(cf)!Ended /\ u \notin sealing
                  \/ \A x \in Inbox(cf)!Steers : x[1] = u => steer'[x].state # "accepted"
    BY <1>6, SealedRows DEF Inbox!Seal
  <1>7. CASE Inbox(cf)!Crash BY <1>7 DEF Inbox!Crash
  <1> QED
    BY <1>1, <1>2, <1>3, <1>4, <1>5, <1>6, <1>7
    DEF Inbox!vars, Inbox!Next, Inbox!AgentLeaves, Inbox!Flush, Inbox!RunAges,
        Inbox!ToolBoundary, Inbox!ConfirmFlushed, Inbox!PostArrives, Inbox!Admit,
        Inbox!HandOver, Inbox!HotReload, Inbox!RecoverSeals, Inbox!RecoverSettles,
        Inbox!RecoverPrunes, Inbox!RecoverScans, Inbox!store, Inbox!memory, Inbox!ghosts

LEMMA StrandedKept ==
  ASSUME NEW cf,
         Inbox(cf)!Shape, steer \in [Inbox(cf)!Steers -> Inbox(cf)!SteerRow], StrandedFacts(cf), StoreStep(cf), [Inbox(cf)!Next]_(Inbox(cf)!vars)
  PROVE  StrandedFacts(cf)'
  <1> SUFFICES ASSUME NEW x \in Inbox(cf)!Steers, status'[x[1]] \in Inbox(cf)!Ended,
                      x[1] \notin sealing', steer'[x].state = "accepted"
               PROVE  FALSE
    BY DEF StrandedFacts, Inbox!Ended
  <1>1. status[x[1]] \in Inbox(cf)!Ended /\ x[1] \notin sealing BY SealsFinish, RunOf
  <1>2. steer[x].state # "accepted" BY <1>1 DEF StrandedFacts
  <1>3. PICK y \in Inbox(cf)!Steers : Admits(cf, y) BY <1>2, Waits
  <1>4. y = x BY <1>2, <1>3 DEF Admits
  <1> QED BY <1>1, <1>3, <1>4 DEF Admits

LEMMA SteerStarts == ASSUME NEW cf, Inbox(cf)!Shape, Inbox(cf)!Limits, Inbox(cf)!Init PROVE SteerInv(cf)
  <1> USE RowsAre, RunOf DEF Inbox!Init, Inbox!NoRecovery
  <1>1. Inbox(cf)!TypeOK BY DEF Inbox!TypeOK
  <1>2. CarriedFacts(cf) BY DEF CarriedFacts, Carried
  <1>3. EvidenceFacts(cf) /\ DeliveredFacts(cf)
    BY DEF EvidenceFacts, FlushedFacts, SettleFacts, DeliveredFacts
  <1>4. OrderFacts(cf) /\ HandedFacts(cf) /\ StrandedFacts(cf) BY DEF OrderFacts, HandedFacts, StrandedFacts
  <1>5. ASSUME NEW r \in cf.Runs PROVE Queue(cf, r) = {}
    BY DEF Queue, Inbox!In, Inbox!OfRun, Inbox!Outstanding
  <1>6. QueueFacts(cf)
    <2>1. IsFiniteSet({}) /\ Cardinality({}) = 0 BY FS_EmptySet
    <2>2. 0 <= cf.OUTSTANDING_LIMIT BY DEF Inbox!Limits
    <2> QED BY <1>5, <2>1, <2>2 DEF QueueFacts
  <1> QED BY <1>1, <1>2, <1>3, <1>4, <1>6 DEF SteerInv

LEMMA SteerKept ==
  ASSUME NEW cf,
         Inbox(cf)!Shape, Inbox(cf)!Limits, SteerInv(cf), [Inbox(cf)!Next]_(Inbox(cf)!vars)
  PROVE  SteerInv(cf)' /\ StoreStep(cf)
  <1> USE DEF SteerInv
  <1>1. /\ steer \in [Inbox(cf)!Steers -> Inbox(cf)!SteerRow] /\ batch \in [cf.Batches -> {"none", "staged", "delivered", "outcome_unknown"}] /\ nextSeq \in [cf.Runs -> Nat] /\ handed \in [Inbox(cf)!Steers -> Nat]
        /\ recovery.pc = "settle" => recovery.batch \in cf.Batches
    BY DEF Inbox!TypeOK, EvidenceFacts, SettleFacts
  <1>2. request \in [cf.Requests -> [pc : {"body"}, steer : Inbox(cf)!Steers, seen : {"running", "other"}]
                                \cup {Inbox(cf)!NoRequest}]
    BY DEF Inbox!TypeOK
  <1>3. recovery \in [pc : {"seal"}, runs : SUBSET cf.Runs]
                         \cup [pc : {"scan"}, batches : SUBSET cf.Batches]
                         \cup [pc : {"settle"}, batches : SUBSET cf.Batches, batch : cf.Batches,
                               evidence : BOOLEAN]
                         \cup {Inbox(cf)!NoRecovery}
    BY DEF Inbox!TypeOK
  <1>4. StoreStep(cf) BY <1>1, <1>2, <1>3, StoreSteps
  <1>5. Inbox(cf)!TypeOK'
    BY <1>1, <1>2, SteerTyped, PostsTyped, <1>3, RecoveryTyped, RunsTyped, SealsTyped, RowsTyped
       DEF Inbox!TypeOK
  <1>6. CarriedFacts(cf)' /\ OrderFacts(cf)' /\ HandedFacts(cf)'
    BY <1>1, <1>4, CarriedKept, OrderKept, HandedKept
  <1>7. EvidenceFacts(cf)' BY FlushedKept, SettleKept DEF EvidenceFacts
  <1>8. DeliveredFacts(cf)' BY <1>1, <1>4, DeliveredKept, HistoryGrows
  <1>9. QueueFacts(cf)' /\ StrandedFacts(cf)' BY <1>1, <1>4, QueueKept, StrandedKept
  <1> QED BY <1>4, <1>5, <1>6, <1>7, <1>8, <1>9

\* What the inductive invariant says of the properties.
LEMMA SteersAreOnce == ASSUME NEW cf, SteerInv(cf) PROVE Inbox(cf)!SteersOnce
  <1> USE RunOf, RowsAre DEF SteerInv
  <1>1. Inbox(cf)!InjectedOnce
    <2>1. SUFFICES ASSUME NEW x \in Inbox(cf)!Steers
                   PROVE  /\ Inbox(cf)!Cardinality(injected[x]) <= 1
                          /\ x[1] \in cf.AuthorityRuns => injected[x] = {}
      BY DEF Inbox!InjectedOnce
    <2>2. injected[x] = {} \/ \E b \in cf.Batches : injected[x] = {b}
      BY DEF CarriedFacts, Carried
    <2>3. Cardinality(injected[x]) \in {0, 1} BY <2>2, FS_EmptySet, FS_Singleton
    <2>4. Inbox(cf)!Cardinality(injected[x]) = Cardinality(injected[x]) BY Counts
    <2>5. x[1] \in cf.AuthorityRuns => injected[x] = {} BY DEF CarriedFacts, Carried
    <2> QED BY <2>3, <2>4, <2>5
  <1>2. Inbox(cf)!ReceiptsAreHonest
    <2>1. SUFFICES ASSUME NEW x \in Inbox(cf)!Steers
                   PROVE  /\ steer[x].state = "delivered" =>
                                steer[x].batch \in history \cap injected[x]
                          /\ steer[x].state = "not_delivered" => injected[x] = {}
      BY DEF Inbox!ReceiptsAreHonest
    <2>2. Carried(cf, x) BY DEF CarriedFacts
    <2>3. ASSUME steer[x].state = "delivered" PROVE steer[x].batch \in history \cap injected[x]
      BY <2>3, <2>2 DEF DeliveredFacts, Carried
    <2>4. ASSUME steer[x].state = "not_delivered" PROVE injected[x] = {}
      BY <2>2, <2>4 DEF Carried
    <2> QED BY <2>3, <2>4
  <1>3. Inbox(cf)!QueueBounded BY Counts DEF Inbox!QueueBounded, QueueFacts, Queue
  <1>4. Inbox(cf)!NothingStranded
    BY DEF Inbox!NothingStranded, StrandedFacts, Inbox!In, Inbox!OfRun
  <1>5. Inbox(cf)!InOrder BY DEF Inbox!InOrder, OrderFacts, Inbox!OfRun
  <1>6. ~cf.RecordMayFail => Inbox(cf)!HandedOnce BY DEF Inbox!HandedOnce, HandedFacts
  <1> QED BY <1>1, <1>2, <1>3, <1>4, <1>5, <1>6 DEF Inbox!SteersOnce

LEMMA VerdictsStay ==
  ASSUME NEW cf,
         Inbox(cf)!Shape, steer \in [Inbox(cf)!Steers -> Inbox(cf)!SteerRow], CarriedFacts(cf), DeliveredFacts(cf), StoreStep(cf)
  PROVE  Inbox(cf)!VerdictKept
  <1>1. SUFFICES ASSUME NEW x \in Inbox(cf)!Steers
                 PROVE  /\ steer[x].state \in {"delivered", "not_delivered"} =>
                              steer'[x].state \in {steer[x].state, "none"}
                        /\ x[1] \in closed /\ steer'[x] # steer[x] =>
                              steer'[x].state \notin Inbox(cf)!Outstanding
                        /\ x \in purged => steer'[x] = Inbox(cf)!NoSteer
    BY DEF Inbox!VerdictKept
  <1> USE RowsAre DEF Inbox!Outstanding
  <1>2. Carried(cf, x) BY DEF CarriedFacts
  <1>3. CASE steer'[x] = steer[x] BY <1>2, <1>3 DEF Carried
  <1>4. CASE PruneStep(cf) BY <1>2, <1>4 DEF PruneStep, Carried
  <1>5. ASSUME NEW R \in SUBSET cf.Runs, SealStep(cf, R), steer'[x] # steer[x]
        PROVE  steer[x].state = "accepted" /\ steer'[x].state = "not_delivered"
    BY <1>5 DEF SealStep
  <1>6. ASSUME NEW r \in cf.Runs, NEW b \in cf.Batches, ClaimStep(cf, r, b), steer'[x] # steer[x]
        PROVE  steer[x].state = "accepted" /\ x[1] \notin closed
    BY <1>6 DEF ClaimStep
  <1>7. ASSUME NEW b \in cf.Batches, NEW s \in {"delivered", "outcome_unknown"},
               ResolveStep(cf, b, s), steer'[x] # steer[x]
        PROVE  /\ steer[x].state \notin {"none", "delivered", "not_delivered"}
               /\ steer'[x].state \notin Inbox(cf)!Outstanding
    BY <1>7, <1>2 DEF ResolveStep, Inbox!Shape, Inbox!NoBatch, DeliveredFacts, Carried
  <1>8. ASSUME NEW y \in Inbox(cf)!Steers, NEW s \in {"accepted", "outcome_unknown"},
               AddStep(cf, y, s), steer'[x] # steer[x]
        PROVE  steer[x].state = "none" /\ x \notin purged /\ x[1] \notin closed
    BY <1>8 DEF AddStep
  <1>9. ASSUME NEW y \in Inbox(cf)!Steers, LostStep(cf, y) PROVE steer'[x] = steer[x]
    BY <1>9 DEF LostStep
  <1>10. CASE StillStep BY <1>3, <1>10 DEF StillStep
  <1> QED
    BY <1>2, <1>3, <1>4, <1>5, <1>6, <1>7, <1>8, <1>9, <1>10 DEF StoreStep, Carried

LEMMA SteerImplies ==
  ASSUME NEW cf, SteerInv(cf)
  PROVE  Inbox(cf)!TypeOK /\ Inbox(cf)!SteersOnce
  BY SteersAreOnce DEF SteerInv

LEMMA VerdictStays ==
  ASSUME NEW cf, Inbox(cf)!Shape, Inbox(cf)!Limits, SteerInv(cf),
         [Inbox(cf)!Next]_(Inbox(cf)!vars)
  PROVE  Inbox(cf)!VerdictKept
  BY SteerKept, VerdictsStay DEF SteerInv, Inbox!TypeOK

-----------------------------------------------------------------------------
(* The group: in every scenario its component keeps its invariant, whatever *)
(* the records of constants are.                                           *)

SteersHold ==
    /\ scenario = "steered" => SteerInv(Steered)
    /\ scenario = "restarted" => SteerInv(Restarted)
    /\ scenario = "handed" => SteerInv(Handed)
    /\ scenario = "streamed" => StreamInv(Streamed)

LEMMA SteersStart == Init => SteersHold
  <1> SUFFICES ASSUME Init PROVE SteersHold OBVIOUS
  <1>1. ASSUME scenario = "steered" PROVE SteerInv(Steered)
    BY <1>1, Instances, SteerStarts DEF Init, Instances
  <1>2. ASSUME scenario = "restarted" PROVE SteerInv(Restarted)
    BY <1>2, Instances, SteerStarts DEF Init, Instances
  <1>3. ASSUME scenario = "handed" PROVE SteerInv(Handed)
    BY <1>3, Instances, SteerStarts DEF Init, Instances
  <1>4. ASSUME scenario = "streamed" PROVE StreamInv(Streamed)
    BY <1>4, Instances, StreamStarts DEF Init, Instances
  <1> QED BY <1>1, <1>2, <1>3, <1>4 DEF SteersHold

\* What the scenario at hand lets its component do.
LEMMA SteersMove ==
  ASSUME [Next]_vars
  PROVE  /\ scenario' = scenario
         /\ scenario = "steered" => [Inbox(Steered)!Next]_(Inbox(Steered)!vars)
         /\ scenario = "restarted" => [Inbox(Restarted)!Next]_(Inbox(Restarted)!vars)
         /\ scenario = "handed" => [Inbox(Handed)!Next]_(Inbox(Handed)!vars)
         /\ scenario = "streamed" => [Stream(Streamed)!Next]_(Stream(Streamed)!vars)
  <1>1. CASE Next BY <1>1 DEF Next
  <1>2. CASE UNCHANGED vars
    BY <1>2 DEF vars, SteerVars, Inbox!vars, TurnVars, Stream!vars
  <1> QED BY <1>1, <1>2

LEMMA SteersKeep == SteersHold /\ [Next]_vars => SteersHold'
  <1> SUFFICES ASSUME SteersHold, [Next]_vars PROVE SteersHold' OBVIOUS
  <1>0. scenario' = scenario BY SteersMove
  <1>1. ASSUME scenario = "steered" PROVE (SteerInv(Steered))'
    BY <1>1, SteersMove, Instances, SteerKept DEF Instances, SteersHold
  <1>2. ASSUME scenario = "restarted" PROVE (SteerInv(Restarted))'
    BY <1>2, SteersMove, Instances, SteerKept DEF Instances, SteersHold
  <1>3. ASSUME scenario = "handed" PROVE (SteerInv(Handed))'
    BY <1>3, SteersMove, Instances, SteerKept DEF Instances, SteersHold
  <1>4. ASSUME scenario = "streamed" PROVE (StreamInv(Streamed))'
    BY <1>4, SteersMove, Instances, StreamInductive DEF Instances, SteersHold
  <1> QED BY <1>0, <1>1, <1>2, <1>3, <1>4 DEF SteersHold

LEMMA SteersHoldAlways == Spec => []SteersHold
  BY SteersStart, SteersKeep, PTL DEF Spec

\* A steer reaches the agent at most once and in order, its receipt says what
\* happened to it, the queue stays within its limit, a sealed run leaves none
\* waiting and the core takes one at most once: for any runs, keys, requests in
\* progress, crashes and hot reloads (steer_store.py, steer_inbox.py).
THEOREM EverySteerOnce == Spec => []SteersOnce
  <1>1. SteersHold => SteersOnce BY SteerImplies DEF SteersHold, SteersOnce
  <1> QED BY <1>1, SteersHoldAlways, PTL

\* Whichever of worker, task, stop, disconnect and unload closes the bridge
\* first, a closed bridge holds nobody, a turn that is over has left the
\* tables, and done is the last thing its viewer sees.
THEOREM EveryTurnCloses == Spec => []TurnsClose
  <1>1. SteersHold => TurnsClose BY StreamImplies DEF SteersHold, TurnsClose
  <1> QED BY <1>1, SteersHoldAlways, PTL

-----------------------------------------------------------------------------
(* ApprovalInbox.                                                          *)

\* No entry was ever made for the request.
Fresh(r) == entry[r] = "none" /\ outcome[r] = "none"

\* An entry has an outcome exactly when it is over, and what was published.
EntryFacts(cf) ==
    \A r \in cf.Requests :
        /\ entry[r] = "pending" => outcome[r] = "none" /\ emitted[r] = 0
        /\ entry[r] = "resolved" => outcome[r] # "none"
        /\ Fresh(r) => initial[r] = 0 /\ emitted[r] = 0
        /\ initial[r] <= 1 /\ reminder[r] <= 1 /\ emitted[r] <= 1

\* No two captures hold one request, whose entry none of them has made before
\* the insert and whose first notification is to come until the dispatch.
CaptureFacts(cf) ==
    /\ \A c \in cf.Captures :
          /\ cap[c].pc = "idle" => cap[c].req = Approval(cf)!None
          /\ cap[c].pc # "idle" => cap[c].req \in cf.Requests
          /\ cap[c].pc \in {"chain", "insert"} => Fresh(cap[c].req)
          /\ cap[c].pc = "dispatch" => ~Fresh(cap[c].req) /\ initial[cap[c].req] = 0
    /\ \A c, d \in cf.Captures : cap[c].req = cap[d].req /\ cap[c].pc # "idle" => c = d

AnswerFacts(cf) ==
    \A p \in cf.Posts : /\ post[p].pc = "native" => post[p].asked = Approval(cf)!None
                        /\ post[p].pc \in {"new", "submit", "native"} => post[p].got = Approval(cf)!None
                        /\ post[p].pc = "new" => post[p].asked = Approval(cf)!None
                        /\ post[p].asked # Approval(cf)!None =>
                              post[p].got \in {Approval(cf)!None, post[p].asked}

RegistryFacts(cf) == IsFiniteSet(Approval(cf)!Entries) /\ Cardinality(Approval(cf)!Entries) <= cf.MaxPending

\* A firing that is about to publish is the first, and of a request that was
\* there when its timer fired; a late one passes the queue only in a run that
\* is over. What is captured, timed or late has been queued.
FireFacts(cf) ==
    /\ \A r \in cf.Requests :
          /\ firing[r] = "publish" => reminder[r] = 0 /\ r \notin late
          /\ r \in late => ended \/ core[r] \notin {"queued", "hooked"}
          /\ r \in late /\ firing[r] \in {"switch", "status"} => ended
          /\ timer[r] > 0 \/ r \in late => core[r] # "new"
    /\ \A c \in cf.Captures : cap[c].pc # "idle" => core[cap[c].req] # "new"

ShownFacts == /\ get.shown \subseteq get.live
              /\ get.pc # "answered" => get.shown = {}

ApprovalInv(cf) ==
    /\ Approval(cf)!TypeOK /\ EntryFacts(cf) /\ CaptureFacts(cf) /\ AnswerFacts(cf) /\ RegistryFacts(cf)
    /\ ShownFacts /\ FireFacts(cf)

\* The instance counts as FiniteSets does.
LEMMA CountsHere ==
  ASSUME NEW cf
  PROVE  \A S : Approval(cf)!Cardinality(S) = Cardinality(S)
  BY DEF Approval!Cardinality, Cardinality, Approval!IsFiniteSet, IsFiniteSet

\* settle: the pending ones among the requests get their one outcome.
LEMMA SettledRows ==
  ASSUME NEW cf,
         entry \in [cf.Requests -> {"none", "pending", "resolved"}], outcome \in [cf.Requests -> Approval(cf)!Outcomes], timer \in [cf.Requests -> Nat], emitted \in [cf.Requests -> Nat],
         NEW rs, NEW o \in Approval(cf)!Outcomes \ {"none"}, Approval(cf)!Settle(rs, o)
  PROVE  /\ entry' \in [cf.Requests -> {"none", "pending", "resolved"}] /\ outcome' \in [cf.Requests -> Approval(cf)!Outcomes]
         /\ timer' \in [cf.Requests -> Nat] /\ emitted' \in [cf.Requests -> Nat]
         /\ \A r \in cf.Requests :
               IF r \in rs /\ entry[r] = "pending"
               THEN entry'[r] = "resolved" /\ outcome'[r] # "none" /\ emitted'[r] = emitted[r] + 1
               ELSE entry'[r] = entry[r] /\ outcome'[r] = outcome[r] /\ emitted'[r] = emitted[r]
  <1> USE DEF Approval!Settle, Approval!Settleable
  <1>1. entry' \in [cf.Requests -> {"none", "pending", "resolved"}] /\ outcome' \in [cf.Requests -> Approval(cf)!Outcomes] /\ timer' \in [cf.Requests -> Nat] /\ emitted' \in [cf.Requests -> Nat]
    OBVIOUS
  <1> QED BY <1>1

\* A reconciliation does the same without the event.
LEMMA ReconciledRows ==
  ASSUME NEW cf,
         entry \in [cf.Requests -> {"none", "pending", "resolved"}], outcome \in [cf.Requests -> Approval(cf)!Outcomes], NEW live, Approval(cf)!Reconcile(live)
  PROVE  /\ entry' \in [cf.Requests -> {"none", "pending", "resolved"}] /\ outcome' \in [cf.Requests -> Approval(cf)!Outcomes]
         /\ \A r \in cf.Requests :
               IF r \notin live /\ entry[r] = "pending"
               THEN entry'[r] = "resolved" /\ outcome'[r] # "none"
               ELSE entry'[r] = entry[r] /\ outcome'[r] = outcome[r]
  BY DEF Approval!Reconcile, Approval!Gone, Approval!Pending, Approval!Outcomes

LEMMA RecordsAre ==
  ASSUME NEW cf
  PROVE  /\ \A c \in cf.Captures : cap \in [cf.Captures -> Approval(cf)!Capture] => cap[c].pc \in {"idle", "chain", "insert", "dispatch"}
                                /\ cap[c].req \in cf.Requests \cup {Approval(cf)!None}
         /\ Approval(cf)!Free \in Approval(cf)!Capture
         /\ Approval(cf)!Free.pc = "idle" /\ Approval(cf)!Free.req = Approval(cf)!None
  BY DEF Approval!Capture, Approval!Free

LEMMA EntriesTyped ==
  ASSUME NEW cf, entry \in [cf.Requests -> {"none", "pending", "resolved"}],
         outcome \in [cf.Requests -> Approval(cf)!Outcomes], timer \in [cf.Requests -> Nat],
         emitted \in [cf.Requests -> Nat], cap \in [cf.Captures -> Approval(cf)!Capture], CaptureFacts(cf),
         Approval(cf)!Shape, [Approval(cf)!Next]_(Approval(cf)!vars)
  PROVE  entry' \in [cf.Requests -> {"none", "pending", "resolved"}]
         /\ outcome' \in [cf.Requests -> Approval(cf)!Outcomes]
         /\ timer' \in [cf.Requests -> Nat]
         /\ emitted' \in [cf.Requests -> Nat]
  <1> USE DEF Approval!pushes, Approval!env
  <1>1. CASE UNCHANGED <<entry, outcome, timer, emitted>>
    BY <1>1
  <1>2. ASSUME NEW r \in cf.Requests, Approval(cf)!HookRuns(r)
        PROVE  entry' \in [cf.Requests -> {"none", "pending", "resolved"}]
               /\ outcome' \in [cf.Requests -> Approval(cf)!Outcomes]
               /\ timer' \in [cf.Requests -> Nat]
               /\ emitted' \in [cf.Requests -> Nat]
    BY <1>2, SettledRows DEF Approval!HookRuns, Approval!Outcomes
  <1>3. ASSUME NEW r \in cf.Requests, Approval(cf)!Fire(r)
        PROVE  entry' \in [cf.Requests -> {"none", "pending", "resolved"}]
               /\ outcome' \in [cf.Requests -> Approval(cf)!Outcomes]
               /\ timer' \in [cf.Requests -> Nat]
               /\ emitted' \in [cf.Requests -> Nat]
    BY <1>3 DEF Approval!Fire, Approval!FireStarts, Approval!FireChecks, Approval!FirePublishes
  <1>4. ASSUME NEW r \in cf.Requests, Approval(cf)!Forget(r)
        PROVE  entry' \in [cf.Requests -> {"none", "pending", "resolved"}]
               /\ outcome' \in [cf.Requests -> Approval(cf)!Outcomes]
               /\ timer' \in [cf.Requests -> Nat]
               /\ emitted' \in [cf.Requests -> Nat]
    BY <1>4 DEF Approval!Forget
  <1>5. ASSUME NEW c \in cf.Captures, Approval(cf)!CaptureInserts(c)
        PROVE  entry' \in [cf.Requests -> {"none", "pending", "resolved"}]
               /\ outcome' \in [cf.Requests -> Approval(cf)!Outcomes]
               /\ timer' \in [cf.Requests -> Nat]
               /\ emitted' \in [cf.Requests -> Nat]
    BY <1>5 DEF Approval!CaptureInserts, Approval!Outcomes
  <1>6. ASSUME NEW c \in cf.Captures, Approval(cf)!Dispatch(c)
        PROVE  entry' \in [cf.Requests -> {"none", "pending", "resolved"}]
               /\ outcome' \in [cf.Requests -> Approval(cf)!Outcomes]
               /\ timer' \in [cf.Requests -> Nat]
               /\ emitted' \in [cf.Requests -> Nat]
    BY <1>6 DEF Approval!Dispatch, CaptureFacts
  <1>7. ASSUME NEW p \in cf.Posts, Approval(cf)!PostResponds(p)
        PROVE  entry' \in [cf.Requests -> {"none", "pending", "resolved"}]
               /\ outcome' \in [cf.Requests -> Approval(cf)!Outcomes]
               /\ timer' \in [cf.Requests -> Nat]
               /\ emitted' \in [cf.Requests -> Nat]
    BY <1>7, SettledRows DEF Approval!PostResponds, Approval!Outcomes
  <1>8. ASSUME NEW p \in cf.Posts, Approval(cf)!PostReconciles(p)
        PROVE  entry' \in [cf.Requests -> {"none", "pending", "resolved"}]
               /\ outcome' \in [cf.Requests -> Approval(cf)!Outcomes]
               /\ timer' \in [cf.Requests -> Nat]
               /\ emitted' \in [cf.Requests -> Nat]
    BY <1>8, ReconciledRows DEF Approval!PostReconciles
  <1>9. CASE Approval(cf)!GetAnswers BY <1>9, ReconciledRows DEF Approval!GetAnswers
  <1>10. CASE Approval(cf)!RunEnds BY <1>10, SettledRows DEF Approval!RunEnds, Approval!Outcomes
  <1> QED
    BY <1>1, <1>2, <1>3, <1>4, <1>5, <1>6, <1>7, <1>8, <1>9, <1>10
    DEF Approval!vars, Approval!Next, Approval!CaptureStep, Approval!PostStep,
        Approval!GetStep, Approval!Enqueue, Approval!Withdraw, Approval!CaptureChains,
        Approval!CaptureStarts, Approval!PostResolves, Approval!PostLegacy,
        Approval!PostExact, Approval!GetReads, Approval!GetDone, Approval!Toggle,
        Approval!pushes, Approval!env

LEMMA CoreTyped ==
  ASSUME NEW cf,
         core \in [cf.Requests -> {"new", "queued", "hooked", "removed", "hook due", "settled"}],
         [Approval(cf)!Next]_(Approval(cf)!vars)
  PROVE  core' \in [cf.Requests -> {"new", "queued", "hooked", "removed", "hook due", "settled"}]
  <1> USE DEF Approval!pushes, Approval!env, Approval!Removed
  <1>1. CASE UNCHANGED core
    BY <1>1
  <1>2. ASSUME NEW r \in cf.Requests, Approval(cf)!Enqueue(r)
        PROVE  core' \in [cf.Requests -> {"new", "queued", "hooked", "removed", "hook due", "settled"}]
    BY <1>2 DEF Approval!Enqueue
  <1>3. ASSUME NEW r \in cf.Requests, Approval(cf)!Withdraw(r)
        PROVE  core' \in [cf.Requests -> {"new", "queued", "hooked", "removed", "hook due", "settled"}]
    BY <1>3 DEF Approval!Withdraw
  <1>4. ASSUME NEW r \in cf.Requests, Approval(cf)!HookRuns(r)
        PROVE  core' \in [cf.Requests -> {"new", "queued", "hooked", "removed", "hook due", "settled"}]
    BY <1>4 DEF Approval!HookRuns
  <1>5. ASSUME NEW c \in cf.Captures, Approval(cf)!CaptureChains(c)
        PROVE  core' \in [cf.Requests -> {"new", "queued", "hooked", "removed", "hook due", "settled"}]
    BY <1>5 DEF Approval!CaptureChains
  <1>6. ASSUME NEW p \in cf.Posts, Approval(cf)!PostResolves(p)
        PROVE  core' \in [cf.Requests -> {"new", "queued", "hooked", "removed", "hook due", "settled"}]
    BY <1>6 DEF Approval!PostResolves
  <1> QED
    BY <1>1, <1>2, <1>3, <1>4, <1>5, <1>6
    DEF Approval!vars, Approval!Next, Approval!CaptureStep, Approval!PostStep,
        Approval!GetStep, Approval!Fire, Approval!FireStarts, Approval!FireChecks,
        Approval!FirePublishes, Approval!Forget, Approval!CaptureInserts,
        Approval!Dispatch, Approval!CaptureStarts, Approval!PostResponds,
        Approval!PostReconciles, Approval!PostLegacy, Approval!PostExact, Approval!GetReads,
        Approval!GetAnswers, Approval!GetDone, Approval!RunEnds, Approval!Toggle,
        Approval!pushes, Approval!env

LEMMA CapturesTyped ==
  ASSUME NEW cf, cap \in [cf.Captures -> Approval(cf)!Capture], CaptureFacts(cf),
         [Approval(cf)!Next]_(Approval(cf)!vars)
  PROVE  cap' \in [cf.Captures -> Approval(cf)!Capture]
  <1> USE DEF Approval!pushes, Approval!env
  <1>0. /\ Approval(cf)!Free \in Approval(cf)!Capture
        /\ \A c \in cf.Captures : cap[c] \in Approval(cf)!Capture
    BY RecordsAre
  <1>1. CASE UNCHANGED cap
    BY <1>1
  <1>2. ASSUME NEW c \in cf.Captures, Approval(cf)!CaptureChains(c)
        PROVE  cap' \in [cf.Captures -> Approval(cf)!Capture]
    BY <1>0, <1>2 DEF Approval!CaptureChains, Approval!Capture
  <1>3. ASSUME NEW c \in cf.Captures, Approval(cf)!CaptureInserts(c)
        PROVE  cap' \in [cf.Captures -> Approval(cf)!Capture]
    BY <1>0, <1>3 DEF Approval!CaptureInserts, Approval!Capture
  <1>4. ASSUME NEW c \in cf.Captures, Approval(cf)!Dispatch(c)
        PROVE  cap' \in [cf.Captures -> Approval(cf)!Capture]
    BY <1>4, RecordsAre DEF Approval!Dispatch, Approval!Capture
  <1>5. ASSUME NEW c \in cf.Captures, NEW r \in cf.Requests, Approval(cf)!CaptureStarts(c, r)
        PROVE  cap' \in [cf.Captures -> Approval(cf)!Capture]
    BY <1>5, RecordsAre DEF Approval!CaptureStarts, Approval!Capture
  <1> QED
    BY <1>1, <1>2, <1>3, <1>4, <1>5
    DEF Approval!vars, Approval!Next, Approval!CaptureStep, Approval!PostStep,
        Approval!GetStep, Approval!Enqueue, Approval!Withdraw, Approval!HookRuns,
        Approval!Fire, Approval!FireStarts, Approval!FireChecks,
        Approval!FirePublishes, Approval!Forget, Approval!PostResolves, Approval!PostResponds,
        Approval!PostReconciles, Approval!PostLegacy, Approval!PostExact, Approval!GetReads,
        Approval!GetAnswers, Approval!GetDone, Approval!RunEnds, Approval!Toggle,
        Approval!pushes, Approval!env

\* The moves of an answer, field by field.
LEMMA PostMoves ==
  ASSUME NEW cf, NEW x \in Approval(cf)!Post
  PROVE  /\ \A s \in {"submit", "native", "respond", "reconcile", "done"} :
               [x EXCEPT !.pc = s] \in Approval(cf)!Post
         /\ \A r \in cf.Requests : /\ [x EXCEPT !.pc = "submit", !.asked = r, !.exact = TRUE] \in Approval(cf)!Post
                                   /\ [x EXCEPT !.pc = "submit", !.asked = r] \in Approval(cf)!Post
                                   /\ [x EXCEPT !.got = r] \in Approval(cf)!Post
         /\ \A S \in SUBSET cf.Requests : [x EXCEPT !.live = S] \in Approval(cf)!Post
  BY DEF Approval!Post

LEMMA LiveAre ==
  ASSUME NEW cf
  PROVE  Approval(cf)!Live \in SUBSET cf.Requests BY DEF Approval!Live

LEMMA AnswersTyped ==
  ASSUME NEW cf,
         post \in [cf.Posts -> Approval(cf)!Post], [Approval(cf)!Next]_(Approval(cf)!vars)
  PROVE  post' \in [cf.Posts -> Approval(cf)!Post]
  <1> USE DEF Approval!pushes, Approval!env, Approval!Post
  <1>1. CASE UNCHANGED post
    BY <1>1
  <1>2. ASSUME NEW p \in cf.Posts, Approval(cf)!PostResolves(p)
        PROVE  post' \in [cf.Posts -> Approval(cf)!Post]
    <2>1. post[p] \in Approval(cf)!Post OBVIOUS
    <2>2. CASE post' = [post EXCEPT ![p].pc = "done"] BY <2>1, <2>2, PostMoves
    <2>3. ASSUME NEW r \in cf.Requests, post' = [post EXCEPT ![p].got = r, ![p].pc = "respond"]
          PROVE  post' \in [cf.Posts -> Approval(cf)!Post]
      <3>1. [post EXCEPT ![p].got = r] \in [cf.Posts -> Approval(cf)!Post]
        BY <2>1, PostMoves
      <3> DEFINE f == [post EXCEPT ![p].got = r]
      <3>2. post' = [f EXCEPT ![p].pc = "respond"] BY <2>3
      <3>3. f \in [cf.Posts -> Approval(cf)!Post] BY <3>1
      <3> HIDE DEF f
      <3>4. f[p] \in Approval(cf)!Post BY <3>3
      <3> QED BY <3>2, <3>3, <3>4, PostMoves
    <2>4. post[p].asked \in cf.Requests \cup {Approval(cf)!None} BY <2>1 DEF Approval!Post
    <2> QED BY <1>2, <2>2, <2>3, <2>4, LiveAre DEF Approval!PostResolves, Approval!Answerable
  <1>3. ASSUME NEW p \in cf.Posts, Approval(cf)!PostResponds(p)
        PROVE  post' \in [cf.Posts -> Approval(cf)!Post]
    <2>1. post[p] \in Approval(cf)!Post OBVIOUS
    <2>2. ASSUME NEW s \in {"reconcile", "done"}
          PROVE  [post EXCEPT ![p].pc = s, ![p].live = Approval(cf)!Live] \in [cf.Posts -> Approval(cf)!Post]
      <3>1. [post EXCEPT ![p].pc = s] \in [cf.Posts -> Approval(cf)!Post] BY <2>1, PostMoves
      <3> DEFINE f == [post EXCEPT ![p].pc = s]
      <3>2. f \in [cf.Posts -> Approval(cf)!Post] BY <3>1
      <3> HIDE DEF f
      <3>3. f[p] \in Approval(cf)!Post BY <3>2
      <3>4. Approval(cf)!Live \in SUBSET cf.Requests BY LiveAre
      <3>5. [f EXCEPT ![p].live = Approval(cf)!Live] \in [cf.Posts -> Approval(cf)!Post]
        BY <3>2, <3>3, <3>4, PostMoves
      <3> QED BY <3>5 DEF f
    <2> QED BY <1>3, <2>2 DEF Approval!PostResponds
  <1>4. ASSUME NEW p \in cf.Posts, Approval(cf)!PostReconciles(p)
        PROVE  post' \in [cf.Posts -> Approval(cf)!Post]
    BY <1>4 DEF Approval!PostReconciles
  <1>5. ASSUME NEW p \in cf.Posts, Approval(cf)!PostLegacy(p)
        PROVE  post' \in [cf.Posts -> Approval(cf)!Post]
    <2>1. post[p] \in Approval(cf)!Post OBVIOUS
    <2>2. ASSUME NEW s \in {"native", "done"}, post' = [post EXCEPT ![p] = [post[p] EXCEPT !.pc = s]]
          PROVE  post' \in [cf.Posts -> Approval(cf)!Post]
      BY <2>1, <2>2, PostMoves
    <2>3. ASSUME NEW r \in cf.Requests,
                 post' = [post EXCEPT ![p] = [post[p] EXCEPT !.pc = "submit", !.asked = r]]
          PROVE  post' \in [cf.Posts -> Approval(cf)!Post]
      BY <2>1, <2>3, PostMoves
    <2> QED BY <1>5, <2>2, <2>3, LiveAre DEF Approval!PostLegacy
  <1>6. ASSUME NEW p \in cf.Posts, NEW r \in cf.Requests, Approval(cf)!PostExact(p, r)
        PROVE  post' \in [cf.Posts -> Approval(cf)!Post]
    BY <1>6 DEF Approval!PostExact
  <1> QED
    BY <1>1, <1>2, <1>3, <1>4, <1>5, <1>6
    DEF Approval!vars, Approval!Next, Approval!CaptureStep, Approval!PostStep,
        Approval!GetStep, Approval!Enqueue, Approval!Withdraw, Approval!HookRuns,
        Approval!Fire, Approval!FireStarts, Approval!FireChecks,
        Approval!FirePublishes, Approval!Forget, Approval!CaptureChains, Approval!CaptureInserts,
        Approval!Dispatch, Approval!CaptureStarts, Approval!GetReads, Approval!GetAnswers,
        Approval!GetDone, Approval!RunEnds, Approval!Toggle, Approval!pushes, Approval!env

LEMMA NoticesTyped ==
  ASSUME NEW cf, initial \in [cf.Requests -> Nat], reminder \in [cf.Requests -> Nat],
         cap \in [cf.Captures -> Approval(cf)!Capture], CaptureFacts(cf),
         [Approval(cf)!Next]_(Approval(cf)!vars)
  PROVE  initial' \in [cf.Requests -> Nat]
         /\ reminder' \in [cf.Requests -> Nat]
  <1> USE DEF Approval!pushes, Approval!env
  <1>1. CASE UNCHANGED <<initial, reminder>>
    BY <1>1
  <1>2. ASSUME NEW r \in cf.Requests, Approval(cf)!Fire(r)
        PROVE  initial' \in [cf.Requests -> Nat]
               /\ reminder' \in [cf.Requests -> Nat]
    BY <1>2 DEF Approval!Fire, Approval!FireStarts, Approval!FireChecks, Approval!FirePublishes
  <1>3. ASSUME NEW c \in cf.Captures, Approval(cf)!Dispatch(c)
        PROVE  initial' \in [cf.Requests -> Nat]
               /\ reminder' \in [cf.Requests -> Nat]
    BY <1>3 DEF Approval!Dispatch, CaptureFacts
  <1> QED
    BY <1>1, <1>2, <1>3
    DEF Approval!vars, Approval!Next, Approval!CaptureStep, Approval!PostStep,
        Approval!GetStep, Approval!Enqueue, Approval!Withdraw, Approval!HookRuns,
        Approval!Forget, Approval!CaptureChains, Approval!CaptureInserts,
        Approval!CaptureStarts, Approval!PostResolves, Approval!PostResponds,
        Approval!PostReconciles, Approval!PostLegacy, Approval!PostExact, Approval!GetReads,
        Approval!GetAnswers, Approval!GetDone, Approval!RunEnds, Approval!Toggle,
        Approval!pushes, Approval!env

LEMMA GetTyped ==
  ASSUME NEW cf, get \in Approval(cf)!Get, [Approval(cf)!Next]_(Approval(cf)!vars)
  PROVE  get' \in Approval(cf)!Get
  <1> USE DEF Approval!pushes, Approval!env, Approval!Get
  <1>1. CASE UNCHANGED get
    BY <1>1
  <1>2. CASE Approval(cf)!GetReads BY <1>2 DEF Approval!GetReads, Approval!Live
  <1>3. CASE Approval(cf)!GetAnswers
    BY <1>3 DEF Approval!GetAnswers, Approval!Shown, Approval!Pending
  <1>4. CASE Approval(cf)!GetDone BY <1>4 DEF Approval!GetDone
  <1> QED
    BY <1>1, <1>2, <1>3, <1>4
    DEF Approval!vars, Approval!Next, Approval!CaptureStep, Approval!PostStep,
        Approval!GetStep, Approval!Enqueue, Approval!Withdraw, Approval!HookRuns,
        Approval!Fire, Approval!FireStarts, Approval!FireChecks,
        Approval!FirePublishes, Approval!Forget, Approval!CaptureChains, Approval!CaptureInserts,
        Approval!Dispatch, Approval!CaptureStarts, Approval!PostResolves,
        Approval!PostResponds, Approval!PostReconciles, Approval!PostLegacy,
        Approval!PostExact, Approval!RunEnds, Approval!Toggle, Approval!pushes, Approval!env

LEMMA FlagsTyped ==
  ASSUME NEW cf,
         dropped \subseteq cf.Requests, enabled \in BOOLEAN, ended \in BOOLEAN, toggles \in Nat,
         cap \in [cf.Captures -> Approval(cf)!Capture], CaptureFacts(cf),
         [Approval(cf)!Next]_(Approval(cf)!vars)
  PROVE  dropped' \subseteq cf.Requests /\ enabled' \in BOOLEAN /\ ended' \in BOOLEAN
         /\ toggles' \in Nat
  <1> USE DEF Approval!pushes, Approval!env
  <1>1. CASE UNCHANGED <<dropped, enabled, ended, toggles>>
    BY <1>1
  <1>2. ASSUME NEW c \in cf.Captures, Approval(cf)!CaptureInserts(c)
        PROVE  dropped' \subseteq cf.Requests /\ enabled' \in BOOLEAN /\ ended' \in BOOLEAN
               /\ toggles' \in Nat
    BY <1>2 DEF Approval!CaptureInserts, CaptureFacts
  <1>3. CASE Approval(cf)!RunEnds BY <1>3 DEF Approval!RunEnds
  <1>4. CASE Approval(cf)!Toggle
    <2>1. dropped' \subseteq cf.Requests /\ ended' \in BOOLEAN /\ toggles' \in Nat
      BY <1>4 DEF Approval!Toggle
    <2>2. enabled' \in BOOLEAN
      BY <1>4 DEF Approval!Toggle
    <2> QED BY <2>1, <2>2
  <1> QED
    BY <1>1, <1>2, <1>3, <1>4
    DEF Approval!vars, Approval!Next, Approval!CaptureStep, Approval!PostStep,
        Approval!GetStep, Approval!Enqueue, Approval!Withdraw, Approval!HookRuns,
        Approval!Fire, Approval!FireStarts, Approval!FireChecks,
        Approval!FirePublishes, Approval!Forget, Approval!CaptureChains, Approval!Dispatch,
        Approval!CaptureStarts, Approval!PostResolves, Approval!PostResponds,
        Approval!PostReconciles, Approval!PostLegacy, Approval!PostExact, Approval!GetReads,
        Approval!GetAnswers, Approval!GetDone, Approval!pushes, Approval!env

LEMMA ShownKept ==
  ASSUME NEW cf, Approval(cf)!TypeOK, ShownFacts, [Approval(cf)!Next]_(Approval(cf)!vars)
  PROVE  ShownFacts'
  <1> USE DEF Approval!pushes, Approval!env, Approval!TypeOK, ShownFacts, Approval!Get
  <1>1. CASE UNCHANGED get
    BY <1>1
  <1>2. CASE Approval(cf)!GetReads BY <1>2 DEF Approval!GetReads
  <1>3. CASE Approval(cf)!GetAnswers BY <1>3 DEF Approval!GetAnswers, Approval!Shown
  <1>4. CASE Approval(cf)!GetDone BY <1>4 DEF Approval!GetDone
  <1> QED
    BY <1>1, <1>2, <1>3, <1>4
    DEF Approval!vars, Approval!Next, Approval!CaptureStep, Approval!PostStep,
        Approval!GetStep, Approval!Enqueue, Approval!Withdraw, Approval!HookRuns,
        Approval!Fire, Approval!FireStarts, Approval!FireChecks,
        Approval!FirePublishes, Approval!Forget, Approval!CaptureChains, Approval!CaptureInserts,
        Approval!Dispatch, Approval!CaptureStarts, Approval!PostResolves,
        Approval!PostResponds, Approval!PostReconciles, Approval!PostLegacy,
        Approval!PostExact, Approval!RunEnds, Approval!Toggle, Approval!pushes, Approval!env

LEMMA AnswersKept ==
  ASSUME NEW cf,
         post \in [cf.Posts -> Approval(cf)!Post], AnswerFacts(cf), [Approval(cf)!Next]_(Approval(cf)!vars)
  PROVE  AnswerFacts(cf)'
  <1> USE DEF Approval!pushes, Approval!env, Approval!Post, AnswerFacts
  <1>1. CASE UNCHANGED post
    BY <1>1
  <1>2. ASSUME NEW p \in cf.Posts, Approval(cf)!PostResolves(p)
        PROVE  AnswerFacts(cf)'
    <2>1. post[p] \in Approval(cf)!Post OBVIOUS
    <2>2. \A x \in cf.Posts : x # p => post'[x] = post[x] BY <1>2 DEF Approval!PostResolves
    <2>3. CASE post' = [post EXCEPT ![p].pc = "done"] BY <2>1, <2>2, <2>3
    <2>4. ASSUME NEW r \in Approval(cf)!Answerable(p),
                 post' = [post EXCEPT ![p].got = r, ![p].pc = "respond"]
          PROVE  AnswerFacts(cf)'
      BY <2>1, <2>4, <1>2, <2>2 DEF Approval!PostResolves, Approval!Answerable
    <2> QED BY <1>2, <2>3, <2>4 DEF Approval!PostResolves
  <1>3. ASSUME NEW p \in cf.Posts, Approval(cf)!PostResponds(p)
        PROVE  AnswerFacts(cf)'
    BY <1>3 DEF Approval!PostResponds
  <1>4. ASSUME NEW p \in cf.Posts, Approval(cf)!PostReconciles(p)
        PROVE  AnswerFacts(cf)'
    BY <1>4 DEF Approval!PostReconciles
  <1>5. ASSUME NEW p \in cf.Posts, Approval(cf)!PostLegacy(p)
        PROVE  AnswerFacts(cf)'
    <2>1. post[p] \in Approval(cf)!Post /\ post[p].pc = "new" BY <1>5 DEF Approval!PostLegacy
    <2>2. \A x \in cf.Posts : x # p => post'[x] = post[x] BY <1>5 DEF Approval!PostLegacy
    <2>3. \/ post'[p] = [post[p] EXCEPT !.pc = "native"]
          \/ post'[p] = [post[p] EXCEPT !.pc = "done"]
          \/ \E r \in Approval(cf)!Live : post'[p] = [post[p] EXCEPT !.pc = "submit", !.asked = r]
      BY <1>5 DEF Approval!PostLegacy
    <2>4. /\ post'[p].got = post[p].got /\ post'[p].pc # "new"
          /\ post'[p].pc # "submit" => post'[p].asked = post[p].asked
      BY <2>1, <2>3 DEF Approval!Post
    <2>5. post'[p].pc \in {"native", "done", "submit"} BY <2>1, <2>3 DEF Approval!Post
    <2>6. post[p].asked = Approval(cf)!None /\ post[p].got = Approval(cf)!None BY <2>1
    <2> QED BY <2>2, <2>4, <2>5, <2>6
  <1>6. ASSUME NEW p \in cf.Posts, NEW r \in cf.Requests, Approval(cf)!PostExact(p, r)
        PROVE  AnswerFacts(cf)'
    BY <1>6 DEF Approval!PostExact
  <1> QED
    BY <1>1, <1>2, <1>3, <1>4, <1>5, <1>6
    DEF Approval!vars, Approval!Next, Approval!CaptureStep, Approval!PostStep,
        Approval!GetStep, Approval!Enqueue, Approval!Withdraw, Approval!HookRuns,
        Approval!Fire, Approval!FireStarts, Approval!FireChecks,
        Approval!FirePublishes, Approval!Forget, Approval!CaptureChains, Approval!CaptureInserts,
        Approval!Dispatch, Approval!CaptureStarts, Approval!GetReads, Approval!GetAnswers,
        Approval!GetDone, Approval!RunEnds, Approval!Toggle, Approval!pushes, Approval!env

\* An entry appears only where there is room, and goes only when it is over.
LEMMA RegistryShrinks ==
  ASSUME NEW cf,
         Approval(cf)!Shape, RegistryFacts(cf), Approval(cf)!Entries' \subseteq Approval(cf)!Entries
  PROVE  RegistryFacts(cf)'
  <1>1. /\ IsFiniteSet(Approval(cf)!Entries') /\ Cardinality(Approval(cf)!Entries') \in Nat
        /\ Cardinality(Approval(cf)!Entries') <= Cardinality(Approval(cf)!Entries)
        /\ Cardinality(Approval(cf)!Entries) \in Nat
    BY FS_Subset, FS_CardinalityType DEF RegistryFacts
  <1>2. Cardinality(Approval(cf)!Entries) <= cf.MaxPending /\ cf.MaxPending \in Nat
    BY DEF RegistryFacts, Approval!Shape
  <1>3. Cardinality(Approval(cf)!Entries') <= cf.MaxPending BY <1>1, <1>2
  <1> QED BY <1>1, <1>3 DEF RegistryFacts

LEMMA RegistryKept ==
  ASSUME NEW cf,
         Approval(cf)!Shape, entry \in [cf.Requests -> {"none", "pending", "resolved"}],
         outcome \in [cf.Requests -> Approval(cf)!Outcomes], timer \in [cf.Requests -> Nat],
         emitted \in [cf.Requests -> Nat], cap \in [cf.Captures -> Approval(cf)!Capture], CaptureFacts(cf),
         RegistryFacts(cf), [Approval(cf)!Next]_(Approval(cf)!vars)
  PROVE  RegistryFacts(cf)'
  <1> USE DEF Approval!pushes, Approval!env
  <1>1. CASE UNCHANGED entry
    BY <1>1, RegistryShrinks DEF Approval!Entries
  <1>2. ASSUME NEW r \in cf.Requests, Approval(cf)!HookRuns(r)
        PROVE  RegistryFacts(cf)'
    BY <1>2, SettledRows, RegistryShrinks
    DEF Approval!HookRuns, Approval!Outcomes, Approval!Entries
  <1>3. ASSUME NEW r \in cf.Requests, Approval(cf)!Forget(r)
        PROVE  RegistryFacts(cf)'
    BY <1>3, RegistryShrinks DEF Approval!Forget, Approval!Entries
  <1>4. ASSUME NEW c \in cf.Captures, Approval(cf)!CaptureInserts(c)
        PROVE  RegistryFacts(cf)'
    <2>1. CASE Approval(cf)!Entries' \subseteq Approval(cf)!Entries BY <2>1, RegistryShrinks
    <2>2. CASE Approval(cf)!Room /\ entry' = [entry EXCEPT ![cap[c].req] = "pending"]
      <3>1. Approval(cf)!Entries' \subseteq Approval(cf)!Entries \cup {cap[c].req}
        BY <2>2 DEF Approval!Entries
      <3>2. /\ IsFiniteSet(Approval(cf)!Entries \cup {cap[c].req})
            /\ Cardinality(Approval(cf)!Entries \cup {cap[c].req}) \in
                  {Cardinality(Approval(cf)!Entries), Cardinality(Approval(cf)!Entries) + 1}
        BY FS_AddElement DEF RegistryFacts
      <3>3. Cardinality(Approval(cf)!Entries) < cf.MaxPending BY <2>2, CountsHere DEF Approval!Room
      <3>4. /\ IsFiniteSet(Approval(cf)!Entries')
            /\ Cardinality(Approval(cf)!Entries') <= Cardinality(Approval(cf)!Entries \cup {cap[c].req})
            /\ Cardinality(Approval(cf)!Entries') \in Nat
        BY <3>1, <3>2, FS_Subset, FS_CardinalityType
      <3>5. Cardinality(Approval(cf)!Entries) \in Nat BY FS_CardinalityType DEF RegistryFacts
      <3>6. cf.MaxPending \in Nat BY DEF Approval!Shape
      <3>7. Cardinality(Approval(cf)!Entries') <= cf.MaxPending BY <3>2, <3>3, <3>4, <3>5, <3>6
      <3> QED BY <3>4, <3>7 DEF RegistryFacts
    <2>3. CASE UNCHANGED entry
      BY <2>3, <2>1 DEF Approval!Entries
    <2> QED BY <1>4, <2>2, <2>3 DEF Approval!CaptureInserts
  <1>5. ASSUME NEW p \in cf.Posts, Approval(cf)!PostResponds(p)
        PROVE  RegistryFacts(cf)'
    BY <1>5, SettledRows, RegistryShrinks
    DEF Approval!PostResponds, Approval!Outcomes, Approval!Entries
  <1>6. ASSUME NEW p \in cf.Posts, Approval(cf)!PostReconciles(p)
        PROVE  RegistryFacts(cf)'
    BY <1>6, ReconciledRows, RegistryShrinks DEF Approval!PostReconciles, Approval!Entries
  <1>7. CASE Approval(cf)!GetAnswers
    BY <1>7, ReconciledRows, RegistryShrinks DEF Approval!GetAnswers, Approval!Entries
  <1>8. CASE Approval(cf)!RunEnds
    BY <1>8, SettledRows, RegistryShrinks
    DEF Approval!RunEnds, Approval!Outcomes, Approval!Entries
  <1> QED
    BY <1>1, <1>2, <1>3, <1>4, <1>5, <1>6, <1>7, <1>8
    DEF Approval!vars, Approval!Next, Approval!CaptureStep, Approval!PostStep,
        Approval!GetStep, Approval!Enqueue, Approval!Withdraw, Approval!Fire, Approval!FireStarts, Approval!FireChecks,
        Approval!FirePublishes,
        Approval!CaptureChains, Approval!Dispatch, Approval!CaptureStarts,
        Approval!PostResolves, Approval!PostLegacy, Approval!PostExact, Approval!GetReads,
        Approval!GetDone, Approval!Toggle, Approval!pushes, Approval!env

-----------------------------------------------------------------------------
(* What a step may do to an entry and to a capture.                        *)

EntryStep(cf, r) ==
    \/ entry'[r] = entry[r] /\ outcome'[r] = outcome[r] /\ emitted'[r] = emitted[r]
    \/ /\ entry[r] = "pending" /\ entry'[r] = "resolved" /\ outcome'[r] # "none"
       /\ emitted'[r] \in {emitted[r], emitted[r] + 1}
    \/ /\ entry[r] = "resolved" /\ entry'[r] = "none"
       /\ outcome'[r] = outcome[r] /\ emitted'[r] = emitted[r]
    \/ /\ Fresh(r) /\ entry'[r] = "pending" /\ outcome'[r] = "none" /\ emitted'[r] = emitted[r]
       /\ \E c \in cf.Captures : cap[c].pc = "insert" /\ cap[c].req = r /\ cap'[c].pc = "dispatch"

CaptureMove(cf, c) ==
    \/ cap'[c] = cap[c]
    \/ cap'[c].pc = "idle" /\ cap'[c].req = Approval(cf)!None
    \/ cap[c].pc = "chain" /\ cap'[c].pc = "insert" /\ cap'[c].req = cap[c].req
    \/ /\ cap[c].pc = "insert" /\ cap'[c].pc = "dispatch" /\ cap'[c].req = cap[c].req
       /\ entry'[cap[c].req] = "pending"
    \/ /\ cap[c].pc = "idle" /\ cap'[c].pc = "chain" /\ cap'[c].req \in cf.Requests
       /\ Fresh(cap'[c].req) /\ core[cap'[c].req] # "new"
       /\ \A x \in cf.Captures : cap[x].req # cap'[c].req
       /\ \A x \in cf.Captures \ {c} : cap'[x] = cap[x]

NoticeStep(cf, r) ==
    \/ initial'[r] = initial[r]
    \/ /\ initial'[r] = initial[r] + 1
       /\ \E c \in cf.Captures : cap[c].pc = "dispatch" /\ cap[c].req = r /\ cap'[c].pc = "idle"

LEMMA EntrySteps ==
  ASSUME NEW cf, entry \in [cf.Requests -> {"none", "pending", "resolved"}],
         outcome \in [cf.Requests -> Approval(cf)!Outcomes], timer \in [cf.Requests -> Nat],
         emitted \in [cf.Requests -> Nat], cap \in [cf.Captures -> Approval(cf)!Capture], CaptureFacts(cf),
         [Approval(cf)!Next]_(Approval(cf)!vars)
  PROVE  \A x \in cf.Requests : EntryStep(cf, x)
  <1> USE DEF Approval!pushes, Approval!env
  <1>1. CASE UNCHANGED <<entry, outcome, emitted>>
    BY <1>1 DEF EntryStep
  <1>2. ASSUME NEW r \in cf.Requests, Approval(cf)!HookRuns(r)
        PROVE  \A x \in cf.Requests : EntryStep(cf, x)
    BY <1>2, SettledRows DEF Approval!HookRuns, Approval!Outcomes, EntryStep
  <1>3. ASSUME NEW r \in cf.Requests, Approval(cf)!Forget(r)
        PROVE  \A x \in cf.Requests : EntryStep(cf, x)
    BY <1>3 DEF Approval!Forget, EntryStep
  <1>4. ASSUME NEW c \in cf.Captures, Approval(cf)!CaptureInserts(c)
        PROVE  \A x \in cf.Requests : EntryStep(cf, x)
    <2> DEFINE r == cap[c].req
    <2>1. r \in cf.Requests /\ Fresh(r) BY <1>4 DEF Approval!CaptureInserts, CaptureFacts
    <2>2. CASE UNCHANGED <<entry, outcome>>
      BY <1>4, <2>2 DEF Approval!CaptureInserts, EntryStep
    <2>3. CASE /\ entry' = [entry EXCEPT ![r] = "pending"]
               /\ outcome' = [outcome EXCEPT ![r] = "none"]
               /\ cap' = [cap EXCEPT ![c].pc = "dispatch"]
      <3>1. cap[c].pc = "insert" /\ cap'[c].pc = "dispatch" /\ emitted' = emitted
        BY <1>4, <2>3 DEF Approval!CaptureInserts, Approval!Capture
      <3>2. ASSUME NEW x \in cf.Requests PROVE EntryStep(cf, x)
        BY <2>1, <2>3, <3>1 DEF EntryStep
      <3> QED BY <3>2
    <2> QED BY <1>4, <2>2, <2>3 DEF Approval!CaptureInserts
  <1>5. ASSUME NEW p \in cf.Posts, Approval(cf)!PostResponds(p)
        PROVE  \A x \in cf.Requests : EntryStep(cf, x)
    BY <1>5, SettledRows DEF Approval!PostResponds, Approval!Outcomes, EntryStep
  <1>6. ASSUME NEW p \in cf.Posts, Approval(cf)!PostReconciles(p)
        PROVE  \A x \in cf.Requests : EntryStep(cf, x)
    BY <1>6, ReconciledRows DEF Approval!PostReconciles, EntryStep
  <1>7. CASE Approval(cf)!GetAnswers BY <1>7, ReconciledRows DEF Approval!GetAnswers, EntryStep
  <1>8. CASE Approval(cf)!RunEnds
    BY <1>8, SettledRows DEF Approval!RunEnds, Approval!Outcomes, EntryStep
  <1> QED
    BY <1>1, <1>2, <1>3, <1>4, <1>5, <1>6, <1>7, <1>8
    DEF Approval!vars, Approval!Next, Approval!CaptureStep, Approval!PostStep,
        Approval!GetStep, Approval!Enqueue, Approval!Withdraw, Approval!Fire, Approval!FireStarts, Approval!FireChecks,
        Approval!FirePublishes,
        Approval!CaptureChains, Approval!Dispatch, Approval!CaptureStarts,
        Approval!PostResolves, Approval!PostLegacy, Approval!PostExact, Approval!GetReads,
        Approval!GetDone, Approval!Toggle, Approval!pushes, Approval!env

LEMMA CaptureMoves ==
  ASSUME NEW cf, entry \in [cf.Requests -> {"none", "pending", "resolved"}],
         outcome \in [cf.Requests -> Approval(cf)!Outcomes], timer \in [cf.Requests -> Nat],
         emitted \in [cf.Requests -> Nat], cap \in [cf.Captures -> Approval(cf)!Capture], CaptureFacts(cf),
         [Approval(cf)!Next]_(Approval(cf)!vars)
  PROVE  \A x \in cf.Captures : CaptureMove(cf, x)
  <1> USE DEF Approval!pushes, Approval!env
  <1>1. CASE UNCHANGED cap
    BY <1>1 DEF CaptureMove
  <1>2. ASSUME NEW c \in cf.Captures, Approval(cf)!CaptureChains(c)
        PROVE  \A x \in cf.Captures : CaptureMove(cf, x)
    <2>1. \A x \in cf.Captures \ {c} : cap'[x] = cap[x] BY <1>2 DEF Approval!CaptureChains
    <2>2. CASE cap' = [cap EXCEPT ![c] = Approval(cf)!Free]
      BY <2>1, <2>2, RecordsAre DEF CaptureMove
    <2>3. CASE cap' = [cap EXCEPT ![c].pc = "insert"]
      BY <1>2, <2>3, <2>1 DEF Approval!CaptureChains, Approval!Capture, CaptureMove
    <2> QED BY <1>2, <2>2, <2>3 DEF Approval!CaptureChains
  <1>3. ASSUME NEW c \in cf.Captures, Approval(cf)!CaptureInserts(c)
        PROVE  \A x \in cf.Captures : CaptureMove(cf, x)
    <2>1. \A x \in cf.Captures \ {c} : cap'[x] = cap[x] BY <1>3 DEF Approval!CaptureInserts
    <2>2. CASE cap' = [cap EXCEPT ![c] = Approval(cf)!Free]
      BY <2>1, <2>2, RecordsAre DEF CaptureMove
    <2>3. CASE /\ entry' = [entry EXCEPT ![cap[c].req] = "pending"]
               /\ cap' = [cap EXCEPT ![c].pc = "dispatch"]
      BY <1>3, <2>3, <2>1 DEF Approval!CaptureInserts, Approval!Capture, CaptureFacts, CaptureMove
    <2> QED BY <1>3, <2>2, <2>3 DEF Approval!CaptureInserts
  <1>4. ASSUME NEW c \in cf.Captures, Approval(cf)!Dispatch(c)
        PROVE  \A x \in cf.Captures : CaptureMove(cf, x)
    BY <1>4, RecordsAre DEF Approval!Dispatch, CaptureMove
  <1>5. ASSUME NEW c \in cf.Captures, NEW r \in cf.Requests, Approval(cf)!CaptureStarts(c, r)
        PROVE  \A x \in cf.Captures : CaptureMove(cf, x)
    BY <1>5 DEF Approval!CaptureStarts, Fresh, CaptureMove
  <1> QED
    BY <1>1, <1>2, <1>3, <1>4, <1>5
    DEF Approval!vars, Approval!Next, Approval!CaptureStep, Approval!PostStep,
        Approval!GetStep, Approval!Enqueue, Approval!Withdraw, Approval!HookRuns,
        Approval!Fire, Approval!FireStarts, Approval!FireChecks,
        Approval!FirePublishes, Approval!Forget, Approval!PostResolves, Approval!PostResponds,
        Approval!PostReconciles, Approval!PostLegacy, Approval!PostExact, Approval!GetReads,
        Approval!GetAnswers, Approval!GetDone, Approval!RunEnds, Approval!Toggle,
        Approval!pushes, Approval!env

LEMMA NoticeSteps ==
  ASSUME NEW cf,
         initial \in [cf.Requests -> Nat], cap \in [cf.Captures -> Approval(cf)!Capture], CaptureFacts(cf),
         [Approval(cf)!Next]_(Approval(cf)!vars)
  PROVE  \A x \in cf.Requests : NoticeStep(cf, x)
  <1> USE DEF Approval!pushes, Approval!env
  <1>1. CASE UNCHANGED initial
    BY <1>1 DEF NoticeStep
  <1>2. ASSUME NEW c \in cf.Captures, Approval(cf)!Dispatch(c)
        PROVE  \A x \in cf.Requests : NoticeStep(cf, x)
    BY <1>2, RecordsAre DEF Approval!Dispatch, NoticeStep
  <1> QED
    BY <1>1, <1>2
    DEF Approval!vars, Approval!Next, Approval!CaptureStep, Approval!PostStep,
        Approval!GetStep, Approval!Enqueue, Approval!Withdraw, Approval!HookRuns,
        Approval!Fire, Approval!FireStarts, Approval!FireChecks,
        Approval!FirePublishes, Approval!Forget, Approval!CaptureChains, Approval!CaptureInserts,
        Approval!CaptureStarts, Approval!PostResolves, Approval!PostResponds,
        Approval!PostReconciles, Approval!PostLegacy, Approval!PostExact, Approval!GetReads,
        Approval!GetAnswers, Approval!GetDone, Approval!RunEnds, Approval!Toggle,
        Approval!pushes, Approval!env

\* What a step may do to a request, a timer and a firing of it.
CoreStep(r) ==
    /\ core[r] # "new" => core'[r] # "new"
    /\ core[r] \notin {"new", "queued", "hooked"} => core'[r] \notin {"new", "queued", "hooked"}

FiringStep(cf, r) ==
    \/ UNCHANGED <<firing[r], reminder[r], r \in late>>
    \/ /\ timer[r] > 0 /\ firing'[r] \in {"queue", "idle"} /\ reminder'[r] = reminder[r]
       /\ (r \in late)' = (r \in late \/ r \notin Approval(cf)!Live \/ ended)
    \/ /\ firing'[r] = "idle" /\ UNCHANGED <<reminder[r], r \in late>>
    \/ /\ \/ firing[r] = "queue" /\ r \in Approval(cf)!Live /\ firing'[r] = "switch"
          \/ firing[r] = "switch" /\ firing'[r] = "status"
          \/ firing[r] = "status" /\ ~ended /\ reminder[r] = 0 /\ firing'[r] = "publish"
       /\ UNCHANGED <<reminder[r], r \in late>>
    \/ /\ firing[r] = "publish" /\ firing'[r] = "idle" /\ reminder'[r] = reminder[r] + 1
       /\ UNCHANGED (r \in late)

Firings == {"idle", "queue", "switch", "status", "publish"}

LEMMA CoreSteps ==
  ASSUME NEW cf,
         core \in [cf.Requests -> {"new", "queued", "hooked", "removed", "hook due", "settled"}],
         [Approval(cf)!Next]_(Approval(cf)!vars)
  PROVE  \A x \in cf.Requests : CoreStep(x)
  <1> USE DEF Approval!pushes, Approval!env, Approval!Removed, CoreStep
  <1>1. CASE UNCHANGED core
    BY <1>1
  <1>2. ASSUME NEW r \in cf.Requests,
               Approval(cf)!Enqueue(r) \/ Approval(cf)!Withdraw(r) \/ Approval(cf)!HookRuns(r)
        PROVE  \A x \in cf.Requests : CoreStep(x)
    BY <1>2 DEF Approval!Enqueue, Approval!Withdraw, Approval!HookRuns
  <1>3. ASSUME NEW c \in cf.Captures, Approval(cf)!CaptureChains(c)
        PROVE  \A x \in cf.Requests : CoreStep(x)
    BY <1>3 DEF Approval!CaptureChains, Approval!Live
  <1>4. ASSUME NEW p \in cf.Posts, Approval(cf)!PostResolves(p)
        PROVE  \A x \in cf.Requests : CoreStep(x)
    <2>1. Approval(cf)!Answerable(p) \subseteq Approval(cf)!Live BY DEF Approval!Answerable
    <2> QED BY <1>4, <2>1 DEF Approval!PostResolves
  <1> QED
    BY <1>1, <1>2, <1>3, <1>4
    DEF Approval!vars, Approval!Next, Approval!CaptureStep, Approval!PostStep,
        Approval!GetStep, Approval!Fire, Approval!FireStarts, Approval!FireChecks,
        Approval!FirePublishes, Approval!Forget, Approval!CaptureInserts,
        Approval!Dispatch, Approval!CaptureStarts, Approval!PostResponds,
        Approval!PostReconciles, Approval!PostLegacy, Approval!PostExact, Approval!GetReads,
        Approval!GetAnswers, Approval!GetDone, Approval!RunEnds, Approval!Toggle

LEMMA FiringSteps ==
  ASSUME NEW cf,
         firing \in [cf.Requests -> Firings], late \subseteq cf.Requests,
         reminder \in [cf.Requests -> Nat], [Approval(cf)!Next]_(Approval(cf)!vars)
  PROVE  /\ \A x \in cf.Requests : FiringStep(cf, x)
         /\ firing' \in [cf.Requests -> Firings] /\ late' \subseteq cf.Requests
  <1> USE DEF Approval!pushes, Approval!env, Firings
  <1> DEFINE Goal == /\ \A x \in cf.Requests : FiringStep(cf, x)
                     /\ firing' \in [cf.Requests -> Firings] /\ late' \subseteq cf.Requests
  <1>1. CASE UNCHANGED <<firing, late, reminder>>
    BY <1>1 DEF FiringStep
  <1>2. ASSUME NEW r \in cf.Requests, Approval(cf)!FireStarts(r) PROVE Goal
    BY <1>2 DEF Approval!FireStarts, FiringStep
  <1>3. ASSUME NEW r \in cf.Requests, Approval(cf)!FireChecks(r) PROVE Goal
    <2>1. /\ UNCHANGED <<late, reminder>>
          /\ firing[r] \in {"queue", "switch", "status"}
      BY <1>3 DEF Approval!FireChecks, Approval!NextCheck
    <2>2. CASE firing' = [firing EXCEPT ![r] = "idle"]
      BY <2>1, <2>2 DEF FiringStep
    <2>3. CASE /\ Approval(cf)!CheckPasses(r)
               /\ firing' = [firing EXCEPT ![r] = Approval(cf)!NextCheck[@]]
      <3>1. firing' = [firing EXCEPT ![r] = Approval(cf)!NextCheck[firing[r]]] BY <2>3
      <3>2. Approval(cf)!NextCheck[firing[r]] = IF firing[r] = "queue" THEN "switch"
                                     ELSE IF firing[r] = "switch" THEN "status" ELSE "publish"
        BY <2>1 DEF Approval!NextCheck
      <3>3. \A x \in cf.Requests \ {r} : firing'[x] = firing[x] BY <3>1
      <3>4. firing'[r] = Approval(cf)!NextCheck[firing[r]] BY <3>1
      <3>5. FiringStep(cf, r) BY <2>1, <2>3, <3>2, <3>4 DEF Approval!CheckPasses, FiringStep
      <3>6. \A x \in cf.Requests \ {r} : FiringStep(cf, x) BY <2>1, <3>3 DEF FiringStep
      <3>7. firing' \in [cf.Requests -> Firings] BY <3>1, <3>2
      <3> QED BY <2>1, <3>5, <3>6, <3>7
    <2> QED BY <1>3, <2>2, <2>3 DEF Approval!FireChecks
  <1>4. ASSUME NEW r \in cf.Requests, Approval(cf)!FirePublishes(r) PROVE Goal
    BY <1>4 DEF Approval!FirePublishes, FiringStep
  <1> QED
    BY <1>1, <1>2, <1>3, <1>4
    DEF Approval!vars, Approval!Next, Approval!Fire, Approval!CaptureStep, Approval!PostStep,
        Approval!GetStep, Approval!Enqueue, Approval!Withdraw, Approval!HookRuns,
        Approval!Forget, Approval!CaptureChains, Approval!CaptureInserts, Approval!Dispatch,
        Approval!CaptureStarts, Approval!PostResolves, Approval!PostResponds,
        Approval!PostReconciles, Approval!PostLegacy, Approval!PostExact, Approval!GetReads,
        Approval!GetAnswers, Approval!GetDone, Approval!RunEnds, Approval!Toggle

\* A timer is armed by the dispatch of a capture, and a run ends once.
LEMMA TimersArmed ==
  ASSUME NEW cf, timer \in [cf.Requests -> Nat], cap \in [cf.Captures -> Approval(cf)!Capture],
         CaptureFacts(cf), [Approval(cf)!Next]_(Approval(cf)!vars)
  PROVE  /\ \A x \in cf.Requests : timer'[x] > 0 =>
               timer[x] > 0 \/ \E c \in cf.Captures : cap[c].pc = "dispatch" /\ cap[c].req = x
         /\ ended => ended'
  <1> USE DEF Approval!pushes, Approval!env
  <1> DEFINE Goal == \A x \in cf.Requests : timer'[x] > 0 =>
               timer[x] > 0 \/ \E c \in cf.Captures : cap[c].pc = "dispatch" /\ cap[c].req = x
  <1>1. CASE UNCHANGED <<timer, ended>>
    BY <1>1
  <1>2. ASSUME NEW r \in cf.Requests, Approval(cf)!HookRuns(r) PROVE Goal /\ ended' = ended
    <2>1. \A x \in cf.Requests : timer'[x] = 0 \/ timer'[x] = timer[x]
      BY <1>2 DEF Approval!HookRuns, Approval!Settle
    <2>2. ended' = ended BY <1>2 DEF Approval!HookRuns
    <2> QED BY <2>1, <2>2
  <1>3. ASSUME NEW r \in cf.Requests, Approval(cf)!FireStarts(r) PROVE Goal /\ ended' = ended
    BY <1>3 DEF Approval!FireStarts
  <1>4. ASSUME NEW c \in cf.Captures, Approval(cf)!Dispatch(c) PROVE Goal /\ ended' = ended
    BY <1>4 DEF Approval!Dispatch, CaptureFacts
  <1>5. ASSUME NEW p \in cf.Posts, Approval(cf)!PostResponds(p) PROVE Goal /\ ended' = ended
    BY <1>5 DEF Approval!PostResponds, Approval!Settle
  <1>6. CASE Approval(cf)!RunEnds BY <1>6 DEF Approval!RunEnds, Approval!Settle
  <1> QED
    BY <1>1, <1>2, <1>3, <1>4, <1>5, <1>6
    DEF Approval!vars, Approval!Next, Approval!Fire, Approval!FireChecks, Approval!FirePublishes,
        Approval!CaptureStep, Approval!PostStep, Approval!GetStep, Approval!Enqueue,
        Approval!Withdraw, Approval!Forget, Approval!CaptureChains, Approval!CaptureInserts,
        Approval!CaptureStarts, Approval!PostResolves, Approval!PostReconciles,
        Approval!PostLegacy, Approval!PostExact, Approval!GetReads, Approval!GetAnswers,
        Approval!GetDone, Approval!Toggle

LEMMA FireFactsKept ==
  ASSUME NEW cf,
         core \in [cf.Requests -> {"new", "queued", "hooked", "removed", "hook due", "settled"}],
         entry \in [cf.Requests -> {"none", "pending", "resolved"}],
         outcome \in [cf.Requests -> Approval(cf)!Outcomes], timer \in [cf.Requests -> Nat],
         emitted \in [cf.Requests -> Nat], reminder \in [cf.Requests -> Nat],
         firing \in [cf.Requests -> Firings], late \subseteq cf.Requests,
         cap \in [cf.Captures -> Approval(cf)!Capture], CaptureFacts(cf), FireFacts(cf),
         [Approval(cf)!Next]_(Approval(cf)!vars)
  PROVE  FireFacts(cf)'
  <1>1. ASSUME NEW r \in cf.Requests
        PROVE  /\ firing'[r] = "publish" => reminder'[r] = 0 /\ r \notin late'
               /\ r \in late' => ended' \/ core'[r] \notin {"queued", "hooked"}
               /\ r \in late' /\ firing'[r] \in {"switch", "status"} => ended'
               /\ timer'[r] > 0 \/ r \in late' => core'[r] # "new"
    <2>1. CoreStep(r) /\ FiringStep(cf, r) BY CoreSteps, FiringSteps
    <2>2. ended => ended' BY TimersArmed
    <2>3. timer'[r] > 0 => core[r] # "new"
      <3>1. timer'[r] > 0 => \/ timer[r] > 0
                             \/ \E c \in cf.Captures : cap[c].pc = "dispatch" /\ cap[c].req = r
        BY TimersArmed
      <3> QED BY <3>1 DEF FireFacts
    <2>4. /\ firing[r] = "publish" => reminder[r] = 0 /\ r \notin late
          /\ r \in late => ended \/ core[r] \notin {"queued", "hooked"}
          /\ r \in late /\ firing[r] \in {"switch", "status"} => ended
          /\ timer[r] > 0 \/ r \in late => core[r] # "new"
      BY DEF FireFacts
    <2>5. r \in Approval(cf)!Live <=> core[r] \in {"queued", "hooked"} BY DEF Approval!Live
    <2>6. r \in late' => /\ core[r] # "new"
                         /\ ended \/ core[r] \notin {"queued", "hooked"}
      BY <2>1, <2>4, <2>5 DEF FiringStep
    <2>7. r \in late' => ended' \/ core'[r] \notin {"queued", "hooked"}
      BY <2>1, <2>2, <2>6 DEF CoreStep
    <2>8. timer'[r] > 0 \/ r \in late' => core'[r] # "new" BY <2>1, <2>3, <2>6 DEF CoreStep
    <2>9. firing'[r] = "publish" => reminder'[r] = 0 /\ r \notin late'
      BY <2>1, <2>4 DEF FiringStep
    <2>10. r \in late' /\ firing'[r] \in {"switch", "status"} => ended'
      BY <2>1, <2>2, <2>4, <2>5 DEF FiringStep
    <2> QED BY <2>7, <2>8, <2>9, <2>10
  <1>2. ASSUME NEW c \in cf.Captures, cap'[c].pc # "idle" PROVE core'[cap'[c].req] # "new"
    <2>1. cap'[c].req \in cf.Requests /\ core[cap'[c].req] # "new"
      <3>1. CaptureMove(cf, c) BY CaptureMoves
      <3>2. cap[c].pc # "idle" =>
              cap[c].req \in cf.Requests /\ core[cap[c].req] # "new"
        BY DEF CaptureFacts, FireFacts
      <3> QED BY ONLY <1>2, <3>1, <3>2 DEF CaptureMove
    <2> QED BY <2>1, CoreSteps DEF CoreStep
  <1> QED BY <1>1, <1>2 DEF FireFacts

LEMMA EntryFactsKept ==
  ASSUME NEW cf, Approval(cf)!Shape,
         entry \in [cf.Requests -> {"none", "pending", "resolved"}],
         outcome \in [cf.Requests -> Approval(cf)!Outcomes],
         timer \in [cf.Requests -> Nat],
         emitted \in [cf.Requests -> Nat],
         initial \in [cf.Requests -> Nat],
         reminder \in [cf.Requests -> Nat],
         firing \in [cf.Requests -> Firings], late \subseteq cf.Requests, FireFacts(cf),
         cap \in [cf.Captures -> Approval(cf)!Capture], CaptureFacts(cf), EntryFacts(cf), [Approval(cf)!Next]_(Approval(cf)!vars)
  PROVE  EntryFacts(cf)'
  <1>1. SUFFICES ASSUME NEW r \in cf.Requests
                 PROVE  /\ entry'[r] = "pending" => outcome'[r] = "none" /\ emitted'[r] = 0
                        /\ entry'[r] = "resolved" => outcome'[r] # "none"
                        /\ Fresh(r)' => initial'[r] = 0 /\ emitted'[r] = 0
                        /\ initial'[r] <= 1 /\ reminder'[r] <= 1 /\ emitted'[r] <= 1
    BY DEF EntryFacts, Fresh
  <1>2. EntryStep(cf, r) /\ NoticeStep(cf, r) BY EntrySteps, NoticeSteps
  <1>3. /\ entry[r] = "pending" => outcome[r] = "none" /\ emitted[r] = 0
        /\ entry[r] = "resolved" => outcome[r] # "none"
        /\ Fresh(r) => initial[r] = 0 /\ emitted[r] = 0
        /\ initial[r] <= 1 /\ emitted[r] <= 1 /\ initial[r] \in Nat /\ emitted[r] \in Nat
    BY DEF EntryFacts
  <1>4. reminder'[r] <= 1
    <2>1. FiringStep(cf, r) BY FiringSteps
    <2>2. /\ reminder[r] \in Nat /\ reminder[r] <= 1
          /\ firing[r] = "publish" => reminder[r] = 0
      BY DEF EntryFacts, FireFacts
    <2> QED BY <2>1, <2>2 DEF FiringStep
  <1>5. initial'[r] <= 1 /\ (initial'[r] = initial[r] \/ ~Fresh(r))
    BY <1>2, <1>3 DEF NoticeStep, CaptureFacts
  <1>6. emitted'[r] <= 1 BY <1>2, <1>3 DEF EntryStep
  <1>7. Fresh(r)' => Fresh(r) /\ emitted'[r] = emitted[r]
    BY <1>2, <1>3 DEF EntryStep, Fresh
  <1>8. /\ entry'[r] = "pending" => outcome'[r] = "none" /\ emitted'[r] = 0
        /\ entry'[r] = "resolved" => outcome'[r] # "none"
    BY <1>2, <1>3 DEF EntryStep, Fresh
  <1> QED BY <1>3, <1>4, <1>5, <1>6, <1>7, <1>8

LEMMA CaptureFactsKept ==
  ASSUME NEW cf, Approval(cf)!Shape,
         entry \in [cf.Requests -> {"none", "pending", "resolved"}],
         outcome \in [cf.Requests -> Approval(cf)!Outcomes],
         timer \in [cf.Requests -> Nat],
         emitted \in [cf.Requests -> Nat],
         initial \in [cf.Requests -> Nat],
         reminder \in [cf.Requests -> Nat],
         cap \in [cf.Captures -> Approval(cf)!Capture], CaptureFacts(cf), EntryFacts(cf), [Approval(cf)!Next]_(Approval(cf)!vars)
  PROVE  CaptureFacts(cf)'
  <1>1. \A c \in cf.Captures : CaptureMove(cf, c) BY CaptureMoves
  <1>2. \A r \in cf.Requests : EntryStep(cf, r) /\ NoticeStep(cf, r) BY EntrySteps, NoticeSteps
  <1>3. ASSUME NEW c \in cf.Captures
        PROVE  /\ cap'[c].pc = "idle" => cap'[c].req = Approval(cf)!None
               /\ cap'[c].pc # "idle" => cap'[c].req \in cf.Requests
    BY <1>1 DEF CaptureMove, CaptureFacts
  <1>4. ASSUME NEW c \in cf.Captures, cap'[c].pc \in {"chain", "insert"} 
        PROVE  entry'[cap'[c].req] = "none" /\ outcome'[cap'[c].req] = "none"
    <2> DEFINE r == cap'[c].req
    <2>1. r \in cf.Requests /\ Fresh(r) BY <1>1, <1>4 DEF CaptureMove, CaptureFacts
    <2>2. ASSUME NEW d \in cf.Captures, cap[d].pc = "insert", cap[d].req = r,
                 cap'[d].pc = "dispatch"
          PROVE  FALSE
      BY <1>1, <1>4, <2>2 DEF CaptureMove, CaptureFacts
    <2>3. entry'[r] = entry[r] /\ outcome'[r] = outcome[r]
      BY <1>2, <2>1, <2>2 DEF EntryStep, Fresh
    <2> QED BY <2>1, <2>3 DEF Fresh
  <1>5. ASSUME NEW c \in cf.Captures, cap'[c].pc = "dispatch"
        PROVE  /\ ~(entry'[cap'[c].req] = "none" /\ outcome'[cap'[c].req] = "none")
               /\ initial'[cap'[c].req] = 0
    <2> DEFINE r == cap'[c].req
    <2>1. r \in cf.Requests /\ cap[c].req = r /\ cap[c].pc \in {"insert", "dispatch"}
      BY <1>1, <1>5 DEF CaptureMove, CaptureFacts
    <2>2. initial[r] = 0 BY <2>1 DEF CaptureFacts, EntryFacts
    <2>3. ASSUME NEW d \in cf.Captures, cap[d].pc = "dispatch", cap[d].req = r, cap'[d].pc = "idle"
          PROVE  FALSE
      BY <2>1, <2>3, <1>5 DEF CaptureFacts
    <2>4. initial'[r] = initial[r] BY <1>2, <2>1, <2>3 DEF NoticeStep
    <2>5. CASE cap[c].pc = "insert"
      BY <1>1, <1>5, <2>1, <2>5, <2>2, <2>4 DEF CaptureMove
    <2>6. CASE cap[c].pc = "dispatch"
      BY <2>1, <2>6, <1>2, <2>2, <2>4 DEF CaptureFacts, EntryFacts, EntryStep, Fresh
    <2> QED BY <2>1, <2>5, <2>6
  <1>6. ASSUME NEW c \in cf.Captures, NEW d \in cf.Captures, cap'[c].req = cap'[d].req,
               cap'[c].pc # "idle"
        PROVE  c = d
    <2>1. cap'[c].req \in cf.Requests /\ cap'[c].req # Approval(cf)!None
      BY <1>3, <1>6 DEF Approval!Shape, Approval!None
    <2>2. cap'[d].pc # "idle" BY <1>3, <1>6, <2>1
    <2>3. CASE cap'[c].req = cap[c].req /\ cap'[d].req = cap[d].req /\ cap[c].pc # "idle"
      BY <1>6, <2>3 DEF CaptureFacts
    <2>4. ASSUME NEW x \in cf.Captures, cap'[x].req # cap[x].req \/ cap[x].pc = "idle", cap'[x].pc # "idle"
          PROVE  /\ \A y \in cf.Captures : cap[y].req # cap'[x].req
                 /\ \A y \in cf.Captures \ {x} : cap'[y] = cap[y]
      BY <1>1, <2>4 DEF CaptureFacts, CaptureMove
    <2> QED BY <1>6, <2>1, <2>2, <2>3, <2>4
  <1> QED BY <1>3, <1>4, <1>5, <1>6 DEF CaptureFacts, Fresh

LEMMA ApprovalStarts == ASSUME NEW cf, Approval(cf)!Shape, Approval(cf)!Init PROVE ApprovalInv(cf)
  <1>1. Approval(cf)!TypeOK
    BY RecordsAre DEF Approval!TypeOK, Approval!Outcomes, Approval!Capture, Approval!Post,
                      Approval!Get, Approval!Free, Approval!Init, Approval!None
  <1> DEFINE zero == [r \in cf.Requests |-> 0]
  <1>2. EntryFacts(cf)
    BY DEF Approval!Init, EntryFacts, Fresh
  <1>3. CaptureFacts(cf)
    BY RecordsAre DEF Approval!Init, CaptureFacts
  <1>4. AnswerFacts(cf) /\ ShownFacts
    BY DEF Approval!Init, Approval!None, AnswerFacts, ShownFacts
  <1>7. FireFacts(cf) BY RecordsAre DEF Approval!Init, FireFacts
  <1>5. Approval(cf)!Entries = {} BY DEF Approval!Entries, Approval!Init
  <1>6. RegistryFacts(cf)
    <2>1. IsFiniteSet({}) /\ Cardinality({}) = 0 BY FS_EmptySet
    <2>2. cf.MaxPending \in Nat BY DEF Approval!Shape
    <2>3. 0 <= cf.MaxPending BY <2>2
    <2> QED BY <1>5, <2>1, <2>3 DEF RegistryFacts
  <1> QED BY <1>1, <1>2, <1>3, <1>4, <1>6, <1>7 DEF ApprovalInv

LEMMA ApprovalKept ==
  ASSUME NEW cf,
         Approval(cf)!Shape, ApprovalInv(cf), [Approval(cf)!Next]_(Approval(cf)!vars)
  PROVE  ApprovalInv(cf)'
  <1> USE DEF ApprovalInv
  <1>1. /\ entry \in [cf.Requests -> {"none", "pending", "resolved"}] /\ outcome \in [cf.Requests -> Approval(cf)!Outcomes]
        /\ timer \in [cf.Requests -> Nat] /\ emitted \in [cf.Requests -> Nat]
        /\ core \in [cf.Requests -> {"new", "queued", "hooked", "removed", "hook due", "settled"}]
        /\ cap \in [cf.Captures -> Approval(cf)!Capture] /\ post \in [cf.Posts -> Approval(cf)!Post]
        /\ get \in Approval(cf)!Get
    BY DEF Approval!TypeOK
  <1>2. /\ initial \in [cf.Requests -> Nat] /\ reminder \in [cf.Requests -> Nat]
        /\ dropped \subseteq cf.Requests /\ enabled \in BOOLEAN /\ ended \in BOOLEAN
        /\ toggles \in Nat /\ firing \in [cf.Requests -> Firings] /\ late \subseteq cf.Requests
    BY DEF Approval!TypeOK, Firings
  <1>6. firing' \in [cf.Requests -> Firings] /\ late' \subseteq cf.Requests
    BY <1>2, FiringSteps
  <1>3. Approval(cf)!TypeOK'
    BY <1>1, EntriesTyped, CoreTyped, CapturesTyped, AnswersTyped, <1>2, GetTyped, NoticesTyped,
       FlagsTyped, <1>6 DEF Approval!TypeOK, Firings
  <1>4. EntryFacts(cf)' /\ CaptureFacts(cf)' /\ FireFacts(cf)'
    BY <1>1, <1>2, EntryFactsKept, CaptureFactsKept, FireFactsKept
  <1>5. AnswerFacts(cf)' /\ RegistryFacts(cf)' /\ ShownFacts'
    BY <1>1, AnswersKept, RegistryKept, ShownKept
  <1> QED BY <1>3, <1>4, <1>5

LEMMA ApprovalImplies ==
  ASSUME NEW cf, ApprovalInv(cf)
  PROVE  Approval(cf)!TypeOK /\ Approval(cf)!ApprovalsExact
  BY CountsHere DEF ApprovalInv, AnswerFacts, ShownFacts, Approval!AnswersAreExact,
     Approval!ShownWasLive, RegistryFacts, Approval!RegistryBounded, EntryFacts, Approval!OneOfEach,
     Approval!ApprovalsExact

LEMMA OutcomeStays ==
  ASSUME NEW cf, ApprovalInv(cf), [Approval(cf)!Next]_(Approval(cf)!vars)
  PROVE  Approval(cf)!OutcomeKept /\ Approval(cf)!GoneIsNotReminded
  <1>1. Approval(cf)!OutcomeKept
    BY EntrySteps DEF ApprovalInv, Approval!TypeOK, Approval!OutcomeKept, EntryStep, Fresh
  <1>2. ASSUME NEW r \in cf.Requests, reminder'[r] # reminder[r] PROVE r \notin late
    <2>1. FiringStep(cf, r) BY FiringSteps DEF ApprovalInv, Approval!TypeOK, Firings
    <2>2. firing[r] = "publish" BY <1>2, <2>1 DEF FiringStep
    <2> QED BY <2>2 DEF ApprovalInv, FireFacts
  <1> QED BY <1>1, <1>2 DEF Approval!GoneIsNotReminded

-----------------------------------------------------------------------------
(* Clarify.                                                                *)

FormRecord(cf) == [pc : {"idle", "asking", "waiting", "leaving", "done", "refused"},
               run : cf.Runs \cup {"none"}, at : 1..(cf.Size + 1),
               answers : Seq(Bridge(cf)!Values), outcome : Bridge(cf)!Outcomes, submitted : BOOLEAN]
Response(cf) == Bridge(cf)!Values \cup {Bridge(cf)!Gone, Bridge(cf)!Open, Bridge(cf)!Cancelled}
Row(cf) == [Bridge(cf)!Questions -> Response(cf)]

\* The run of the form is over, or the bridge is: its questions may be
\* cancelled, and no answer is owed.
Over(f) == unloaded \/ stage[form[f].run] = "over"

\* A form without an accepted answer has collected none.
Unanswered(cf, f) ==
    /\ accepted[f] = {} /\ form[f].at = 1
    /\ \A q \in Bridge(cf)!Questions :
          asked[f][q] \in {Bridge(cf)!Gone, Bridge(cf)!Open, Bridge(cf)!Cancelled}
    /\ form[f].pc = "leaving" => asked[f][1] = Bridge(cf)!Gone

\* A form with one has collected a prefix of it, and the rest is on its way.
AnsweredBy(cf, f, raw) ==
    /\ accepted[f] = {raw}
    /\ \A q \in 1..Len(form[f].answers) : form[f].answers[q] = Bridge(cf)!Coerce(raw[q])
    /\ \A q \in Bridge(cf)!Questions :
          asked[f][q] \in {Bridge(cf)!Gone, Bridge(cf)!Cancelled, Bridge(cf)!Coerce(raw[q])}
    /\ form[f].outcome # "timed_out"

FormInv(cf, f) ==
    /\ form[f].pc \in {"idle", "asking", "refused"} =>
          ~form[f].submitted /\ form[f].outcome = "answered"
    /\ form[f].pc # "idle" => form[f].run \in cf.Runs /\ stage[form[f].run] # "new"
    /\ Len(form[f].answers) = form[f].at - 1
    /\ ~form[f].submitted => Unanswered(cf, f)
    /\ form[f].submitted => \E raw \in [Bridge(cf)!Questions -> cf.Raw] : AnsweredBy(cf, f, raw)
    /\ form[f].pc = "waiting" => /\ form[f].at <= cf.Size /\ form[f].outcome = "answered"
                                 /\ \A q \in form[f].at..cf.Size : asked[f][q] # Bridge(cf)!Gone
    /\ form[f].pc \in {"leaving", "done"} =>
          /\ form[f].outcome = "answered" => form[f].at = cf.Size + 1
          /\ form[f].outcome = "cancelled" => Over(f)
    /\ (\E q \in Bridge(cf)!Questions : asked[f][q] = Bridge(cf)!Cancelled) => Over(f)
    /\ ~Bridge(cf)!Registered(f) => \A q \in Bridge(cf)!Questions : asked[f][q] = Bridge(cf)!Gone
FormFacts(cf) == \A f \in cf.Forms : FormInv(cf, f)

SinkFacts == \A r \in sink : stage[r] = "live"

FormsInv(cf) == Bridge(cf)!TypeOK /\ FormFacts(cf) /\ SinkFacts /\ Bridge(cf)!EventsPair

\* What the gateway answers is told apart.
LEMMA Coerced ==
  ASSUME NEW cf, Bridge(cf)!ClarifyAssumption, NEW v \in cf.Raw
  PROVE  Bridge(cf)!Coerce(v) \in {"label", "other", "SKIPPED", "none"}
  BY DEF Bridge!ClarifyAssumption, Bridge!Coerce

LEMMA Responses ==
  ASSUME NEW cf, Bridge(cf)!ClarifyAssumption
  PROVE  /\ \A v \in cf.Raw : Bridge(cf)!Coerce(v) \notin {Bridge(cf)!Gone, Bridge(cf)!Open, Bridge(cf)!Cancelled}
         /\ Bridge(cf)!Gone # Bridge(cf)!Open /\ Bridge(cf)!Gone # Bridge(cf)!Cancelled
         /\ Bridge(cf)!Open # Bridge(cf)!Cancelled
  BY Coerced DEF Bridge!Gone, Bridge!Open, Bridge!Cancelled

\* Cancelling replaces responses of those forms only, and never a dropped one.
LEMMA CancelledRows ==
  ASSUME NEW cf,
         asked \in [cf.Forms -> Row(cf)], NEW fs, asked' \in Bridge(cf)!CancelledEntries(fs)
  PROVE  /\ asked' \in [cf.Forms -> Row(cf)]
         /\ \A x \in cf.Forms :
               /\ x \notin fs => asked'[x] = asked[x]
               /\ \A q \in Bridge(cf)!Questions :
                     /\ asked'[x][q] \in {asked[x][q], Bridge(cf)!Cancelled}
                     /\ asked[x][q] = Bridge(cf)!Gone => asked'[x][q] = Bridge(cf)!Gone
                     /\ asked[x][q] # Bridge(cf)!Gone => asked'[x][q] # Bridge(cf)!Gone
  <1>1. PICK last \in BOOLEAN :
           asked' = [x \in cf.Forms |-> [q \in Bridge(cf)!Questions |->
              IF x \in fs /\ asked[x][q] # Bridge(cf)!Gone /\ (asked[x][q] = Bridge(cf)!Open \/ last)
              THEN Bridge(cf)!Cancelled ELSE asked[x][q]]]
    BY DEF Bridge!CancelledEntries
  <1>2. Bridge(cf)!Gone # Bridge(cf)!Cancelled BY DEF Bridge!Gone, Bridge!Cancelled
  <1>3. ASSUME NEW x \in cf.Forms
        PROVE  /\ asked'[x] \in Row(cf)
               /\ x \notin fs => asked'[x] = asked[x]
               /\ \A q \in Bridge(cf)!Questions :
                     /\ asked'[x][q] \in {asked[x][q], Bridge(cf)!Cancelled}
                     /\ asked[x][q] = Bridge(cf)!Gone => asked'[x][q] = Bridge(cf)!Gone
                     /\ asked[x][q] # Bridge(cf)!Gone => asked'[x][q] # Bridge(cf)!Gone
    BY <1>1, <1>2 DEF Row, Response
  <1>4. asked' \in [cf.Forms -> Row(cf)] BY <1>1, <1>3
  <1> QED BY <1>3, <1>4

LEMMA TypesAre ==
  ASSUME NEW cf
  PROVE  Bridge(cf)!TypeOK <=>
           /\ form \in [cf.Forms -> FormRecord(cf)] /\ asked \in [cf.Forms -> Row(cf)]
           /\ stage \in [cf.Runs -> {"new", "live", "ending", "over"}]
           /\ sink \subseteq cf.Runs /\ unloaded \in BOOLEAN
           /\ accepted \in [cf.Forms -> SUBSET [Bridge(cf)!Questions -> cf.Raw]]
           /\ events \in Seq({"request", "resolved"} \X cf.Forms)
           /\ submits \in 0..cf.MaxSubmits
  BY DEF Bridge!TypeOK, FormRecord, Row, Response

\* A form that is let alone stays as good as it was: what is over stays over.
LEMMA FormStill ==
  ASSUME NEW cf,
         NEW x \in cf.Forms, FormInv(cf, x), asked'[x] = asked[x], form'[x] = form[x],
         accepted'[x] = accepted[x], unloaded => unloaded',
         \A r \in cf.Runs : /\ stage[r] = "over" => stage'[r] = "over"
                            /\ stage[r] # "new" => stage'[r] # "new"
  PROVE  FormInv(cf, x)'
  BY DEF FormInv, Over, Bridge!Registered, Bridge!Gone, Bridge!Cancelled, Unanswered, AnsweredBy

\* Nor does a cancellation harm one.
LEMMA OverStill ==
  ASSUME NEW cf, Bridge(cf)!ClarifyAssumption, form \in [cf.Forms -> FormRecord(cf)],
         NEW x \in cf.Forms, FormInv(cf, x), Bridge(cf)!Registered(x), Over(x)', form'[x] = form[x],
         accepted'[x] = accepted[x],
         \A r \in cf.Runs : stage[r] # "new" => stage'[r] # "new",
         \A q \in Bridge(cf)!Questions :
            /\ asked'[x][q] \in {asked[x][q], Bridge(cf)!Cancelled}
            /\ asked[x][q] = Bridge(cf)!Gone => asked'[x][q] = Bridge(cf)!Gone
            /\ asked[x][q] # Bridge(cf)!Gone => asked'[x][q] # Bridge(cf)!Gone
  PROVE  FormInv(cf, x)'
  <1>1. form[x].pc # "idle" => form[x].run \in cf.Runs /\ stage'[form[x].run] # "new"
    BY DEF FormInv
  <1>2. 1 \in Bridge(cf)!Questions BY DEF Bridge!Questions, Bridge!ClarifyAssumption
  <1>3. Unanswered(cf, x) => Unanswered(cf, x)' BY <1>2 DEF Unanswered
  <1>4. ASSUME NEW raw, AnsweredBy(cf, x, raw) PROVE AnsweredBy(cf, x, raw)' BY <1>4 DEF AnsweredBy
  <1>5. form[x].pc = "waiting" =>
           \A q \in form[x].at..cf.Size : asked'[x][q] # Bridge(cf)!Gone
    BY DEF FormInv, Bridge!Questions, FormRecord
  <1> QED BY <1>1, <1>3, <1>4, <1>5 DEF FormInv, Bridge!Registered

LEMMA FormFactsKept ==
  ASSUME NEW cf,
         Bridge(cf)!ClarifyAssumption, form \in [cf.Forms -> FormRecord(cf)], asked \in [cf.Forms -> Row(cf)],
         stage \in [cf.Runs -> {"new", "live", "ending", "over"}],
         accepted \in [cf.Forms -> SUBSET [Bridge(cf)!Questions -> cf.Raw]], FormFacts(cf), SinkFacts,
         [Bridge(cf)!Next]_(Bridge(cf)!vars)
  PROVE  FormFacts(cf)'
  <1>1. ASSUME NEW r \in cf.Runs, Bridge(cf)!RunStarts(r)
        PROVE  FormFacts(cf)'
    BY <1>1, FormStill DEF Bridge!RunStarts, FormFacts
  <1>2. ASSUME NEW r \in cf.Runs, Bridge(cf)!RunEnds(r)
        PROVE  FormFacts(cf)'
    BY <1>2, FormStill DEF Bridge!RunEnds, FormFacts
  <1>3. ASSUME NEW r \in cf.Runs, Bridge(cf)!CancelRun(r)
        PROVE  FormFacts(cf)'
    <2>1. /\ UNCHANGED <<form, accepted>> /\ (unloaded => unloaded')
          /\ asked' \in Bridge(cf)!CancelledEntries(Bridge(cf)!FormsOf(r))
          /\ \A u \in cf.Runs : /\ stage[u] = "over" => stage'[u] = "over"
                                /\ stage[u] # "new" => stage'[u] # "new"
      BY <1>3 DEF Bridge!CancelRun
    <2>2. ASSUME NEW x \in cf.Forms PROVE FormInv(cf, x)'
      <3>1. CASE x \notin Bridge(cf)!FormsOf(r) BY <2>1, <3>1, FormStill, CancelledRows DEF FormFacts
      <3>2. CASE x \in Bridge(cf)!FormsOf(r)
        BY <1>3, <3>2, <2>1, CancelledRows, OverStill DEF Bridge!CancelRun, Bridge!FormsOf, Over,
           FormFacts
      <3> QED BY <3>1, <3>2
    <2> QED BY <2>2 DEF FormFacts
  <1>4. ASSUME NEW f \in cf.Forms, Bridge(cf)!Register(f)
        PROVE  FormFacts(cf)'
    <2>1. /\ UNCHANGED <<stage, unloaded>>
          /\ \A x \in cf.Forms \ {f} : form'[x] = form[x] /\ asked'[x] = asked[x]
                                    /\ accepted'[x] = accepted[x]
      BY <1>4 DEF Bridge!Register
    <2>2. \A x \in cf.Forms \ {f} : FormInv(cf, x)' BY <2>1, FormStill DEF FormFacts
    <2>3. FormInv(cf, f)
      BY DEF FormFacts
    <2>4. FormInv(cf, f)'
      <3>1. /\ form[f].pc = "asking" /\ accepted'[f] = accepted[f]
            /\ ~form[f].submitted /\ form[f].at = 1 /\ accepted[f] = {}
        BY <1>4, <2>3 DEF Bridge!Register, FormInv, Unanswered
      <3>2. CASE form' = [form EXCEPT ![f].pc = "refused"] /\ asked' = asked
        BY <3>2, <2>3, <3>1, <2>1 DEF FormRecord, FormInv, Bridge!Registered, Bridge!Gone,
           Bridge!Cancelled, Unanswered
      <3>3. CASE /\ form' = [form EXCEPT ![f].pc = "waiting"]
                 /\ asked' = [asked EXCEPT ![f] = [q \in Bridge(cf)!Questions |-> Bridge(cf)!Open]]
        <4>1. /\ form'[f].pc = "waiting" /\ form'[f].run = form[f].run /\ form'[f].at = form[f].at
              /\ form'[f].answers = form[f].answers /\ form'[f].submitted = form[f].submitted
              /\ form'[f].outcome = form[f].outcome
          BY <3>3 DEF FormRecord
        <4>2. \A q \in Bridge(cf)!Questions : asked'[f][q] = Bridge(cf)!Open BY <3>3
        <4>3. 1 <= cf.Size /\ cf.Size \in Nat BY DEF Bridge!ClarifyAssumption
        <4>4. form[f].outcome = "answered" BY <2>3, <3>1 DEF FormInv
        <4> QED
          BY <2>1, <2>3, <3>1, <4>1, <4>2, <4>3, <4>4, Responses
          DEF FormInv, Bridge!Registered, Unanswered, Bridge!Questions
      <3> QED BY <1>4, <3>2, <3>3 DEF Bridge!Register
    <2> QED BY <2>2, <2>4 DEF FormFacts
  <1>5. ASSUME NEW f \in cf.Forms, Bridge(cf)!Collect(f)
        PROVE  FormFacts(cf)'
    <2>1. /\ UNCHANGED <<stage, unloaded>>
          /\ \A x \in cf.Forms \ {f} : form'[x] = form[x] /\ asked'[x] = asked[x]
                                    /\ accepted'[x] = accepted[x]
      BY <1>5 DEF Bridge!Collect
    <2>2. \A x \in cf.Forms \ {f} : FormInv(cf, x)' BY <2>1, FormStill DEF FormFacts
    <2>3. FormInv(cf, f)
      BY DEF FormFacts
    <2>4. FormInv(cf, f)'
      <3> DEFINE k == form[f].at
                 v == asked[f][k]
      <3>1. /\ form[f].pc = "waiting" /\ accepted'[f] = accepted[f]
            /\ v \notin {Bridge(cf)!Gone, Bridge(cf)!Open}
            /\ asked' = [asked EXCEPT ![f][k] = Bridge(cf)!Gone]
        BY <1>5 DEF Bridge!Collect
      <3>2. k \in Bridge(cf)!Questions /\ k \in Nat /\ cf.Size \in Nat /\ k <= cf.Size
        BY <2>3, <3>1 DEF FormInv, FormRecord, Bridge!Questions, Bridge!ClarifyAssumption
      <3>3. \A q \in Bridge(cf)!Questions :
               asked'[f][q] = IF q = k THEN Bridge(cf)!Gone ELSE asked[f][q]
        BY <3>1, <3>2 DEF Row
      <3>4. form[f] \in FormRecord(cf) /\ v \in Response(cf) BY <3>2 DEF Row
      <3>5. /\ form[f].answers \in Seq(Bridge(cf)!Values) /\ Len(form[f].answers) = k - 1
            /\ form[f].run \in cf.Runs /\ stage[form[f].run] # "new"
        BY <2>3, <3>1, <3>4 DEF FormInv, FormRecord
      <3>6. CASE v = Bridge(cf)!Cancelled
        <4>1. form'[f] = [form[f] EXCEPT !.pc = "leaving", !.outcome = "cancelled"]
          BY <1>5, <3>6 DEF Bridge!Collect
        <4>2. /\ form'[f].pc = "leaving" /\ form'[f].run = form[f].run /\ form'[f].at = k
              /\ form'[f].answers = form[f].answers /\ form'[f].submitted = form[f].submitted
              /\ form'[f].outcome = "cancelled"
          BY <3>4, <4>1 DEF FormRecord
        <4>3. Over(f)'
          BY <2>1, <2>3, <3>2, <3>6, <4>2 DEF FormInv, Over
        <4>4. Unanswered(cf, f) => Unanswered(cf, f)'
          BY <3>1, <3>2, <3>3, <4>2 DEF Unanswered
        <4>5. ASSUME NEW raw, AnsweredBy(cf, f, raw) PROVE AnsweredBy(cf, f, raw)'
          BY <3>1, <3>3, <4>2, <4>5 DEF AnsweredBy
        <4> QED
          BY <2>1, <2>3, <3>1, <3>5, <4>2, <4>3, <4>4, <4>5 DEF FormInv, Bridge!Registered
      <3>7. CASE v # Bridge(cf)!Cancelled
        <4>1. form' = [form EXCEPT ![f] = [form[f] EXCEPT
                          !.answers = Append(form[f].answers, v), !.at = k + 1,
                          !.pc = IF k = cf.Size THEN "leaving" ELSE "waiting"]]
          BY <1>5, <3>7 DEF Bridge!Collect
        <4>2. /\ form'[f].pc = IF k = cf.Size THEN "leaving" ELSE "waiting"
              /\ form'[f].run = form[f].run /\ form'[f].at = k + 1
              /\ form'[f].answers = Append(form[f].answers, v)
              /\ form'[f].submitted = form[f].submitted /\ form'[f].outcome = form[f].outcome
          BY <3>4, <4>1 DEF FormRecord
        <4>3. v \in Bridge(cf)!Values BY <3>1, <3>4, <3>7 DEF Response
        <4>4. /\ Len(form'[f].answers) = k
              /\ \A q \in 1..(k - 1) : form'[f].answers[q] = form[f].answers[q]
              /\ form'[f].answers[k] = v
          BY <3>2, <3>5, <4>2, <4>3
        <4>5. form[f].submitted
          BY <2>3, <3>1, <3>2, <3>7 DEF FormInv, Unanswered
        <4>6. PICK raw \in [Bridge(cf)!Questions -> cf.Raw] : AnsweredBy(cf, f, raw)
          BY <2>3, <4>5 DEF FormInv
        <4>7. v = Bridge(cf)!Coerce(raw[k]) BY <3>1, <3>2, <3>7, <4>6 DEF AnsweredBy
        <4>8. AnsweredBy(cf, f, raw)'
          <5>1. accepted'[f] = {raw} /\ form'[f].outcome # "timed_out"
            BY <3>1, <4>2, <4>6 DEF AnsweredBy
          <5>2. \A q \in 1..(k - 1) : form'[f].answers[q] = Bridge(cf)!Coerce(raw[q])
            BY <3>5, <4>4, <4>6 DEF AnsweredBy
          <5>3. \A q \in 1..Len(form'[f].answers) : form'[f].answers[q] = Bridge(cf)!Coerce(raw[q])
            <6> SUFFICES ASSUME NEW q \in 1..k
                         PROVE  form'[f].answers[q] = Bridge(cf)!Coerce(raw[q])
              BY <4>4
            <6>1. CASE q = k BY <4>4, <4>7, <6>1
            <6>2. CASE q # k
              BY <3>2, <6>2, <5>2
            <6> QED BY <6>1, <6>2
          <5>4. \A q \in Bridge(cf)!Questions :
                   asked'[f][q] \in {Bridge(cf)!Gone, Bridge(cf)!Cancelled, Bridge(cf)!Coerce(raw[q])}
            BY <3>3, <4>6 DEF AnsweredBy
          <5> QED BY <5>1, <5>3, <5>4 DEF AnsweredBy
        <4>9. Over(f) => Over(f)' BY <2>1, <4>2 DEF Over
        <4>10. \A q \in (k + 1)..cf.Size : asked'[f][q] # Bridge(cf)!Gone
          BY <2>3, <3>1, <3>2, <3>3 DEF FormInv, Bridge!Questions
        <4>11. form[f].outcome = "answered" BY <2>3, <3>1 DEF FormInv
        <4>12. (\E q \in Bridge(cf)!Questions : asked'[f][q] = Bridge(cf)!Cancelled) => Over(f)'
          BY <2>3, <3>3, <4>9, Responses DEF FormInv
        <4> QED
          BY <2>1, <3>2, <3>5, <4>2, <4>4, <4>5, <4>8, <4>10, <4>11, <4>12
          DEF FormInv, Bridge!Registered
      <3> QED BY <3>6, <3>7
    <2> QED BY <2>2, <2>4 DEF FormFacts
  <1>6. ASSUME NEW f \in cf.Forms, Bridge(cf)!Expire(f)
        PROVE  FormFacts(cf)'
    <2>1. /\ UNCHANGED <<stage, unloaded>>
          /\ \A x \in cf.Forms \ {f} : form'[x] = form[x] /\ asked'[x] = asked[x]
                                    /\ accepted'[x] = accepted[x]
      BY <1>6 DEF Bridge!Expire
    <2>2. \A x \in cf.Forms \ {f} : FormInv(cf, x)' BY <2>1, FormStill DEF FormFacts
    <2>3. FormInv(cf, f)
      BY DEF FormFacts
    <2>4. FormInv(cf, f)'
      <3>1. /\ form[f].pc = "waiting" /\ accepted'[f] = accepted[f]
            /\ form' = [form EXCEPT ![f].pc = "leaving", ![f].outcome = "timed_out"]
            /\ asked' = [asked EXCEPT ![f][form[f].at] = Bridge(cf)!Gone]
            /\ asked[f][form[f].at] = Bridge(cf)!Open
        BY <1>6 DEF Bridge!Expire
      <3>2. /\ form'[f].pc = "leaving" /\ form'[f].run = form[f].run /\ form'[f].at = form[f].at
            /\ form'[f].answers = form[f].answers /\ form'[f].submitted = form[f].submitted
            /\ form'[f].outcome = "timed_out"
        BY <3>1 DEF FormRecord
      <3>3. form[f].at \in Bridge(cf)!Questions
        BY <2>3, <3>1 DEF FormInv, FormRecord, Bridge!Questions, Bridge!ClarifyAssumption
      <3>4. \A q \in Bridge(cf)!Questions :
               asked'[f][q] = IF q = form[f].at THEN Bridge(cf)!Gone ELSE asked[f][q]
        BY <3>1, <3>3 DEF Row
      <3>5. ~form[f].submitted
        <4>1. ASSUME NEW raw \in [Bridge(cf)!Questions -> cf.Raw], AnsweredBy(cf, f, raw) PROVE FALSE
          BY <3>1, <3>3, <4>1, Responses DEF AnsweredBy
        <4> QED BY <2>3, <4>1 DEF FormInv
      <3>6. Unanswered(cf, f)' BY <2>3, <3>1, <3>2, <3>3, <3>4, <3>5 DEF FormInv, Unanswered
      <3>7. Over(f) => Over(f)' BY <2>1, <3>2 DEF Over
      <3> QED
        BY <2>1, <2>3, <3>1, <3>2, <3>4, <3>5, <3>6, <3>7, Responses
        DEF FormInv, Bridge!Registered
    <2> QED BY <2>2, <2>4 DEF FormFacts
  <1>7. ASSUME NEW f \in cf.Forms, Bridge(cf)!Leave(f)
        PROVE  FormFacts(cf)'
    <2>1. /\ UNCHANGED <<stage, unloaded>>
          /\ \A x \in cf.Forms \ {f} : form'[x] = form[x] /\ asked'[x] = asked[x]
                                    /\ accepted'[x] = accepted[x]
      BY <1>7 DEF Bridge!Leave
    <2>2. \A x \in cf.Forms \ {f} : FormInv(cf, x)' BY <2>1, FormStill DEF FormFacts
    <2>3. FormInv(cf, f)
      BY DEF FormFacts
    <2>4. FormInv(cf, f)'
      <3>1. /\ form[f].pc = "leaving" /\ accepted'[f] = accepted[f]
            /\ form' = [form EXCEPT ![f].pc = "done"]
            /\ \A q \in Bridge(cf)!Questions : asked'[f][q] = Bridge(cf)!Gone
        BY <1>7 DEF Bridge!Leave
      <3>2. /\ form'[f].pc = "done" /\ form'[f].run = form[f].run /\ form'[f].at = form[f].at
            /\ form'[f].answers = form[f].answers /\ form'[f].submitted = form[f].submitted
            /\ form'[f].outcome = form[f].outcome
        BY <3>1 DEF FormRecord
      <3>3. Unanswered(cf, f) => Unanswered(cf, f)' BY <3>1, <3>2 DEF Unanswered
      <3>4. ASSUME NEW raw, AnsweredBy(cf, f, raw) PROVE AnsweredBy(cf, f, raw)'
        BY <3>1, <3>2, <3>4 DEF AnsweredBy
      <3>5. Over(f) => Over(f)' BY <2>1, <3>2 DEF Over
      <3> QED
        BY <2>1, <2>3, <3>1, <3>2, <3>3, <3>4, <3>5, Responses
        DEF FormInv, Bridge!Registered
    <2> QED BY <2>2, <2>4 DEF FormFacts
  <1>8. ASSUME NEW f \in cf.Forms, NEW r \in cf.Runs, Bridge(cf)!Ask(f, r)
        PROVE  FormFacts(cf)'
    <2>1. /\ UNCHANGED <<stage, unloaded>>
          /\ \A x \in cf.Forms \ {f} : form'[x] = form[x] /\ asked'[x] = asked[x]
                                    /\ accepted'[x] = accepted[x]
      BY <1>8 DEF Bridge!Ask
    <2>2. \A x \in cf.Forms \ {f} : FormInv(cf, x)' BY <2>1, FormStill DEF FormFacts
    <2>3. FormInv(cf, f)
      BY DEF FormFacts
    <2>4. FormInv(cf, f)'
      BY <1>8, <2>3, <2>1 DEF Bridge!Ask, SinkFacts, FormRecord, FormInv, Bridge!Registered,
         Bridge!Gone, Bridge!Cancelled, Unanswered
    <2> QED BY <2>2, <2>4 DEF FormFacts
  <1>9. ASSUME NEW f \in cf.Forms, NEW raw \in [Bridge(cf)!Questions -> cf.Raw], Bridge(cf)!Submit(f, raw)
        PROVE  FormFacts(cf)'
    <2>1. /\ UNCHANGED <<stage, unloaded>>
          /\ \A x \in cf.Forms \ {f} : form'[x] = form[x] /\ asked'[x] = asked[x]
                                    /\ accepted'[x] = accepted[x]
      BY <1>9 DEF Bridge!Submit
    <2>2. \A x \in cf.Forms \ {f} : FormInv(cf, x)' BY <2>1, FormStill DEF FormFacts
    <2>3. FormInv(cf, f)
      BY DEF FormFacts
    <2>4. FormInv(cf, f)'
      <3> DEFINE missing == {q \in Bridge(cf)!Questions : asked[f][q] = Bridge(cf)!Gone}
                 upto == {q \in Bridge(cf)!Questions : \A p \in missing : q < p}
      <3>1. /\ Bridge(cf)!Registered(f) /\ ~form[f].submitted
            /\ \A q \in Bridge(cf)!Questions : asked[f][q] \in {Bridge(cf)!Open, Bridge(cf)!Gone}
            /\ asked'[f] = [q \in Bridge(cf)!Questions |->
                              IF q \in upto THEN Bridge(cf)!Coerce(raw[q]) ELSE asked[f][q]]
        BY <1>9 DEF Bridge!Submit, Bridge!Answerable
      <3>2. Unanswered(cf, f) BY <2>3, <3>1 DEF FormInv
      <3>3. 1 \in Bridge(cf)!Questions /\ cf.Size \in Nat
        BY DEF Bridge!Questions, Bridge!ClarifyAssumption
      <3>4. form[f].pc \in {"waiting", "leaving"} BY <3>1 DEF Bridge!Registered
      <3>5. CASE form[f].pc = "leaving"
        <4>1. 1 \in missing BY <3>2, <3>3, <3>5 DEF Unanswered
        <4>2. upto = {} BY <4>1 DEF Bridge!Questions
        <4>3. \A q \in Bridge(cf)!Questions : asked'[f][q] = asked[f][q] BY <3>1, <4>2
        <4>4. asked[f] \in Row(cf) /\ asked'[f] \in Row(cf) BY <3>1, <4>2 DEF Row
        <4>5. asked'[f] = asked[f] BY <4>3, <4>4 DEF Row
        <4>6. UNCHANGED <<form, accepted>> BY <1>9, <4>1 DEF Bridge!Submit
        <4> QED BY <2>1, <2>3, <4>5, <4>6, FormStill
      <3>6. CASE form[f].pc = "waiting"
        <4>1. missing = {}
          BY <2>3, <3>2, <3>6 DEF FormInv, Unanswered, Bridge!Questions
        <4>2. upto = Bridge(cf)!Questions BY <4>1
        <4>3. \A q \in Bridge(cf)!Questions : asked'[f][q] = Bridge(cf)!Coerce(raw[q]) BY <3>1, <4>2
        <4>4. /\ form' = [form EXCEPT ![f].submitted = TRUE]
              /\ accepted'[f] = accepted[f] \cup {raw}
          BY <1>9, <4>1 DEF Bridge!Submit
        <4>5. /\ form'[f].pc = "waiting" /\ form'[f].run = form[f].run
              /\ form'[f].at = form[f].at /\ form'[f].answers = form[f].answers
              /\ form'[f].submitted /\ form'[f].outcome = form[f].outcome
          BY <3>6, <4>4 DEF FormRecord
        <4>6. Len(form[f].answers) = 0 /\ form[f].at = 1 /\ form[f].outcome = "answered"
          BY <2>3, <3>2, <3>6 DEF FormInv, Unanswered
        <4>7. AnsweredBy(cf, f, raw)'
          BY <3>2, <4>3, <4>4, <4>5, <4>6 DEF AnsweredBy, Unanswered
        <4>8. \A q \in Bridge(cf)!Questions :
                 asked'[f][q] # Bridge(cf)!Gone /\ asked'[f][q] # Bridge(cf)!Cancelled
          BY <4>3, Responses
        <4>9. 1 <= cf.Size BY DEF Bridge!ClarifyAssumption
        <4> QED
          BY <2>1, <2>3, <3>6, <4>5, <4>6, <4>7, <4>8, <4>9
          DEF FormInv, Bridge!Registered, Bridge!Questions
      <3> QED BY <3>4, <3>5, <3>6
    <2> QED BY <2>2, <2>4 DEF FormFacts
  <1>10. CASE Bridge(cf)!Close
    <2>1. /\ UNCHANGED <<form, accepted>> /\ (unloaded => unloaded')
          /\ asked' \in Bridge(cf)!CancelledEntries({y \in cf.Forms : Bridge(cf)!Registered(y)})
          /\ \A u \in cf.Runs : /\ stage[u] = "over" => stage'[u] = "over"
                                /\ stage[u] # "new" => stage'[u] # "new"
      BY <1>10 DEF Bridge!Close
    <2>2. ASSUME NEW x \in cf.Forms PROVE FormInv(cf, x)'
      <3>1. CASE x \notin {y \in cf.Forms : Bridge(cf)!Registered(y)} BY <2>1, <3>1, FormStill, CancelledRows DEF FormFacts
      <3>2. CASE x \in {y \in cf.Forms : Bridge(cf)!Registered(y)}
        BY <1>10, <3>2, <2>1, CancelledRows, OverStill DEF Bridge!Close, Bridge!FormsOf, Over,
           FormFacts
      <3> QED BY <3>1, <3>2
    <2> QED BY <2>2 DEF FormFacts
  <1>11. CASE UNCHANGED Bridge(cf)!vars BY <1>11, FormStill DEF Bridge!vars, FormFacts
  <1> QED
    BY <1>1, <1>2, <1>3, <1>4, <1>5, <1>6, <1>7, <1>8, <1>9, <1>10, <1>11
    DEF Bridge!Next, Bridge!Thread

-----------------------------------------------------------------------------
(* Types, sinks and events.                                                *)

LEMMA FormTyped ==
  ASSUME NEW cf,
         Bridge(cf)!ClarifyAssumption, form \in [cf.Forms -> FormRecord(cf)], asked \in [cf.Forms -> Row(cf)],
         stage \in [cf.Runs -> {"new", "live", "ending", "over"}],
         accepted \in [cf.Forms -> SUBSET [Bridge(cf)!Questions -> cf.Raw]], FormFacts(cf),
         [Bridge(cf)!Next]_(Bridge(cf)!vars)
  PROVE  form' \in [cf.Forms -> FormRecord(cf)]
  <1>1. CASE UNCHANGED form
    BY <1>1
  <1>2. ASSUME NEW f \in cf.Forms, Bridge(cf)!Register(f)
        PROVE  form' \in [cf.Forms -> FormRecord(cf)]
    <2>1. ASSUME NEW s \in {"refused", "waiting"}, form' = [form EXCEPT ![f].pc = s]
          PROVE  form' \in [cf.Forms -> FormRecord(cf)]
      <3>1. form[f] \in FormRecord(cf) OBVIOUS
      <3>2. [form[f] EXCEPT !.pc = s] \in FormRecord(cf) BY <3>1 DEF FormRecord
      <3> QED BY <2>1, <3>2
    <2> QED BY <1>2, <2>1 DEF Bridge!Register
  <1>3. ASSUME NEW f \in cf.Forms, Bridge(cf)!Collect(f)
        PROVE  form' \in [cf.Forms -> FormRecord(cf)]
    <2> DEFINE k == form[f].at
               v == asked[f][k]
    <2>1. /\ form[f] \in FormRecord(cf) /\ FormInv(cf, f) /\ form[f].pc = "waiting"
          /\ v \notin {Bridge(cf)!Gone, Bridge(cf)!Open}
      BY <1>3 DEF Bridge!Collect, FormFacts
    <2>2. k \in Bridge(cf)!Questions /\ k \in Nat /\ k + 1 \in 1..(cf.Size + 1)
      BY <2>1 DEF FormInv, FormRecord, Bridge!Questions, Bridge!ClarifyAssumption
    <2>3. v \in Response(cf) BY <2>2 DEF Row
    <2>4. CASE v = Bridge(cf)!Cancelled
      BY <1>3, <2>4, <2>1 DEF Bridge!Collect, FormRecord, Bridge!Outcomes
    <2>5. CASE v # Bridge(cf)!Cancelled
      <3>1. v \in Bridge(cf)!Values BY <2>1, <2>3, <2>5 DEF Response
      <3>2. Append(form[f].answers, v) \in Seq(Bridge(cf)!Values) BY <2>1, <3>1 DEF FormRecord
      <3>3. ASSUME NEW s \in {"leaving", "waiting"}
            PROVE  [form[f] EXCEPT !.answers = Append(form[f].answers, v), !.at = k + 1,
                                   !.pc = s] \in FormRecord(cf)
        BY <2>1, <2>2, <3>2 DEF FormRecord
      <3>4. form' = [form EXCEPT ![f] = [form[f] EXCEPT
                        !.answers = Append(form[f].answers, v), !.at = k + 1,
                        !.pc = IF k = cf.Size THEN "leaving" ELSE "waiting"]]
        BY <1>3, <2>5 DEF Bridge!Collect
      <3> QED BY <3>3, <3>4
    <2> QED BY <2>4, <2>5
  <1>4. ASSUME NEW f \in cf.Forms, Bridge(cf)!Expire(f)
        PROVE  form' \in [cf.Forms -> FormRecord(cf)]
    <2>1. form[f] \in FormRecord(cf) OBVIOUS
    <2>2. form' = [form EXCEPT ![f] = form'[f]] /\ form'[f] = [form[f] EXCEPT !.pc = "leaving", !.outcome = "timed_out"]
      BY <1>4 DEF Bridge!Expire
    <2>3. form'[f] \in FormRecord(cf) BY <2>1, <2>2 DEF FormRecord, Bridge!Outcomes
    <2> QED BY <2>2, <2>3
  <1>5. ASSUME NEW f \in cf.Forms, Bridge(cf)!Leave(f)
        PROVE  form' \in [cf.Forms -> FormRecord(cf)]
    <2>1. form[f] \in FormRecord(cf) OBVIOUS
    <2>2. form' = [form EXCEPT ![f] = form'[f]] /\ form'[f] = [form[f] EXCEPT !.pc = "done"]
      BY <1>5 DEF Bridge!Leave
    <2>3. form'[f] \in FormRecord(cf) BY <2>1, <2>2 DEF FormRecord
    <2> QED BY <2>2, <2>3
  <1>6. ASSUME NEW f \in cf.Forms, NEW r \in cf.Runs, Bridge(cf)!Ask(f, r)
        PROVE  form' \in [cf.Forms -> FormRecord(cf)]
    <2>1. form[f] \in FormRecord(cf) OBVIOUS
    <2>2. form' = [form EXCEPT ![f] = form'[f]] /\ form'[f] = [form[f] EXCEPT !.pc = "asking", !.run = r]
      BY <1>6 DEF Bridge!Ask
    <2>3. form'[f] \in FormRecord(cf) BY <2>1, <2>2 DEF FormRecord
    <2> QED BY <2>2, <2>3
  <1>7. ASSUME NEW f \in cf.Forms, NEW raw \in [Bridge(cf)!Questions -> cf.Raw], Bridge(cf)!Submit(f, raw)
        PROVE  form' \in [cf.Forms -> FormRecord(cf)]
    <2>1. CASE form' = [form EXCEPT ![f].submitted = TRUE]
      <3>1. form[f] \in FormRecord(cf) OBVIOUS
      <3>2. [form[f] EXCEPT !.submitted = TRUE] \in FormRecord(cf) BY <3>1 DEF FormRecord
      <3> QED BY <2>1, <3>2
    <2> QED BY <1>7, <2>1 DEF Bridge!Submit
  <1> QED
    BY <1>1, <1>2, <1>3, <1>4, <1>5, <1>6, <1>7
    DEF Bridge!vars, Bridge!Next, Bridge!Thread, Bridge!RunStarts, Bridge!RunEnds,
        Bridge!CancelRun, Bridge!Close

LEMMA AskedTyped ==
  ASSUME NEW cf,
         Bridge(cf)!ClarifyAssumption, form \in [cf.Forms -> FormRecord(cf)], asked \in [cf.Forms -> Row(cf)],
         stage \in [cf.Runs -> {"new", "live", "ending", "over"}],
         accepted \in [cf.Forms -> SUBSET [Bridge(cf)!Questions -> cf.Raw]], FormFacts(cf),
         [Bridge(cf)!Next]_(Bridge(cf)!vars)
  PROVE  asked' \in [cf.Forms -> Row(cf)]
  <1>1. CASE UNCHANGED asked
    BY <1>1
  <1>2. ASSUME NEW r \in cf.Runs, Bridge(cf)!CancelRun(r)
        PROVE  asked' \in [cf.Forms -> Row(cf)]
    BY <1>2, CancelledRows DEF Bridge!CancelRun
  <1>3. ASSUME NEW f \in cf.Forms, Bridge(cf)!Register(f)
        PROVE  asked' \in [cf.Forms -> Row(cf)]
    <2>1. [q \in Bridge(cf)!Questions |-> Bridge(cf)!Open] \in Row(cf) BY DEF Row, Response
    <2> QED BY <1>3, <2>1 DEF Bridge!Register
  <1>4. ASSUME NEW f \in cf.Forms, Bridge(cf)!Collect(f)
        PROVE  asked' \in [cf.Forms -> Row(cf)]
    BY <1>4 DEF Bridge!Collect, Row, Response
  <1>5. ASSUME NEW f \in cf.Forms, Bridge(cf)!Expire(f)
        PROVE  asked' \in [cf.Forms -> Row(cf)]
    BY <1>5 DEF Bridge!Expire, Row, Response
  <1>6. ASSUME NEW f \in cf.Forms, Bridge(cf)!Leave(f)
        PROVE  asked' \in [cf.Forms -> Row(cf)]
    BY <1>6 DEF Bridge!Leave, Row, Response
  <1>7. ASSUME NEW f \in cf.Forms, NEW raw \in [Bridge(cf)!Questions -> cf.Raw], Bridge(cf)!Submit(f, raw)
        PROVE  asked' \in [cf.Forms -> Row(cf)]
    <2>1. \A q \in Bridge(cf)!Questions : Bridge(cf)!Coerce(raw[q]) \in Bridge(cf)!Values
      BY Coerced, <1>7 DEF Bridge!Submit, Bridge!Values
    <2>2. \A q \in Bridge(cf)!Questions : asked[f][q] \in Response(cf) BY DEF Row
    <2> QED BY <1>7, <2>1, <2>2 DEF Bridge!Submit, Row, Response
  <1>8. CASE Bridge(cf)!Close
    BY <1>8, CancelledRows DEF Bridge!Close
  <1> QED
    BY <1>1, <1>2, <1>3, <1>4, <1>5, <1>6, <1>7, <1>8
    DEF Bridge!vars, Bridge!Next, Bridge!Thread, Bridge!RunStarts, Bridge!RunEnds,
        Bridge!Ask

LEMMA StageTyped ==
  ASSUME NEW cf,
         stage \in [cf.Runs -> {"new", "live", "ending", "over"}], sink \subseteq cf.Runs,
         unloaded \in BOOLEAN, SinkFacts, [Bridge(cf)!Next]_(Bridge(cf)!vars)
  PROVE  stage' \in [cf.Runs -> {"new", "live", "ending", "over"}]
         /\ sink' \subseteq cf.Runs /\ unloaded' \in BOOLEAN /\ SinkFacts'
  <1> USE DEF SinkFacts
  <1>1. CASE UNCHANGED <<stage, sink, unloaded>>
    BY <1>1
  <1>2. ASSUME NEW r \in cf.Runs, Bridge(cf)!RunStarts(r)
        PROVE  stage' \in [cf.Runs -> {"new", "live", "ending", "over"}]
               /\ sink' \subseteq cf.Runs /\ unloaded' \in BOOLEAN /\ SinkFacts'
    BY <1>2 DEF Bridge!RunStarts
  <1>3. ASSUME NEW r \in cf.Runs, Bridge(cf)!RunEnds(r)
        PROVE  stage' \in [cf.Runs -> {"new", "live", "ending", "over"}]
               /\ sink' \subseteq cf.Runs /\ unloaded' \in BOOLEAN /\ SinkFacts'
    BY <1>3 DEF Bridge!RunEnds
  <1>4. ASSUME NEW r \in cf.Runs, Bridge(cf)!CancelRun(r)
        PROVE  stage' \in [cf.Runs -> {"new", "live", "ending", "over"}]
               /\ sink' \subseteq cf.Runs /\ unloaded' \in BOOLEAN /\ SinkFacts'
    BY <1>4 DEF Bridge!CancelRun
  <1>5. CASE Bridge(cf)!Close BY <1>5 DEF Bridge!Close
  <1> QED
    BY <1>1, <1>2, <1>3, <1>4, <1>5
    DEF Bridge!vars, Bridge!Next, Bridge!Thread, Bridge!Register, Bridge!Collect,
        Bridge!Expire, Bridge!Leave, Bridge!Ask, Bridge!Submit

LEMMA SubmitsTyped ==
  ASSUME NEW cf,
         Bridge(cf)!ClarifyAssumption, accepted \in [cf.Forms -> SUBSET [Bridge(cf)!Questions -> cf.Raw]],
         submits \in 0..cf.MaxSubmits, [Bridge(cf)!Next]_(Bridge(cf)!vars)
  PROVE  accepted' \in [cf.Forms -> SUBSET [Bridge(cf)!Questions -> cf.Raw]] /\ submits' \in 0..cf.MaxSubmits
  <1>1. CASE UNCHANGED <<accepted, submits>>
    BY <1>1
  <1>2. ASSUME NEW f \in cf.Forms, NEW raw \in [Bridge(cf)!Questions -> cf.Raw], Bridge(cf)!Submit(f, raw)
        PROVE  accepted' \in [cf.Forms -> SUBSET [Bridge(cf)!Questions -> cf.Raw]] /\ submits' \in 0..cf.MaxSubmits
    BY <1>2 DEF Bridge!Submit, Bridge!ClarifyAssumption
  <1> QED
    BY <1>1, <1>2
    DEF Bridge!vars, Bridge!Next, Bridge!Thread, Bridge!RunStarts, Bridge!RunEnds,
        Bridge!CancelRun, Bridge!Register, Bridge!Collect, Bridge!Expire, Bridge!Leave,
        Bridge!Ask, Bridge!Close

\* What publishing one more event does.
LEMMA Publishes ==
  ASSUME NEW cf, events \in Seq({"request", "resolved"} \X cf.Forms),
         NEW e \in {"request", "resolved"} \X cf.Forms, events' = Append(events, e)
  PROVE  /\ events' \in Seq({"request", "resolved"} \X cf.Forms)
         /\ \A i \in DOMAIN events : i \in DOMAIN events' /\ events'[i] = events[i]
         /\ \A i \in DOMAIN events' : i \in Nat /\ (i \in DOMAIN events \/
               (events'[i] = e /\ i \in DOMAIN events' /\ \A j \in DOMAIN events : j < i))
         /\ \A i, j \in DOMAIN events' : i \notin DOMAIN events /\ j \notin DOMAIN events => i = j
         /\ \A a : Bridge(cf)!Published(a)' <=> Bridge(cf)!Published(a) \/ a = e
  <1>1. /\ events' \in Seq({"request", "resolved"} \X cf.Forms) /\ Len(events') = Len(events) + 1
        /\ Len(events) \in Nat /\ DOMAIN events = 1..Len(events)
        /\ DOMAIN events' = 1..(Len(events) + 1) /\ events'[Len(events) + 1] = e
        /\ \A i \in 1..Len(events) : events'[i] = events[i]
    OBVIOUS
  <1>2. \A a : Bridge(cf)!Published(a)' <=> Bridge(cf)!Published(a) \/ a = e
    BY <1>1 DEF Bridge!Published
  <1>3. /\ \A i \in DOMAIN events : i \in DOMAIN events' /\ events'[i] = events[i]
        /\ \A i \in DOMAIN events' : i \in Nat /\ (i \in DOMAIN events \/
              (events'[i] = e /\ i \in DOMAIN events' /\ \A j \in DOMAIN events : j < i))
    BY <1>1
  <1>4. \A i, j \in DOMAIN events' : i \notin DOMAIN events /\ j \notin DOMAIN events => i = j
    BY <1>1
  <1> QED BY <1>1, <1>2, <1>3, <1>4

LEMMA EventsStill ==
  ASSUME NEW cf, Bridge(cf)!EventsPair, events' = events,
         \A x \in cf.Forms : /\ Bridge(cf)!Registered(x)' = Bridge(cf)!Registered(x)
                             /\ (form'[x].pc = "done") = (form[x].pc = "done")
  PROVE  Bridge(cf)!EventsPair'
  BY DEF Bridge!EventsPair, Bridge!Published

LEMMA EventsKept ==
  ASSUME NEW cf,
         form \in [cf.Forms -> FormRecord(cf)], events \in Seq({"request", "resolved"} \X cf.Forms),
         Bridge(cf)!EventsPair, [Bridge(cf)!Next]_(Bridge(cf)!vars)
  PROVE  Bridge(cf)!EventsPair'
  <1>1. CASE UNCHANGED <<form, events>>
    BY <1>1, EventsStill DEF Bridge!Registered
  <1>2. ASSUME NEW f \in cf.Forms, Bridge(cf)!Register(f)
        PROVE  Bridge(cf)!EventsPair'
    <2>1. form[f].pc = "asking" /\ \A x \in cf.Forms \ {f} : form'[x] = form[x]
      BY <1>2 DEF Bridge!Register
    <2>2. CASE form' = [form EXCEPT ![f].pc = "refused"] /\ events' = events
      <3>1. form'[f].pc = "refused" BY <2>2 DEF FormRecord
      <3> QED BY <2>1, <2>2, <3>1, EventsStill DEF Bridge!Registered
    <2>3. CASE form' = [form EXCEPT ![f].pc = "waiting"] /\ events' = Append(events, <<"request", f>>)
      <3>1. form'[f].pc = "waiting" BY <2>3 DEF FormRecord
      <3> DEFINE e == <<"request", f>>
      <3>2. /\ ~Bridge(cf)!Published(e) /\ ~Bridge(cf)!Published(<<"resolved", f>>)
            /\ \A x \in cf.Forms : e # <<"resolved", x>>
        BY <2>1 DEF Bridge!EventsPair, Bridge!Registered
      <3>3. \A i \in DOMAIN events : events[i] # e /\ events[i] # <<"resolved", f>>
        BY <3>2 DEF Bridge!Published
      <3>4. \A x \in cf.Forms \ {f} : <<"request", x>> # e /\ <<"resolved", x>> # e OBVIOUS
      <3>5. ASSUME NEW i \in DOMAIN events', NEW j \in DOMAIN events', events'[i] = events'[j]
            PROVE  i = j
        BY <2>3, <3>3, <3>5, Publishes DEF Bridge!EventsPair
      <3>6. ASSUME NEW x \in cf.Forms
            PROVE  /\ Bridge(cf)!Published(<<"request", x>>)' <=>
                         Bridge(cf)!Registered(x)' \/ form'[x].pc = "done"
                   /\ Bridge(cf)!Published(<<"resolved", x>>)' <=> form'[x].pc = "done"
        <4>1. \A a : Bridge(cf)!Published(a)' <=> Bridge(cf)!Published(a) \/ a = e BY <2>3, Publishes
        <4>2. CASE x = f
          BY <2>1, <3>1, <3>2, <4>1, <4>2 DEF Bridge!Registered
        <4>3. CASE x # f
          BY <2>1, <3>4, <4>1, <4>3 DEF Bridge!EventsPair, Bridge!Registered
        <4> QED BY <4>2, <4>3
      <3>7. ASSUME NEW x \in cf.Forms, NEW i \in DOMAIN events', NEW j \in DOMAIN events',
                   events'[i] = <<"request", x>>, events'[j] = <<"resolved", x>>
            PROVE  i < j
        BY <2>3, <3>2, <3>7, Publishes, <3>3, <3>4 DEF Bridge!EventsPair
      <3> QED BY <3>5, <3>6, <3>7 DEF Bridge!EventsPair
    <2> QED BY <1>2, <2>2, <2>3 DEF Bridge!Register
  <1>3. ASSUME NEW f \in cf.Forms, Bridge(cf)!Collect(f)
        PROVE  Bridge(cf)!EventsPair'
    <2>1. /\ events' = events
          /\ \A x \in cf.Forms : form'[x].pc = form[x].pc \/ (form[x].pc \in {"waiting"} /\ form'[x].pc \in {"waiting", "leaving"})
      BY <1>3 DEF Bridge!Collect, FormRecord
    <2> QED BY <2>1, EventsStill DEF Bridge!Registered
  <1>4. ASSUME NEW f \in cf.Forms, Bridge(cf)!Expire(f)
        PROVE  Bridge(cf)!EventsPair'
    <2>1. /\ events' = events
          /\ \A x \in cf.Forms : form'[x].pc = form[x].pc \/ (form[x].pc \in {"waiting"} /\ form'[x].pc \in {"leaving"})
      BY <1>4 DEF Bridge!Expire, FormRecord
    <2> QED BY <2>1, EventsStill DEF Bridge!Registered
  <1>5. ASSUME NEW f \in cf.Forms, Bridge(cf)!Leave(f)
        PROVE  Bridge(cf)!EventsPair'
    <2>1. /\ form[f].pc = "leaving" /\ \A x \in cf.Forms \ {f} : form'[x] = form[x]
          /\ form' = [form EXCEPT ![f].pc = "done"]
          /\ events' = Append(events, <<"resolved", f>>)
      BY <1>5 DEF Bridge!Leave
    <2>2. form'[f].pc = "done" BY <2>1 DEF FormRecord
    <2> DEFINE e == <<"resolved", f>>
    <2>3. /\ ~Bridge(cf)!Published(e) /\ Bridge(cf)!Published(<<"request", f>>)
          /\ \A x \in cf.Forms : e # <<"request", x>>
      BY <2>1 DEF Bridge!EventsPair, Bridge!Registered
    <2>4. \A i \in DOMAIN events : events[i] # e BY <2>3 DEF Bridge!Published
    <2>5. \A x \in cf.Forms \ {f} : <<"resolved", x>> # e OBVIOUS
    <2>6. ASSUME NEW i \in DOMAIN events', NEW j \in DOMAIN events', events'[i] = events'[j]
          PROVE  i = j
      BY <2>1, <2>4, <2>6, Publishes DEF Bridge!EventsPair
    <2>7. ASSUME NEW x \in cf.Forms
          PROVE  /\ Bridge(cf)!Published(<<"request", x>>)' <=>
                       Bridge(cf)!Registered(x)' \/ form'[x].pc = "done"
                 /\ Bridge(cf)!Published(<<"resolved", x>>)' <=> form'[x].pc = "done"
      <3>1. \A a : Bridge(cf)!Published(a)' <=> Bridge(cf)!Published(a) \/ a = e BY <2>1, Publishes
      <3>2. CASE x = f BY <2>1, <2>2, <2>3, <3>1, <3>2 DEF Bridge!Registered
      <3>3. CASE x # f
        BY <2>1, <2>3, <2>5, <3>1, <3>3 DEF Bridge!EventsPair, Bridge!Registered
      <3> QED BY <3>2, <3>3
    <2>8. ASSUME NEW x \in cf.Forms, NEW i \in DOMAIN events', NEW j \in DOMAIN events',
                 events'[i] = <<"request", x>>, events'[j] = <<"resolved", x>>
          PROVE  i < j
      BY <2>1, <2>3, <2>8, Publishes DEF Bridge!EventsPair
    <2> QED BY <2>6, <2>7, <2>8 DEF Bridge!EventsPair
  <1>6. ASSUME NEW f \in cf.Forms, NEW r \in cf.Runs, Bridge(cf)!Ask(f, r)
        PROVE  Bridge(cf)!EventsPair'
    <2>1. /\ events' = events
          /\ \A x \in cf.Forms : form'[x].pc = form[x].pc \/ (form[x].pc \in {"idle"} /\ form'[x].pc \in {"asking"})
      BY <1>6 DEF Bridge!Ask, FormRecord
    <2> QED BY <2>1, EventsStill DEF Bridge!Registered
  <1>7. ASSUME NEW f \in cf.Forms, NEW raw \in [Bridge(cf)!Questions -> cf.Raw], Bridge(cf)!Submit(f, raw)
        PROVE  Bridge(cf)!EventsPair'
    <2>1. events' = events BY <1>7 DEF Bridge!Submit
    <2>2. form' = form \/ form' = [form EXCEPT ![f].submitted = TRUE]
      BY <1>7 DEF Bridge!Submit
    <2>3. ASSUME NEW x \in cf.Forms PROVE form'[x].pc = form[x].pc
      <3>1. \A g \in FormRecord(cf) : [g EXCEPT !.submitted = TRUE].pc = g.pc
        BY DEF FormRecord
      <3>2. form'[x] = form[x] \/ form'[x] = [form[x] EXCEPT !.submitted = TRUE] BY <2>2
      <3> QED BY <3>1, <3>2
    <2> QED BY <2>1, <2>3, EventsStill DEF Bridge!Registered
  <1> QED
    BY <1>1, <1>2, <1>3, <1>4, <1>5, <1>6, <1>7
    DEF Bridge!vars, Bridge!Next, Bridge!Thread, Bridge!RunStarts, Bridge!RunEnds,
        Bridge!CancelRun, Bridge!Close

LEMMA EventsTyped ==
  ASSUME NEW cf,
         events \in Seq({"request", "resolved"} \X cf.Forms), [Bridge(cf)!Next]_(Bridge(cf)!vars)
  PROVE  events' \in Seq({"request", "resolved"} \X cf.Forms)
  <1>1. CASE UNCHANGED events
    BY <1>1
  <1>2. ASSUME NEW f \in cf.Forms, Bridge(cf)!Register(f)
        PROVE  events' \in Seq({"request", "resolved"} \X cf.Forms)
    BY Publishes, <1>2 DEF Bridge!Register
  <1>3. ASSUME NEW f \in cf.Forms, Bridge(cf)!Leave(f)
        PROVE  events' \in Seq({"request", "resolved"} \X cf.Forms)
    BY <1>3 DEF Bridge!Leave
  <1> QED
    BY <1>1, <1>2, <1>3
    DEF Bridge!vars, Bridge!Next, Bridge!Thread, Bridge!RunStarts, Bridge!RunEnds,
        Bridge!CancelRun, Bridge!Collect, Bridge!Expire, Bridge!Ask, Bridge!Submit,
        Bridge!Close

LEMMA FormsStart == ASSUME NEW cf, Bridge(cf)!ClarifyAssumption, Bridge(cf)!Init PROVE FormsInv(cf)
  <1>1. /\ 1 \in 1..(cf.Size + 1) /\ cf.MaxSubmits \in Nat BY DEF Bridge!ClarifyAssumption
  <1>2. Bridge(cf)!TypeOK
    <2>1. form \in [cf.Forms -> FormRecord(cf)]
      BY <1>1 DEF Bridge!Init, FormRecord, Bridge!Outcomes
    <2>2. asked \in [cf.Forms -> Row(cf)] BY DEF Bridge!Init, Row, Response
    <2>3. /\ stage \in [cf.Runs -> {"new", "live", "ending", "over"}]
          /\ sink \subseteq cf.Runs /\ unloaded \in BOOLEAN
          /\ accepted \in [cf.Forms -> SUBSET [Bridge(cf)!Questions -> cf.Raw]]
      BY DEF Bridge!Init
    <2>4. events \in Seq({"request", "resolved"} \X cf.Forms) /\ submits \in 0..cf.MaxSubmits
      BY <1>1 DEF Bridge!Init
    <2> QED BY <2>1, <2>2, <2>3, <2>4, TypesAre
  <1>3. ASSUME NEW x \in cf.Forms PROVE FormInv(cf, x)
    BY Responses DEF Bridge!Init, FormInv, Unanswered, Bridge!Registered
  <1>4. SinkFacts BY DEF Bridge!Init, SinkFacts
  <1>5. Bridge(cf)!EventsPair
    BY DEF Bridge!Init, Bridge!EventsPair, Bridge!Published, Bridge!Registered
  <1> QED BY <1>2, <1>3, <1>4, <1>5 DEF FormsInv, FormFacts

LEMMA FormsKept ==
  ASSUME NEW cf,
         Bridge(cf)!ClarifyAssumption, FormsInv(cf), [Bridge(cf)!Next]_(Bridge(cf)!vars)
  PROVE  FormsInv(cf)'
  <1> USE DEF FormsInv
  <1>1. /\ form \in [cf.Forms -> FormRecord(cf)] /\ asked \in [cf.Forms -> Row(cf)]
        /\ stage \in [cf.Runs -> {"new", "live", "ending", "over"}]
        /\ sink \subseteq cf.Runs /\ unloaded \in BOOLEAN
        /\ accepted \in [cf.Forms -> SUBSET [Bridge(cf)!Questions -> cf.Raw]]
        /\ events \in Seq({"request", "resolved"} \X cf.Forms)
        /\ submits \in 0..cf.MaxSubmits
    BY TypesAre
  <1>2. FormFacts(cf)' /\ form' \in [cf.Forms -> FormRecord(cf)] /\ asked' \in [cf.Forms -> Row(cf)]
    BY <1>1, FormFactsKept, FormTyped, AskedTyped
  <1>3. /\ stage' \in [cf.Runs -> {"new", "live", "ending", "over"}]
        /\ sink' \subseteq cf.Runs /\ unloaded' \in BOOLEAN /\ SinkFacts'
    BY <1>1, StageTyped
  <1>4. /\ accepted' \in [cf.Forms -> SUBSET [Bridge(cf)!Questions -> cf.Raw]]
        /\ submits' \in 0..cf.MaxSubmits
        /\ events' \in Seq({"request", "resolved"} \X cf.Forms) /\ Bridge(cf)!EventsPair'
    BY <1>1, SubmitsTyped, EventsTyped, EventsKept
  <1>5. Bridge(cf)!TypeOK' BY <1>2, <1>3, <1>4, TypesAre DEF Bridge!TypeOK, FormRecord, Row, Response
  <1> QED BY <1>2, <1>3, <1>4, <1>5

LEMMA FormsAreHeard ==
  ASSUME NEW cf, Bridge(cf)!ClarifyAssumption, FormsInv(cf) PROVE Bridge(cf)!AnswersHeard
  <1>1. ASSUME NEW x \in cf.Forms
        PROVE  /\ form[x] \in FormRecord(cf) /\ FormInv(cf, x) /\ Len(form[x].answers) = form[x].at - 1
               /\ form[x].answers \in Seq(Bridge(cf)!Values) /\ form[x].at \in 1..(cf.Size + 1)
    BY TypesAre DEF FormsInv, FormFacts, FormInv, FormRecord
  <1>2. ASSUME NEW x \in cf.Forms, accepted[x] # {}
        PROVE  \E raw \in [Bridge(cf)!Questions -> cf.Raw] : AnsweredBy(cf, x, raw)
    BY <1>1, <1>2 DEF FormInv, Unanswered
  <1>3. Bridge(cf)!AnsweredIsDelivered
    <2>1. SUFFICES ASSUME NEW x \in cf.Forms, accepted[x] # {}, stage[form[x].run] = "live", ~unloaded
                   PROVE  /\ \A raw \in accepted[x] : form[x].answers =
                                [q \in 1..(form[x].at - 1) |-> Bridge(cf)!Coerce(raw[q])]
                          /\ form[x].pc = "done" => /\ form[x].outcome = "answered"
                                                    /\ Len(form[x].answers) = cf.Size
      BY DEF Bridge!AnsweredIsDelivered
    <2>2. PICK raw \in [Bridge(cf)!Questions -> cf.Raw] : AnsweredBy(cf, x, raw) BY <1>2, <2>1
    <2>3. form[x].answers = [q \in 1..(form[x].at - 1) |-> Bridge(cf)!Coerce(raw[q])]
      <3>1. /\ form[x].answers \in Seq(Bridge(cf)!Values)
            /\ Len(form[x].answers) = form[x].at - 1
            /\ \A q \in 1..Len(form[x].answers) : form[x].answers[q] = Bridge(cf)!Coerce(raw[q])
        BY <1>1, <2>2 DEF AnsweredBy
      <3> QED BY <3>1
    <2>4. ~Over(x) BY <2>1 DEF Over
    <2>5. ASSUME form[x].pc = "done" PROVE form[x].outcome = "answered" /\ Len(form[x].answers) = cf.Size
      BY <1>1, <2>2, <2>4, <2>5 DEF FormRecord, AnsweredBy, FormInv, Bridge!Outcomes,
         Bridge!ClarifyAssumption
    <2> QED BY <2>2, <2>3, <2>5 DEF AnsweredBy
  <1>4. Bridge(cf)!AnswersWereSent
    <2>1. SUFFICES ASSUME NEW x \in cf.Forms, form[x].answers # << >>
                   PROVE  \E raw \in accepted[x] : \A q \in DOMAIN form[x].answers :
                             form[x].answers[q] = Bridge(cf)!Coerce(raw[q])
      BY DEF Bridge!AnswersWereSent
    <2>2. form[x].at # 1 /\ DOMAIN form[x].answers = 1..Len(form[x].answers)
      BY <1>1, <2>1
    <2>3. form[x].submitted BY <1>1, <2>2 DEF FormInv, Unanswered
    <2>4. PICK raw \in [Bridge(cf)!Questions -> cf.Raw] : AnsweredBy(cf, x, raw) BY <1>1, <2>3 DEF FormInv
    <2> QED BY <2>2, <2>4 DEF AnsweredBy
  <1>5. Bridge(cf)!NothingLeft BY <1>1 DEF Bridge!NothingLeft, FormInv
  <1> QED BY <1>3, <1>4, <1>5 DEF Bridge!AnswersHeard, FormsInv

-----------------------------------------------------------------------------
(* The group: in every scenario its component keeps its invariant, whatever *)
(* the records of constants are.                                           *)

AsksHold ==
    /\ scenario = "listed" => ApprovalInv(Listed)
    /\ scenario = "named" => ApprovalInv(Named)
    /\ scenario = "toggled" => ApprovalInv(Toggled)
    /\ scenario = "answered" => FormsInv(Answered)
    /\ scenario = "waiting" => FormsInv(Waiting)
    /\ scenario = "timed" => FormsInv(Timed)

LEMMA AsksStart == Init => AsksHold
  <1> SUFFICES ASSUME Init PROVE AsksHold OBVIOUS
  <1>1. ASSUME scenario = "listed" PROVE ApprovalInv(Listed)
    BY <1>1, Instances, ApprovalStarts DEF Init, Instances
  <1>2. ASSUME scenario = "named" PROVE ApprovalInv(Named)
    BY <1>2, Instances, ApprovalStarts DEF Init, Instances
  <1>3. ASSUME scenario = "toggled" PROVE ApprovalInv(Toggled)
    BY <1>3, Instances, ApprovalStarts DEF Init, Instances
  <1>4. ASSUME scenario = "answered" PROVE FormsInv(Answered)
    BY <1>4, Instances, FormsStart DEF Init, Instances
  <1>5. ASSUME scenario = "waiting" PROVE FormsInv(Waiting)
    BY <1>5, Instances, FormsStart DEF Init, Instances
  <1>6. ASSUME scenario = "timed" PROVE FormsInv(Timed)
    BY <1>6, Instances, FormsStart DEF Init, Instances
  <1> QED BY <1>1, <1>2, <1>3, <1>4, <1>5, <1>6 DEF AsksHold

\* What the scenario at hand lets its component do.
LEMMA AsksMove ==
  ASSUME [Next]_vars
  PROVE  /\ scenario' = scenario
         /\ scenario = "listed" => [Approval(Listed)!Next]_(Approval(Listed)!vars)
         /\ scenario = "named" => [Approval(Named)!Next]_(Approval(Named)!vars)
         /\ scenario = "toggled" => [Approval(Toggled)!Next]_(Approval(Toggled)!vars)
         /\ scenario = "answered" => [Bridge(Answered)!Next]_(Bridge(Answered)!vars)
         /\ scenario = "waiting" => [Bridge(Waiting)!Next]_(Bridge(Waiting)!vars)
         /\ scenario = "timed" => [Bridge(Timed)!Next]_(Bridge(Timed)!vars)
  <1>1. CASE Next BY <1>1 DEF Next
  <1>2. CASE UNCHANGED vars
    BY <1>2 DEF vars, InboxVars, Approval!vars, FormVars, Bridge!vars
  <1> QED BY <1>1, <1>2

LEMMA AsksKeep == AsksHold /\ [Next]_vars => AsksHold'
  <1> SUFFICES ASSUME AsksHold, [Next]_vars PROVE AsksHold' OBVIOUS
  <1>0. scenario' = scenario BY AsksMove
  <1>1. ASSUME scenario = "listed" PROVE (ApprovalInv(Listed))'
    BY <1>1, AsksMove, Instances, ApprovalKept DEF Instances, AsksHold
  <1>2. ASSUME scenario = "named" PROVE (ApprovalInv(Named))'
    BY <1>2, AsksMove, Instances, ApprovalKept DEF Instances, AsksHold
  <1>3. ASSUME scenario = "toggled" PROVE (ApprovalInv(Toggled))'
    BY <1>3, AsksMove, Instances, ApprovalKept DEF Instances, AsksHold
  <1>4. ASSUME scenario = "answered" PROVE (FormsInv(Answered))'
    BY <1>4, AsksMove, Instances, FormsKept DEF Instances, AsksHold
  <1>5. ASSUME scenario = "waiting" PROVE (FormsInv(Waiting))'
    BY <1>5, AsksMove, Instances, FormsKept DEF Instances, AsksHold
  <1>6. ASSUME scenario = "timed" PROVE (FormsInv(Timed))'
    BY <1>6, AsksMove, Instances, FormsKept DEF Instances, AsksHold
  <1> QED BY <1>0, <1>1, <1>2, <1>3, <1>4, <1>5, <1>6 DEF AsksHold

LEMMA AsksHoldAlways == Spec => []AsksHold
  BY AsksStart, AsksKeep, PTL DEF Spec

\* An answer settles the request it named or none, the list shows what the
\* queue held when it was read, the registry stays within its bound, and a
\* request is announced, reminded of and resolved at most once: for any
\* requests, capture threads, answers and uses of the kill switch
\* (approval_inbox.py, approval_push.py).
THEOREM EveryApprovalExact == Spec => []ApprovalsExact
  <1>1. AsksHold => ApprovalsExact BY ApprovalImplies DEF AsksHold, ApprovalsExact
  <1> QED BY <1>1, AsksHoldAlways, PTL

\* What the App was told is answered reaches the agent whole, the agent acts on
\* nothing else, and a form that is over leaves no question and no open card:
\* for any forms, runs, questions, answers and devices, with a deadline and
\* without (Bridge.callback and Bridge.handle of patch_clarify.py).
THEOREM EveryAnswerHeard == Spec => []AnswersHeard
  <1>1. \A cf \in {Answered, Waiting, Timed} : Bridge(cf)!ClarifyAssumption
    BY Instances DEF Instances
  <1>2. AsksHold => AnswersHeard
    BY <1>1, FormsAreHeard DEF AsksHold, FormsInv, AnswersHeard
  <1> QED BY <1>2, AsksHoldAlways, PTL

\* What was settled stays settled. The final verdicts of a receipt stay until
\* it is purged, a purged key comes back to nothing, and a sealed run accepts
\* and claims nothing any more (confirm_batch, mark_outcome_unknown,
\* claim_batch, admit). The first outcome of an approval wins over hook,
\* answer, reconciliation and the end of the run that race for it (settle), and
\* a request that had left the queue, or whose run had ended, when its timer
\* fired is not reminded of, however late its hook runs (fire). A turn's
\* terminal status is never overwritten.
THEOREM VerdictIsFinal == Spec => VerdictsStick
  <1> DEFINE Sticks == /\ scenario = "steered" => Inbox(Steered)!VerdictKept
                       /\ scenario = "toggled" =>
                            Approval(Toggled)!OutcomeKept /\ Approval(Toggled)!GoneIsNotReminded
                       /\ scenario = "streamed" => Stream(Streamed)!TerminalKept
  <1>1. SteersHold /\ AsksHold /\ [Next]_vars => [Sticks]_vars
    <2> SUFFICES ASSUME SteersHold, AsksHold, [Next]_vars PROVE Sticks OBVIOUS
    <2>1. ASSUME scenario = "steered" PROVE Inbox(Steered)!VerdictKept
      BY Instances, <2>1, SteersMove, VerdictStays DEF Instances, SteersHold
    <2>2. ASSUME scenario = "toggled"
          PROVE  Approval(Toggled)!OutcomeKept /\ Approval(Toggled)!GoneIsNotReminded
      BY <2>2, AsksMove, OutcomeStays DEF AsksHold
    <2>3. ASSUME scenario = "streamed" PROVE Stream(Streamed)!TerminalKept
      BY <2>3, SteersMove, TerminalStays DEF SteersHold
    <2> QED BY <2>1, <2>2, <2>3
  <1> QED BY <1>1, SteersHoldAlways, AsksHoldAlways, PTL DEF Spec, VerdictsStick

=============================================================================
