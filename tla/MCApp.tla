------------------------------- MODULE MCApp -------------------------------
(***************************************************************************)
(* The App's two durable queues: the outbox of its sends (AppOutbox) and    *)
(* the queue of its automatic wakes (AppWake). They share no state, so      *)
(* nothing is lost by following one of them at a time: a behaviour belongs  *)
(* to one scenario, an instance with bounds of its own, and leaves the      *)
(* variables of the other queue alone.                                      *)
(***************************************************************************)
EXTENDS Integers

\* What each scenario gives its component for its constants, as a record.
CONSTANTS Turns, Refusing, Queued, Switched, Steady

VARIABLES
    scenario,
    \* AppOutbox
    send, entries, disk, writes, claimed, chain, job, retry, up, dead, stray,
    admitted, drafts, left,
    \* AppWake
    rows, off, behind, on, typing, st, saved, txs, scan, timer, lane, owner,
    state, budget

OutboxVars == <<send, entries, disk, writes, claimed, chain, job, retry, up, dead,
                stray, admitted, drafts, left>>
WakeVars == <<rows, off, behind, on, typing, st, saved, txs, scan, timer, lane,
              owner, state, budget>>
vars == <<scenario, OutboxVars, WakeVars>>

\* The components, with their constants taken from the record cf of a scenario.
Outbox(cf) == INSTANCE AppOutbox WITH
    Sessions <- cf.Sessions, Keys <- cf.Keys, Live <- cf.Live, MaxDrops <- cf.MaxDrops,
    MaxUnknowns <- cf.MaxUnknowns, MaxCrashes <- cf.MaxCrashes,
    MaxRefusals <- cf.MaxRefusals, MaxDead <- cf.MaxDead
Wake(cf) == INSTANCE AppWake WITH
    disk <- saved, left <- budget,
    Reports <- cf.Reports, BatchMax <- cf.BatchMax, MaxBatches <- cf.MaxBatches,
    MaxSwitch <- cf.MaxSwitch, MaxTyping <- cf.MaxTyping, MaxReopens <- cf.MaxReopens,
    MaxMixed <- cf.MaxMixed, MaxOverlaps <- cf.MaxOverlaps,
    MaxTransient <- cf.MaxTransient, MaxOther <- cf.MaxOther, OtherFrees <- cf.OtherFrees

\* The bounds TLC gives the scenarios.

\* Live turns and queued sends over a drop, an unknown outcome and a death.
TurnsBounds == [
    Sessions |-> {1, 2}, Keys |-> 2, Live |-> TRUE, MaxDrops |-> 1, MaxUnknowns |-> 1,
    MaxCrashes |-> 1, MaxRefusals |-> 0, MaxDead |-> 0]

\* A refusal, and a bridge given up for good.
RefusingBounds == [
    Sessions |-> {1, 2}, Keys |-> 2, Live |-> TRUE, MaxDrops |-> 1, MaxUnknowns |-> 1,
    MaxCrashes |-> 0, MaxRefusals |-> 1, MaxDead |-> 1]

\* Queued sends only: no turn to be parked on a link that stays up.
QueuedBounds == [
    Sessions |-> {1, 2}, Keys |-> 2, Live |-> FALSE, MaxDrops |-> 1, MaxUnknowns |-> 1,
    MaxCrashes |-> 1, MaxRefusals |-> 0, MaxDead |-> 0]

\* The setting goes off and on, the App is reopened, pages are mixed.
SwitchedBounds == [
    Reports |-> 2, BatchMax |-> 1, MaxBatches |-> 2, MaxSwitch |-> 2, MaxTyping |-> 0,
    MaxReopens |-> 1, MaxMixed |-> 1, MaxOverlaps |-> 1, MaxTransient |-> 0, MaxOther |-> 0,
    OtherFrees |-> TRUE]

\* The setting stays on; typing, a transient refusal, another client.
SteadyBounds == [
    Reports |-> 2, BatchMax |-> 2, MaxBatches |-> 3, MaxSwitch |-> 0, MaxTyping |-> 1,
    MaxReopens |-> 0, MaxMixed |-> 0, MaxOverlaps |-> 0, MaxTransient |-> 1, MaxOther |-> 1,
    OtherFrees |-> FALSE]

ASSUME Instances ==
    /\ \A cf \in {Turns, Refusing, Queued} : Outbox(cf)!OutboxAssumption
    /\ \A cf \in {Switched, Steady} : Wake(cf)!AppWakeAssumption

Init ==
    \/ scenario = "turns" /\ Outbox(Turns)!Init /\ Wake(Steady)!Init
    \/ scenario = "refused" /\ Outbox(Refusing)!Init /\ Wake(Steady)!Init
    \/ scenario = "queued" /\ Outbox(Queued)!Init /\ Wake(Steady)!Init
    \/ scenario = "switched" /\ Wake(Switched)!Init /\ Outbox(Queued)!Init
    \/ scenario = "steady" /\ Wake(Steady)!Init /\ Outbox(Queued)!Init

Next ==
    /\ UNCHANGED scenario
    /\ \/ scenario = "turns" /\ Outbox(Turns)!Next /\ UNCHANGED WakeVars
       \/ scenario = "refused" /\ Outbox(Refusing)!Next /\ UNCHANGED WakeVars
       \/ scenario = "queued" /\ Outbox(Queued)!Next /\ UNCHANGED WakeVars
       \/ scenario = "switched" /\ Wake(Switched)!Next /\ UNCHANGED OutboxVars
       \/ scenario = "steady" /\ Wake(Steady)!Next /\ UNCHANGED OutboxVars

\* The fairness of AppOutbox and of AppWake, in the scenarios about liveness.
Fairness ==
    /\ \A k \in 1..2 : WF_OutboxVars(scenario = "queued" /\ Outbox(Queued)!Enqueue(k))
    /\ WF_OutboxVars(scenario = "queued" /\ Outbox(Queued)!Start)
    /\ WF_OutboxVars(scenario = "queued" /\ Outbox(Queued)!Unclaim)
    /\ WF_OutboxVars(scenario = "queued" /\ Outbox(Queued)!OwnerTakes)
    /\ WF_OutboxVars(scenario = "queued" /\ Outbox(Queued)!TakeOut)
    /\ WF_OutboxVars(scenario = "queued" /\ Outbox(Queued)!Written)
    /\ WF_OutboxVars(scenario = "queued" /\ Outbox(Queued)!LinkUp)
    /\ WF_OutboxVars(scenario = "queued" /\ Outbox(Queued)!RetryFires)
    /\ WF_WakeVars(scenario = "steady" /\ Wake(Steady)!Commit(FALSE))
    /\ WF_WakeVars(scenario = "steady" /\ Wake(Steady)!TimerFires)
    /\ WF_WakeVars(scenario = "steady" /\ Wake(Steady)!Admit)
    /\ WF_WakeVars(scenario = "steady" /\ Wake(Steady)!Answer)
    /\ WF_WakeVars(scenario = "steady" /\ Wake(Steady)!Release)
    /\ WF_WakeVars(scenario = "steady" /\ Wake(Steady)!Post)
    /\ WF_WakeVars(scenario = "steady" /\ Wake(Steady)!TurnEnds)
    /\ WF_WakeVars(scenario = "steady" /\ Wake(Steady)!TxPut)
    /\ WF_WakeVars(scenario = "steady" /\ Wake(Steady)!TxDone)
    /\ WF_WakeVars(scenario = "steady" /\ Wake(Steady)!OtherEnds)
    /\ WF_WakeVars(scenario = "steady" /\ typing /\ Wake(Steady)!Type)

Spec == Init /\ [][Next]_vars /\ Fairness

-----------------------------------------------------------------------------
\* What the user typed in a session reaches the owner in that order, a text
\* the composer has given up is on disk, with the owner or back in a draft,
\* and a live turn's entry is not flushed from under it.
SendsKept ==
    /\ scenario = "turns" =>
         Outbox(Turns)!TypeOK /\ Outbox(Turns)!InOrder /\ Outbox(Turns)!SpentSurvives /\ Outbox(Turns)!TurnGetsReceipt
    /\ scenario = "refused" => Outbox(Refusing)!TypeOK /\ Outbox(Refusing)!SpentSurvives

\* A spent text goes out, or comes back as a draft, without the user.
SendsGoOut ==
    \A k \in 1..2 : (scenario = "queued" /\ Outbox(Queued)!Spent(k))
                      ~> (Outbox(Queued)!Left(k))

\* Nothing from before the arming is queued, and what the App will never look
\* at again has an owner in the ledger.
WakesAreNew ==
    /\ scenario = "switched" => Wake(Switched)!TypeOK /\ Wake(Switched)!QueueAfterCutoff
    /\ scenario = "steady" => Wake(Steady)!TypeOK /\ Wake(Steady)!IgnoredIsOwned

\* A report that arrives after the arming is claimed in the end, for good.
ReportsAreWoken ==
    \A r \in 1..2 : (scenario = "steady" /\ Wake(Steady)!Awaited(r)) ~> [](owner[r] # 0)
=============================================================================
