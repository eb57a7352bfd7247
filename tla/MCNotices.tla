----------------------------- MODULE MCNotices -----------------------------
(***************************************************************************)
(* What the gateway tells a user who is not looking, and what it keeps for  *)
(* one who looks again: the notification ledger (Notifications), the push   *)
(* of a detached turn (DetachPush), the activity snapshot (Activity) and    *)
(* the artifacts with their quota (ArtifactQuota). Each keeps tables of its *)
(* own, so nothing is lost by following one at a time: a behaviour belongs  *)
(* to one scenario, an instance with bounds of its own, and leaves the      *)
(* variables of the others alone.                                           *)
(***************************************************************************)
EXTENDS Naturals, TLC

\* What each scenario gives its component for its constants, as a record.
CONSTANTS Delivered, Reminded, Paged, Watched, Claimed, Pushed, Covered, Heard,
          Dropped, Opened, Reloaded, Charged, Freed

VARIABLES
    scenario,
    \* Notifications
    event, nextSeq, row, prod, ntfyOn, backlog, watchers, dev, alerts, entered,
    starts, faults,
    \* DetachPush
    worker, asked, posted, sse, socket, wrote, st, discard, closed, pushed,
    \* Activity
    core, entry, recent, seen, blind, hooked, loads, snap,
    \* ArtifactQuota
    now, rows, disk, up, issued, receipts, reading, returned, spent

NoticeVars == <<event, nextSeq, row, prod, ntfyOn, backlog, watchers, dev, alerts,
                entered, starts, faults>>
PushVars == <<worker, asked, posted, sse, socket, wrote, st, discard, closed, pushed>>
ActivityVars == <<core, entry, recent, seen, blind, hooked, loads, snap>>
QuotaVars == <<now, rows, disk, up, issued, receipts, reading, returned, spent>>
vars == <<scenario, NoticeVars, PushVars, ActivityVars, QuotaVars>>

\* The components, with their constants taken from the record cf of a scenario.
Ledger(cf) == INSTANCE Notifications WITH
    Events <- cf.Events, Kind <- cf.Kind, Run <- cf.Run, Devices <- cf.Devices,
    Producers <- cf.Producers, PageLimit <- cf.PageLimit, QueueCap <- cf.QueueCap,
    MaxWatchers <- cf.MaxWatchers, MaxStarts <- cf.MaxStarts,
    MaxReconfigures <- cf.MaxReconfigures, MaxCrashes <- cf.MaxCrashes,
    Retention <- cf.Retention
Exit(cf) == INSTANCE DetachPush WITH
    Requests <- cf.Requests, LedgerLive <- cf.LedgerLive, InboxLive <- cf.InboxLive,
    Evictions <- cf.Evictions, MaxPosted <- cf.MaxPosted
Registry(cf) == INSTANCE Activity WITH
    Runs <- cf.Runs, Streams <- cf.Streams, Chats <- cf.Chats, Tip <- cf.Tip,
    RecentCap <- cf.RecentCap, Reloads <- cf.Reloads, Faults <- cf.Faults,
    Drops <- cf.Drops
Quota(cf) == INSTANCE ArtifactQuota WITH
    Uploaders <- cf.Uploaders, Principals <- cf.Principals, Sizes <- cf.Sizes,
    Cap <- cf.Cap, PrincipalLimit <- cf.PrincipalLimit,
    GlobalLimit <- cf.GlobalLimit, Ttl <- cf.Ttl, Grace <- cf.Grace,
    MaxStores <- cf.MaxStores, MaxNow <- cf.MaxNow, Faults <- cf.Faults

\* The bounds TLC gives the scenarios.

\* Two devices race for the end of a run that is delivered twice.
DeliveredBounds == [
    Events |-> {"e1"}, Kind |-> "e1" :> "terminal", Run |-> "e1" :> "r1",
    Devices |-> {"d1", "d2"}, Producers |-> {"p1", "p2"}, PageLimit |-> 1, QueueCap |-> 1,
    MaxWatchers |-> 1, MaxStarts |-> 2, MaxReconfigures |-> 0, MaxCrashes |-> 1,
    Retention |-> FALSE]

\* An approval and its reminder, over a change of the ntfy settings.
RemindedBounds == [
    Events |-> {"e1"}, Kind |-> "e1" :> "approval", Run |-> "e1" :> "r1",
    Devices |-> {"d1"}, Producers |-> {"p1", "p2"}, PageLimit |-> 1, QueueCap |-> 1,
    MaxWatchers |-> 1, MaxStarts |-> 2, MaxReconfigures |-> 1, MaxCrashes |-> 0,
    Retention |-> FALSE]

\* Two events on pages of one.
PagedBounds == [
    Events |-> {"e1", "e2"}, Kind |-> ("e1" :> "cancelled") @@ ("e2" :> "cancelled"),
    Run |-> ("e1" :> "r1") @@ ("e2" :> "r1"),
    Devices |-> {"d1", "d2"}, Producers |-> {"p1"}, PageLimit |-> 1, QueueCap |-> 1,
    MaxWatchers |-> 1, MaxStarts |-> 1, MaxReconfigures |-> 0, MaxCrashes |-> 0,
    Retention |-> FALSE]

\* Opt-ins of two runs for one slot.
WatchedBounds == [
    Events |-> {"e1", "e2", "e3"},
    Kind |-> ("e1" :> "steer_ready") @@ ("e2" :> "steer_ready") @@ ("e3" :> "cancelled"),
    Run |-> ("e1" :> "r1") @@ ("e2" :> "r2") @@ ("e3" :> "r2"),
    Devices |-> {}, Producers |-> {"p1", "p2"}, PageLimit |-> 2, QueueCap |-> 1,
    MaxWatchers |-> 1, MaxStarts |-> 2, MaxReconfigures |-> 0, MaxCrashes |-> 1,
    Retention |-> FALSE]

\* One event from its row to the archive.
ClaimedBounds == [
    Events |-> {"e1"}, Kind |-> "e1" :> "terminal", Run |-> "e1" :> "r1",
    Devices |-> {"d1", "d2"}, Producers |-> {"p1"}, PageLimit |-> 1, QueueCap |-> 1,
    MaxWatchers |-> 1, MaxStarts |-> 2, MaxReconfigures |-> 0, MaxCrashes |-> 1,
    Retention |-> TRUE]

\* The push exit alone, beside units that own its subjects, and to its end.
PushedBounds == [
    Requests |-> {"q1", "q2"}, LedgerLive |-> FALSE, InboxLive |-> FALSE,
    Evictions |-> TRUE, MaxPosted |-> 2]
CoveredBounds == [
    Requests |-> {"q1", "q2"}, LedgerLive |-> TRUE, InboxLive |-> TRUE,
    Evictions |-> FALSE, MaxPosted |-> 2]
HeardBounds == [
    Requests |-> {"q1"}, LedgerLive |-> FALSE, InboxLive |-> FALSE,
    Evictions |-> TRUE, MaxPosted |-> 2]

\* A streamed run and a synchronous chat, whose request may be cancelled.
DroppedBounds == [
    Runs |-> {"r1"}, Streams |-> {"r1"}, Chats |-> {"c1"}, Tip |-> 3, RecentCap |-> 1,
    Reloads |-> 0, Faults |-> FALSE, Drops |-> TRUE]

\* A streamed run beside one of the runs API, every request to its end.
OpenedBounds == [
    Runs |-> {"r1", "r2"}, Streams |-> {"r1"}, Chats |-> {}, Tip |-> 2, RecentCap |-> 1,
    Reloads |-> 0, Faults |-> FALSE, Drops |-> FALSE]

\* The unit is reloaded and its hooks may fail.
ReloadedBounds == [
    Runs |-> {"r1"}, Streams |-> {"r1"}, Chats |-> {}, Tip |-> 3, RecentCap |-> 2,
    Reloads |-> 1, Faults |-> TRUE, Drops |-> FALSE]

\* Two uploads against the limits, with crashes and without.
ChargedBounds == [
    Uploaders |-> {"w1", "w2"}, Principals |-> {"a", "b"}, Sizes |-> {2}, Cap |-> 2,
    PrincipalLimit |-> 3, GlobalLimit |-> 5, Ttl |-> 2, Grace |-> 4, MaxStores |-> 3,
    MaxNow |-> 5, Faults |-> TRUE]
FreedBounds == [
    Uploaders |-> {"w1", "w2"}, Principals |-> {"a", "b"}, Sizes |-> {1, 2, 3}, Cap |-> 2,
    PrincipalLimit |-> 3, GlobalLimit |-> 3, Ttl |-> 2, Grace |-> 4, MaxStores |-> 2,
    MaxNow |-> 5, Faults |-> FALSE]

ASSUME Instances ==
    /\ \A cf \in {Delivered, Reminded, Paged, Watched, Claimed} : Ledger(cf)!Shape
    /\ \A cf \in {Pushed, Covered, Heard} : Exit(cf)!Shape
    /\ \A cf \in {Dropped, Opened, Reloaded} : Registry(cf)!Shape
    /\ \A cf \in {Charged, Freed} : Quota(cf)!Shape

\* The ledger, where another scenario is about another component.
NoticesRest == Ledger(Claimed)!Init /\ ntfyOn

Init ==
    \/ /\ \/ scenario = "delivered" /\ Ledger(Delivered)!Init
          \/ scenario = "reminded" /\ Ledger(Reminded)!Init
          \/ scenario = "paged" /\ Ledger(Paged)!Init
          \/ scenario = "watched" /\ Ledger(Watched)!Init
          \/ scenario = "claimed" /\ Ledger(Claimed)!Init
       /\ Exit(Heard)!Init /\ Registry(Opened)!Init /\ Quota(Freed)!Init
    \/ /\ \/ scenario = "pushed" /\ Exit(Pushed)!Init
          \/ scenario = "covered" /\ Exit(Covered)!Init
          \/ scenario = "heard" /\ Exit(Heard)!Init
       /\ NoticesRest /\ Registry(Opened)!Init /\ Quota(Freed)!Init
    \/ /\ \/ scenario = "dropped" /\ Registry(Dropped)!Init
          \/ scenario = "opened" /\ Registry(Opened)!Init
          \/ scenario = "reloaded" /\ Registry(Reloaded)!Init
       /\ NoticesRest /\ Exit(Heard)!Init /\ Quota(Freed)!Init
    \/ /\ \/ scenario = "charged" /\ Quota(Charged)!Init
          \/ scenario = "freed" /\ Quota(Freed)!Init
       /\ NoticesRest /\ Exit(Heard)!Init /\ Registry(Opened)!Init

Next ==
    /\ UNCHANGED scenario
    /\ \/ /\ \/ scenario = "delivered" /\ Ledger(Delivered)!Next
             \/ scenario = "reminded" /\ Ledger(Reminded)!Next
             \/ scenario = "paged" /\ Ledger(Paged)!Next
             \/ scenario = "watched" /\ Ledger(Watched)!Next
             \/ scenario = "claimed" /\ Ledger(Claimed)!Next
          /\ UNCHANGED <<PushVars, ActivityVars, QuotaVars>>
       \/ /\ \/ scenario = "pushed" /\ Exit(Pushed)!Next
             \/ scenario = "covered" /\ Exit(Covered)!Next
             \/ scenario = "heard" /\ Exit(Heard)!Next
          /\ UNCHANGED <<NoticeVars, ActivityVars, QuotaVars>>
       \/ /\ \/ scenario = "dropped" /\ Registry(Dropped)!Next
             \/ scenario = "opened" /\ Registry(Opened)!Next
             \/ scenario = "reloaded" /\ Registry(Reloaded)!Next
          /\ UNCHANGED <<NoticeVars, PushVars, QuotaVars>>
       \/ /\ \/ scenario = "charged" /\ Quota(Charged)!Next
             \/ scenario = "freed" /\ Quota(Freed)!Next
          /\ UNCHANGED <<NoticeVars, PushVars, ActivityVars>>

\* The fairness of Notifications and DetachPush, in the scenarios about liveness.
Fairness ==
    /\ WF_NoticeVars(scenario = "claimed" /\ Ledger(Claimed)!ProducerStep("p1"))
    /\ WF_NoticeVars(scenario = "claimed" /\ Ledger(Claimed)!Send)
    /\ \A d \in {"d1", "d2"} :
         /\ WF_NoticeVars(scenario = "claimed" /\ Ledger(Claimed)!Poll(d))
         /\ WF_NoticeVars(scenario = "claimed" /\ Ledger(Claimed)!ClaimPost(d))
         /\ WF_NoticeVars(scenario = "claimed" /\ Ledger(Claimed)!ClaimChecks(d, "e1"))
    /\ WF_NoticeVars(scenario = "claimed" /\ Ledger(Claimed)!Prune("e1"))
    /\ WF_PushVars(scenario = "heard" /\ Exit(Heard)!Transition)
    /\ WF_PushVars(scenario = "heard" /\ Exit(Heard)!Discards)
    /\ WF_PushVars(scenario = "heard" /\ Exit(Heard)!TurnGoesOn)
    /\ WF_PushVars(scenario = "heard" /\ Exit(Heard)!Prepares)
    /\ WF_PushVars(scenario = "heard" /\ Exit(Heard)!Writes)

Spec == Init /\ [][Next]_vars /\ Fairness

-----------------------------------------------------------------------------
\* However often an end or an approval is delivered, on whichever channel and
\* to however many devices that race, over restarts: one alert per surface and
\* phase, an outcome only from the device that won the claim and never better
\* than what happened, silence once read; cursors skip nothing and opt-ins
\* stay bounded. The push of a detached turn says each thing at most once,
\* nothing to a viewer who is there or saw it, and nothing another unit says.
NoticesOnce ==
    /\ scenario = "delivered" =>
         /\ Ledger(Delivered)!TypeOK /\ Ledger(Delivered)!OneAlert
         /\ Ledger(Delivered)!OnlyOwnerReports
    /\ scenario = "reminded" =>
         /\ Ledger(Reminded)!OneAlert /\ Ledger(Reminded)!HonestOutcome
         /\ Ledger(Reminded)!ReadSilences
    /\ scenario = "paged" => Ledger(Paged)!CursorHonest
    /\ scenario = "watched" => Ledger(Watched)!WatchersBounded
    /\ scenario = "pushed" => /\ Exit(Pushed)!TypeOK /\ Exit(Pushed)!AtMostOne
                              /\ Exit(Pushed)!SeenIsNotPushed /\ Exit(Pushed)!ConnectedIsQuiet
    /\ scenario = "covered" => Exit(Covered)!AtMostOne /\ Exit(Covered)!OneExit

\* What the registry holds open is alive while it claims coverage, and a turn
\* that ended is remembered with its status, under each of its sessions.
ActivityHonest ==
    /\ scenario = "dropped" => Registry(Dropped)!TypeOK /\ Registry(Dropped)!ActivityHonest
    /\ scenario = "opened" => Registry(Opened)!TypeOK /\ Registry(Opened)!ActivityHonest
    /\ scenario = "reloaded" => Registry(Reloaded)!TypeOK

\* Every live artifact is charged to its owner whatever crashes, the live ones
\* stay within the limits, and without faults nothing stays charged for good.
ArtifactsCharged ==
    /\ scenario = "charged" => Quota(Charged)!TypeOK /\ Quota(Charged)!ArtifactsCharged
    /\ scenario = "freed" => Quota(Freed)!TypeOK /\ Quota(Freed)!ArtifactsCharged

\* Retention takes no event whose alert is under way, a run that is being
\* stopped pushes nothing more, and a snapshot lists the turns it can find.
StepsHonest ==
    [][/\ scenario = "claimed" => Ledger(Claimed)!NothingArchivedInFlight
       /\ scenario = "pushed" => Exit(Pushed)!StoppedIsQuiet
       /\ scenario = "dropped" => Registry(Dropped)!LiveTurnListed
       /\ scenario = "opened" => Registry(Opened)!LiveTurnListed
       /\ scenario = "reloaded" => Registry(Reloaded)!LiveTurnListed]_vars

\* No intent waits for a device, and no viewer that left is owed the end.
Quiet ==
    /\ scenario = "claimed" =>
         row["e1", "initial", "browser"].state # "pending" \/ event["e1"].read
    /\ scenario = "heard" => (socket = "gone" => Exit(Heard)!AbsentIsTold)

\* It always comes to that: an intent is picked up or read while apps keep
\* polling, and a viewer that left before the end hears of it.
NoticesArrive == []<>Quiet
=============================================================================
