----------------------------- MODULE MCWorker -----------------------------
(***************************************************************************)
(* The gateway side of self-wake: the worker (SelfWake), how it is armed    *)
(* (SelfWakeArm), the ledger connection it shares with the wake routes      *)
(* (LedgerTxn) and the loader that binds all of it (Installer). They share  *)
(* no variables here, so nothing is lost by following one of them at a      *)
(* time: a behaviour belongs to one scenario, an instance with bounds of    *)
(* its own, and leaves the variables of the others alone.                   *)
(***************************************************************************)
EXTENDS Naturals

\* What each scenario gives its component for its constants, as a record.
CONSTANTS Claims, Switched, Follows, Settles, Locked, Audited, Arms, Loads, Overlaps

VARIABLES
    scenario,
    \* SelfWake
    mode, modeSeen, intent, aged, cons, batch, chain, human, door, run, w,
    launched, counted, toggles, humans, faults,
    \* LedgerTxn
    op, audit, lock, open, txn, disk, crashes,
    \* SelfWakeArm
    current, status, stamp, task, posted, connected, links,
    \* Installer
    bound, foreign, group, manifest, rows, leases, leaving, kept, load, loads

WorkerVars == <<mode, modeSeen, intent, aged, cons, batch, chain, human, door, run,
                w, launched, counted, toggles, humans, faults>>
TxnVars == <<op, audit, lock, open, txn, disk, crashes>>
ArmVars == <<current, status, stamp, task, posted, connected, links>>
LoadVars == <<bound, foreign, group, manifest, rows, leases, leaving, kept, load, loads>>
vars == <<scenario, WorkerVars, TxnVars, ArmVars, LoadVars>>

\* The components, with their constants taken from the record cf of a scenario.
Wk(cf) == INSTANCE SelfWake WITH
    Keys <- cf.Keys, Batches <- cf.Batches, ChainLimit <- cf.ChainLimit,
    FuseAfter <- cf.FuseAfter, EndpointMayFail <- cf.EndpointMayFail,
    DoorMayReject <- cf.DoorMayReject, AppMayClaim <- cf.AppMayClaim,
    SessionMayClose <- cf.SessionMayClose, MaxToggles <- cf.MaxToggles,
    MaxHumans <- cf.MaxHumans, MaxFaults <- cf.MaxFaults
Txn(cf) == INSTANCE LedgerTxn WITH
    Ops <- cf.Ops, Audits <- cf.Audits, MaxCrashes <- cf.MaxCrashes
Arming(cf) == INSTANCE SelfWakeArm WITH
    Mods <- cf.Mods, MaxGen <- cf.MaxGen, MaxLinks <- cf.MaxLinks
Install(cf) == INSTANCE Installer WITH
    Owners <- cf.Owners, Units <- cf.Units, Attrs <- cf.Attrs, Native <- cf.Native,
    Binds <- cf.Binds, Broken <- cf.Broken, Third <- cf.Third, MaxLoads <- cf.MaxLoads,
    Overlap <- cf.Overlap

\* The bounds TLC gives the scenarios.

\* Two reports, and the App claiming beside the worker.
ClaimsBounds == [
    Keys |-> {"k1", "k2"}, Batches |-> {"b1", "b2"}, ChainLimit |-> 2, FuseAfter |-> 1,
    EndpointMayFail |-> FALSE, DoorMayReject |-> TRUE, AppMayClaim |-> TRUE,
    SessionMayClose |-> FALSE, MaxToggles |-> 0, MaxHumans |-> 0, MaxFaults |-> 0]

\* The mode is edited twice, a human writes, a call raises or the gateway dies.
SwitchedBounds == [
    Keys |-> {"k1"}, Batches |-> {"b1"}, ChainLimit |-> 1, FuseAfter |-> 1,
    EndpointMayFail |-> FALSE, DoorMayReject |-> TRUE, AppMayClaim |-> TRUE,
    SessionMayClose |-> TRUE, MaxToggles |-> 2, MaxHumans |-> 1, MaxFaults |-> 1]

\* The worker alone, without crashes: what it starts it follows.
FollowsBounds == [
    Keys |-> {"k1", "k2"}, Batches |-> {"b1"}, ChainLimit |-> 1, FuseAfter |-> 1,
    EndpointMayFail |-> TRUE, DoorMayReject |-> TRUE, AppMayClaim |-> FALSE,
    SessionMayClose |-> TRUE, MaxToggles |-> 1, MaxHumans |-> 0, MaxFaults |-> 0]

\* One report to its end, with a fault on the way.
SettlesBounds == [
    Keys |-> {"k1"}, Batches |-> {"b1"}, ChainLimit |-> 1, FuseAfter |-> 1,
    EndpointMayFail |-> TRUE, DoorMayReject |-> TRUE, AppMayClaim |-> TRUE,
    SessionMayClose |-> TRUE, MaxToggles |-> 0, MaxHumans |-> 0, MaxFaults |-> 1]

\* The ledger connection with self-wake off, and with its unlocked writers.
LockedBounds == [Ops |-> {"o1", "o2", "o3"}, Audits |-> {}, MaxCrashes |-> 1]
AuditedBounds == [Ops |-> {"o1", "o2"}, Audits |-> {"a1", "a2"}, MaxCrashes |-> 1]

\* Two copies of the module, loaded and unloaded in turn.
ArmsBounds == [Mods |-> {"m1", "m2"}, MaxGen |-> 7, MaxLinks |-> 3]

\* Two units that wrap the same attribute, the second twice and also adding a
\* route of its own, and a third that this build refuses.
UnitsBounds == [
    Owners |-> {"o1", "o2"}, Units |-> <<"history", "activity", "push">>,
    Binds |-> [history |-> <<"table", "limit">>, push |-> <<"table">>,
               activity |-> <<"snapshot", "table", "table">>],
    Attrs |-> {"table", "limit", "snapshot"}, Native |-> {"table", "limit"},
    Broken |-> {"push"}, Third |-> {}, MaxLoads |-> 4, Overlap |-> FALSE]

\* Two managers, one load after the other.
LoadsBounds == UnitsBounds

\* A third party binds over the table; a manager registers again early.
OverlapsBounds == [UnitsBounds EXCEPT !.Third = {"table"}, !.MaxLoads = 3, !.Overlap = TRUE]

ASSUME Instances ==
    /\ \A cf \in {Claims, Switched, Follows, Settles} : Wk(cf)!Parameters
    /\ \A cf \in {Locked, Audited} : Txn(cf)!Shape
    /\ Arming(Arms)!Shape
    /\ \A cf \in {Loads, Overlaps} : Install(cf)!Shape

\* Self-wake is on where no scenario edits the mode; a component another
\* scenario is about stays where it starts.
WorkerRests == Wk(Settles)!Init /\ mode = "on"

Init ==
    \/ /\ \/ scenario = "claims" /\ Wk(Claims)!Init /\ mode = "on"
          \/ scenario = "switched" /\ Wk(Switched)!Init
          \/ scenario = "follows" /\ Wk(Follows)!Init
          \/ scenario = "settles" /\ WorkerRests
       /\ Txn(Locked)!Init /\ Arming(Arms)!Init /\ Install(Loads)!Init
    \/ /\ \/ scenario = "locked" /\ Txn(Locked)!Init
          \/ scenario = "audited" /\ Txn(Audited)!Init
       /\ WorkerRests /\ Arming(Arms)!Init /\ Install(Loads)!Init
    \/ /\ scenario = "arming" /\ Arming(Arms)!Init
       /\ WorkerRests /\ Txn(Locked)!Init /\ Install(Loads)!Init
    \/ /\ \/ scenario = "loads" /\ Install(Loads)!Init
          \/ scenario = "overlaps" /\ Install(Overlaps)!Init
       /\ WorkerRests /\ Txn(Locked)!Init /\ Arming(Arms)!Init

Next ==
    /\ UNCHANGED scenario
    /\ \/ /\ \/ scenario = "claims" /\ Wk(Claims)!Next
             \/ scenario = "switched" /\ Wk(Switched)!Next
             \/ scenario = "follows" /\ Wk(Follows)!Next
             \/ scenario = "settles" /\ Wk(Settles)!Next
          /\ UNCHANGED <<TxnVars, ArmVars, LoadVars>>
       \/ /\ \/ scenario = "locked" /\ Txn(Locked)!Next
             \/ scenario = "audited" /\ Txn(Audited)!Next
          /\ UNCHANGED <<WorkerVars, ArmVars, LoadVars>>
       \/ /\ scenario = "arming" /\ Arming(Arms)!Next
          /\ UNCHANGED <<WorkerVars, TxnVars, LoadVars>>
       \/ /\ \/ scenario = "loads" /\ Install(Loads)!Next
             \/ scenario = "overlaps" /\ Install(Overlaps)!Next
          /\ UNCHANGED <<WorkerVars, TxnVars, ArmVars>>

\* The fairness of SelfWake and of SelfWakeArm, in the scenarios about liveness.
Fairness ==
    /\ WF_WorkerVars(scenario = "settles" /\ Wk(Settles)!Worker)
    /\ WF_WorkerVars(scenario = "settles" /\ Wk(Settles)!Door)
    /\ SF_WorkerVars(scenario = "settles" /\ Wk(Settles)!TakeDue(Settles.Keys))
    /\ WF_ArmVars(scenario = "arming" /\ Arming(Arms)!Runs)

Spec == Init /\ [][Next]_vars /\ Fairness

-----------------------------------------------------------------------------
\* No error answer, lost stream, crash, retry or edit of the mode makes the
\* worker start a batch twice, post a batch of the App's, count a run twice in
\* the chain, or claim a report that was recorded in shadow.
WakesOnce ==
    /\ scenario = "claims" => Wk(Claims)!TypeOK /\ Wk(Claims)!WakesOnce
    /\ scenario = "switched" => Wk(Switched)!WakesOnce

\* Whenever the worker rests, a batch it posted or claimed has an open intent
\* that follows it, unless self-wake was switched off.
BatchesFollowed == scenario = "follows" => Wk(Follows)!NoZombie /\ Wk(Follows)!ReservedHasOwner

\* A blown fuse lets nothing new be claimed until the administrator resets.
FusedAdmitsNothing == [][scenario = "claims" => Wk(Claims)!FusedStep]_vars

\* The ledger file never holds half of a locked operation, whatever crashes,
\* and what an operation answered is there even when an unlocked writer
\* shared or ended its transaction.
LedgerAtomic ==
    /\ scenario = "locked" => Txn(Locked)!TypeOK /\ Txn(Locked)!LedgerAtomic
    /\ scenario = "audited" => Txn(Audited)!TypeOK /\ Txn(Audited)!LedgerAtomic

\* No worker outlives its load, and a late arm never brings one back.
NoZombieWorker == scenario = "arming" => Arming(Arms)!TypeOK /\ Arming(Arms)!NoZombieWorker

\* No applied unit on a connected platform is without its worker, no tick is
\* under way and no batch of the worker's is open.
Quiet ==
    /\ scenario = "arming" =>
         (status = "applied" /\ connected => task[current.mod] # "none")
    /\ scenario = "settles" =>
         /\ w.pc = "idle"
         /\ \A b \in Settles.Batches : batch[b] # [state |-> "accepted", owner |-> "self"]

\* It always comes to that: whichever of load and connect came first the
\* worker is armed, a tick ends, and what a worker launched is settled.
WorkGetsDone == []<>Quiet

\* Between loads no unit is half applied, a manager owns what its load gave
\* it and has a lease on it, the routes serve what is bound, and what a third
\* party bound over ours stays in the path.
LoadsAreWhole ==
    /\ scenario = "loads" =>
         /\ Install(Loads)!TypeOK /\ Install(Loads)!AllOrNothing /\ Install(Loads)!OwnedIsLeased
         /\ Install(Loads)!AppliedIsThere /\ Install(Loads)!RoutesFollow /\ Install(Loads)!KeptHolds
    /\ scenario = "overlaps" => Install(Overlaps)!TypeOK /\ Install(Overlaps)!ThirdPartyKept
=============================================================================
