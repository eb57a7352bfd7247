------------------------------ MODULE MCTurn ------------------------------
(***************************************************************************)
(* What reaches a turn while it runs, and what it asks: steers              *)
(* (SteerInbox), approvals (ApprovalInbox), forms (Clarify), and the        *)
(* streamed turn that carries them (StreamTurn). Each is a component of its *)
(* own over its own tables, so nothing is lost by following one at a time:  *)
(* a behaviour belongs to one scenario, an instance with bounds of its own, *)
(* and leaves the variables of the others alone.                            *)
(***************************************************************************)
EXTENDS Naturals

\* What each scenario gives its component for its constants, as a record.
CONSTANTS Steered, Restarted, Handed, Listed, Named, Toggled, Concluded, Answered,
          Waiting, Timed, Streamed

VARIABLES
    scenario,
    \* SteerInbox
    status, agent, sealing, closed, nextSeq, steer, batch, purged, tail, history,
    flushed, request, recovery, aged, injected, handed, restarts,
    \* ApprovalInbox
    core, entry, outcome, cap, post, get, timer, firing, late, initial, reminder,
    emitted, dropped, enabled, ended, toggles,
    \* Clarify; its entry and closed are asked and unloaded here
    form, asked, stage, sink, unloaded, accepted, events, submits,
    \* StreamTurn; its status and closed are turn and shut here
    turn, task, worker, result, shut, registered, listener, pending, calls, out,
    viewer, asks

SteerVars == <<status, agent, sealing, closed, nextSeq, steer, batch, purged, tail,
               history, flushed, request, recovery, aged, injected, handed, restarts>>
InboxVars == <<core, entry, outcome, cap, post, get, timer, firing, late, initial,
               reminder, emitted, dropped, enabled, ended, toggles>>
FormVars == <<form, asked, stage, sink, unloaded, accepted, events, submits>>
TurnVars == <<turn, task, worker, result, shut, registered, listener, pending, calls,
              out, viewer, asks>>
vars == <<scenario, SteerVars, InboxVars, FormVars, TurnVars>>

\* The components, with their constants taken from the record cf of a scenario.
Inbox(cf) == INSTANCE SteerInbox WITH
    Runs <- cf.Runs, Keys <- cf.Keys, Batches <- cf.Batches,
    Requests <- cf.Requests, AuthorityRuns <- cf.AuthorityRuns,
    OUTSTANDING_LIMIT <- cf.OUTSTANDING_LIMIT, RecordMayFail <- cf.RecordMayFail,
    MaxRestarts <- cf.MaxRestarts
Approval(cf) == INSTANCE ApprovalInbox WITH
    Requests <- cf.Requests, Captures <- cf.Captures, Posts <- cf.Posts,
    MaxPending <- cf.MaxPending, MaxToggles <- cf.MaxToggles
Bridge(cf) == INSTANCE Clarify WITH
    entry <- asked, closed <- unloaded, Forms <- cf.Forms, Runs <- cf.Runs,
    Size <- cf.Size, Raw <- cf.Raw, Timed <- cf.Timed, MaxSubmits <- cf.MaxSubmits
Stream(cf) == INSTANCE StreamTurn WITH
    status <- turn, closed <- shut, MaxAsks <- cf.MaxAsks

\* The bounds TLC gives the scenarios.

\* Two requests race for the one free place of a run; the gateway dies once.
SteeredBounds == [
    Runs |-> {"r1"}, Keys |-> {"k1", "k2"}, Batches |-> {"b1", "b2"},
    Requests |-> {"q1", "q2"}, AuthorityRuns |-> {}, OUTSTANDING_LIMIT |-> 1,
    RecordMayFail |-> FALSE, MaxRestarts |-> 1]

\* Two steers in the queue, and a second restart in mid-recovery.
RestartedBounds == [
    Runs |-> {"r1"}, Keys |-> {"k1", "k2"}, Batches |-> {"b1"},
    Requests |-> {"q1"}, AuthorityRuns |-> {}, OUTSTANDING_LIMIT |-> 2,
    RecordMayFail |-> FALSE, MaxRestarts |-> 2]

\* The run belongs to the core's session authority, which takes the steers.
HandedBounds == [
    Runs |-> {"r1"}, Keys |-> {"k1", "k2"}, Batches |-> {"b1", "b2"},
    Requests |-> {"q1", "q2"}, AuthorityRuns |-> {"r1"}, OUTSTANDING_LIMIT |-> 1,
    RecordMayFail |-> FALSE, MaxRestarts |-> 1]

\* Two requests for one place in the registry, and the list of them.
ListedBounds == [
    Requests |-> {"r1", "r2"}, Captures |-> {"c1"}, Posts |-> {}, MaxPending |-> 1,
    MaxToggles |-> 0]

\* Two requests nobody captured, and two answers.
NamedBounds == [
    Requests |-> {"r1", "r2"}, Captures |-> {}, Posts |-> {"p1", "p2"}, MaxPending |-> 1,
    MaxToggles |-> 0]

\* One request, its capture and its answer, the kill switch thrown and reset.
ToggledBounds == [
    Requests |-> {"r1"}, Captures |-> {"c1"}, Posts |-> {"p1"}, MaxPending |-> 1,
    MaxToggles |-> 2]

\* One request to its end.
ConcludedBounds == [
    Requests |-> {"r1"}, Captures |-> {"c1"}, Posts |-> {"p1"}, MaxPending |-> 1,
    MaxToggles |-> 0]

\* Two devices answer two forms of two questions, with a deadline.
AnsweredBounds == [
    Forms |-> {"f1", "f2"}, Runs |-> {"r1"}, Size |-> 2,
    Raw |-> {"label", "skip", "junk"}, Timed |-> TRUE, MaxSubmits |-> 2]

\* Two forms that wait for ever, over two runs, and then with a deadline.
WaitingBounds == [
    Forms |-> {"f1", "f2"}, Runs |-> {"r1", "r2"},
    Size |-> 2, Raw |-> {"label"}, Timed |-> FALSE, MaxSubmits |-> 1]
TimedBounds == [
    Forms |-> {"f1", "f2"}, Runs |-> {"r1", "r2"},
    Size |-> 1, Raw |-> {"label", "other"}, Timed |-> TRUE, MaxSubmits |-> 1]

\* A turn of three approvals.
StreamedBounds == [MaxAsks |-> 3]

ASSUME Instances ==
    /\ \A cf \in {Steered, Restarted, Handed} : Inbox(cf)!Shape /\ Inbox(cf)!Limits
    /\ \A cf \in {Listed, Named, Toggled, Concluded} : Approval(cf)!Shape
    /\ \A cf \in {Answered, Waiting, Timed} : Bridge(cf)!ClarifyAssumption
    /\ Stream(Streamed)!Shape

Init ==
    \/ /\ \/ scenario = "steered" /\ Inbox(Steered)!Init
          \/ scenario = "restarted" /\ Inbox(Restarted)!Init
          \/ scenario = "handed" /\ Inbox(Handed)!Init
       /\ Approval(Concluded)!Init /\ Bridge(Waiting)!Init /\ Stream(Streamed)!Init
    \/ /\ \/ scenario = "listed" /\ Approval(Listed)!Init
          \/ scenario = "named" /\ Approval(Named)!Init
          \/ scenario = "toggled" /\ Approval(Toggled)!Init
          \/ scenario = "concluded" /\ Approval(Concluded)!Init
       /\ Inbox(Restarted)!Init /\ Bridge(Waiting)!Init /\ Stream(Streamed)!Init
    \/ /\ \/ scenario = "answered" /\ Bridge(Answered)!Init
          \/ scenario = "waiting" /\ Bridge(Waiting)!Init
          \/ scenario = "timed" /\ Bridge(Timed)!Init
       /\ Inbox(Restarted)!Init /\ Approval(Concluded)!Init /\ Stream(Streamed)!Init
    \/ /\ scenario = "streamed" /\ Stream(Streamed)!Init
       /\ Inbox(Restarted)!Init /\ Approval(Concluded)!Init /\ Bridge(Waiting)!Init

Next ==
    /\ UNCHANGED scenario
    /\ \/ /\ \/ scenario = "steered" /\ Inbox(Steered)!Next
             \/ scenario = "restarted" /\ Inbox(Restarted)!Next
             \/ scenario = "handed" /\ Inbox(Handed)!Next
          /\ UNCHANGED <<InboxVars, FormVars, TurnVars>>
       \/ /\ \/ scenario = "listed" /\ Approval(Listed)!Next
             \/ scenario = "named" /\ Approval(Named)!Next
             \/ scenario = "toggled" /\ Approval(Toggled)!Next
             \/ scenario = "concluded" /\ Approval(Concluded)!Next
          /\ UNCHANGED <<SteerVars, FormVars, TurnVars>>
       \/ /\ \/ scenario = "answered" /\ Bridge(Answered)!Next
             \/ scenario = "waiting" /\ Bridge(Waiting)!Next
             \/ scenario = "timed" /\ Bridge(Timed)!Next
          /\ UNCHANGED <<SteerVars, InboxVars, TurnVars>>
       \/ /\ scenario = "streamed" /\ Stream(Streamed)!Next
          /\ UNCHANGED <<SteerVars, InboxVars, FormVars>>

\* The fairness of the components, in the scenarios about liveness.
Fairness ==
    /\ WF_SteerVars(scenario = "restarted" /\ Inbox(Restarted)!Recovers)
    /\ WF_InboxVars(scenario = "concluded" /\ Approval(Concluded)!Withdraw("r1"))
    /\ WF_InboxVars(scenario = "concluded" /\ Approval(Concluded)!HookRuns("r1"))
    /\ WF_InboxVars(scenario = "concluded" /\ Approval(Concluded)!CaptureStep("c1"))
    /\ WF_InboxVars(scenario = "concluded" /\ Approval(Concluded)!PostStep("p1"))
    /\ WF_InboxVars(scenario = "concluded" /\ Approval(Concluded)!GetStep)
    /\ \A f \in {"f1", "f2"} :
         /\ WF_FormVars(scenario = "waiting" /\ Bridge(Waiting)!Thread(f))
         /\ WF_FormVars(scenario = "timed" /\ Bridge(Timed)!Thread(f))
    /\ \A r \in {"r1", "r2"} :
         /\ WF_FormVars(scenario = "waiting" /\ Bridge(Waiting)!CancelRun(r))
         /\ WF_FormVars(scenario = "timed" /\ Bridge(Timed)!CancelRun(r))
    /\ WF_TurnVars(scenario = "streamed" /\ Stream(Streamed)!TaskStarts)
    /\ WF_TurnVars(scenario = "streamed" /\ Stream(Streamed)!Enter)
    /\ WF_TurnVars(scenario = "streamed" /\ Stream(Streamed)!Notify)
    /\ WF_TurnVars(scenario = "streamed" /\ Stream(Streamed)!Resumes)
    /\ WF_TurnVars(scenario = "streamed" /\ Stream(Streamed)!Publish)
    /\ WF_TurnVars(scenario = "streamed" /\ Stream(Streamed)!Forget)
    /\ WF_TurnVars(scenario = "streamed" /\ Stream(Streamed)!TaskResult)
    /\ WF_TurnVars(scenario = "streamed" /\ Stream(Streamed)!WorkerLeaves)
    /\ WF_TurnVars(scenario = "streamed" /\ Stream(Streamed)!Returns)

Spec == Init /\ [][Next]_vars /\ Fairness

-----------------------------------------------------------------------------
\* A steer reaches the agent at most once and in order, its receipt says what
\* happened to it, the queue stays within its limit, a sealed run leaves none
\* waiting, and the core takes one at most once, over requests that race, a
\* crash and a recovery that is itself interrupted.
SteersOnce ==
    /\ scenario = "steered" => Inbox(Steered)!TypeOK /\ Inbox(Steered)!SteersOnce
    /\ scenario = "restarted" => Inbox(Restarted)!TypeOK /\ Inbox(Restarted)!SteersOnce
    /\ scenario = "handed" => Inbox(Handed)!TypeOK /\ Inbox(Handed)!SteersOnce

\* An answer settles the request it named or none, the list shows what the
\* queue held, the registry stays within its bound, and a request is
\* announced, reminded of and resolved at most once.
ApprovalsExact ==
    /\ scenario = "listed" => Approval(Listed)!TypeOK /\ Approval(Listed)!ApprovalsExact
    /\ scenario = "named" => Approval(Named)!TypeOK /\ Approval(Named)!ApprovalsExact
    /\ scenario = "toggled" => Approval(Toggled)!TypeOK /\ Approval(Toggled)!ApprovalsExact

\* What the App was told is answered reaches the agent, the agent acts on
\* nothing else, and a form that is over leaves no question and no open card.
AnswersHeard ==
    /\ scenario = "answered" => Bridge(Answered)!TypeOK /\ Bridge(Answered)!AnswersHeard
    /\ scenario = "waiting" => Bridge(Waiting)!TypeOK /\ Bridge(Waiting)!AnswersHeard
    /\ scenario = "timed" => Bridge(Timed)!TypeOK /\ Bridge(Timed)!AnswersHeard

\* A closed bridge holds nobody, a turn that is over has left the tables, and
\* done is the last thing its viewer sees.
TurnsClose ==
    scenario = "streamed" =>
        Stream(Streamed)!TypeOK /\ Stream(Streamed)!TurnsClose

\* What was settled stays settled: a steer's verdict, an approval's outcome
\* and a turn's terminal status; and no reminder leaves for a request that was
\* gone, or whose run was over, when its timer fired.
VerdictsStick ==
    [][/\ scenario = "steered" => Inbox(Steered)!VerdictKept
       /\ scenario = "toggled" =>
            Approval(Toggled)!OutcomeKept /\ Approval(Toggled)!GoneIsNotReminded
       /\ scenario = "streamed" => Stream(Streamed)!TerminalKept]_vars

\* Nobody waits: no steer of a dead run, no card, no thread of a form that has
\* a deadline, no turn whose bridge is closed.
Quiet ==
    /\ scenario = "restarted" => Inbox(Restarted)!Settled("r1")
    /\ scenario = "concluded" => entry["r1"] # "pending"
    /\ scenario = "timed" => \A f \in {"f1", "f2"} : form[f].pc # "waiting"
    /\ scenario = "streamed" => (shut => task = "ended")

\* Nobody waits for ever: a restart settles the steers of dead runs, cards
\* close while the App refreshes, a deadline frees the thread of a form, and
\* so does an unload or the end of the run where there is none (forms are
\* interchangeable, so one stands for all), and a turn whose bridge was closed
\* ends.
WaitsEnd ==
    /\ []<>Quiet
    /\ (scenario = "waiting" /\ Bridge(Waiting)!Held("f1")) ~> (Bridge(Waiting)!Freed("f1"))
=============================================================================
