------------------------------ MODULE AppWake ------------------------------
(***************************************************************************)
(* The App's side of the automatic wake, for one open conversation: the    *)
(* observer that finds cron reports in the committed history and keeps     *)
(* them in a durable queue (features/chat/auto_wake.dart) and the lane of  *)
(* the chat controller that turns the queue into admitted batches.  The    *)
(* ledger behind it is reduced to who owns each report; WakeLedger has it  *)
(* in full.                                                                *)
(***************************************************************************)
EXTENDS Integers, Sequences, FiniteSets

CONSTANTS
    Reports,       \* bound: the cron reports of the history, by message id
    BatchMax,      \* reports of a batch
    MaxBatches,    \* bound: batches the ledger admits for this App
    MaxSwitch,     \* bound: changes of the auto-wake setting
    MaxTyping,     \* bound: times the user starts to type
    MaxReopens,    \* bound: times the App dies and is opened again
    MaxMixed,      \* bound: commits with ids that are not numbers
    MaxOverlaps,   \* bound: commits that land while a scan is writing
    MaxTransient,  \* bound: answers with a transient refusal
    MaxOther,      \* bound: reports another device or the worker reserves
    OtherFrees     \* whether such a reservation may be released again

AppWakeAssumption ==
    /\ {Reports, BatchMax, MaxBatches} \subseteq Nat \ {0}
    /\ {MaxSwitch, MaxTyping, MaxReopens, MaxMixed, MaxOverlaps, MaxTransient,
        MaxOther} \subseteq Nat
    /\ OtherFrees \in BOOLEAN

VARIABLES
    rows,     \* reports in the history so far
    off,      \* of them, the ones that came while the setting was off
    behind,   \* whether a commit of the latest page is due
    on,       \* autoWakeEnabled, with the conversation not excluded
    typing,   \* the gates of the lane: _inputActive
    st,       \* the observer's _state
    disk,     \* the state in the preference store
    txs,      \* store transactions asked and not yet done
    scan,     \* _running and _dirty
    timer,    \* whether the _wakeDebounce timer is armed
    lane,     \* _wakeDispatch: where it is, its plan and its batch
    owner,    \* the ledger: who has consumed each report
    state,    \* the ledger: the state of each batch of this App
    left      \* the bounds not yet spent

env == <<rows, off, behind, on, typing>>
vars == <<env, st, disk, txs, scan, timer, lane, owner, state, left>>

Report == 1..Reports
Batch == 1..MaxBatches
Free == 0
Other == 0 - 1
Gone == 0 - 2
NoBatch == 0

Null == [armed |-> FALSE, cutoff |-> 0, queued |-> {}, ignored |-> {},
         uncertain |-> FALSE, batches |-> [b \in Batch |-> "none"]]
Resting == [at |-> "idle", plan |-> {}, batch |-> NoBatch, kept |-> {}, dead |-> {}]

Init ==
    /\ rows = 0 /\ off = {} /\ behind = TRUE /\ on = TRUE /\ typing = FALSE
    /\ st = Null /\ disk = Null /\ txs = <<>>
    /\ scan = [running |-> FALSE, dirty |-> FALSE]
    /\ timer = FALSE /\ lane = Resting
    /\ owner = [r \in Report |-> Free]
    /\ state = [b \in Batch |-> "none"]
    /\ left = [switch |-> MaxSwitch, typing |-> MaxTyping, reopen |-> MaxReopens,
               mixed |-> MaxMixed, overlap |-> MaxOverlaps,
               transient |-> MaxTransient, other |-> MaxOther]

Spend(f) == left[f] > 0 /\ left' = [left EXCEPT ![f] = @ - 1]
Asked(v, who) == [value |-> v, who |-> who, put |-> FALSE]

-----------------------------------------------------------------------------
(* The surroundings: reports, the user, and the ledger's other clients.    *)

Arrive ==
    /\ rows < Reports
    /\ rows' = rows + 1
    /\ off' = IF on THEN off ELSE off \cup {rows + 1}
    /\ behind' = TRUE
    /\ UNCHANGED <<on, typing, st, disk, txs, scan, timer, lane, owner, state, left>>

\* The switch in the settings writes the preference and nothing else.
Switch ==
    /\ Spend("switch")
    /\ on' = ~on
    /\ UNCHANGED <<rows, off, behind, typing, st, disk, txs, scan, timer, lane,
                   owner, state>>

\* noteInputActive: putting the editor down gives the queue its chance.
Type ==
    /\ IF typing THEN UNCHANGED left ELSE Spend("typing")
    /\ typing' = ~typing
    /\ timer' = (timer \/ (typing /\ on /\ lane.at # "turn" /\ st.queued # {}))
    /\ UNCHANGED <<rows, off, behind, on, st, disk, txs, scan, lane, owner, state>>

\* The process dies, and the conversation is opened again.
Reopen ==
    /\ Spend("reopen")
    /\ st' = Null /\ txs' = <<>> /\ timer' = FALSE /\ lane' = Resting
    /\ scan' = [running |-> FALSE, dirty |-> FALSE]
    /\ behind' = TRUE
    /\ UNCHANGED <<rows, off, on, typing, disk, owner, state>>

\* Another device, or the server's own worker, reserves a report; what it
\* reserved it wakes, or it gives it back.
OtherClaims ==
    /\ Spend("other")
    /\ \E r \in 1..rows : owner[r] = Free /\ owner' = [owner EXCEPT ![r] = Other]
    /\ UNCHANGED <<env, st, disk, txs, scan, timer, lane, state>>

OtherEnds ==
    /\ \E r \in Report : /\ owner[r] = Other
                         /\ \E o \in {Gone} \cup (IF OtherFrees THEN {Free} ELSE {}) :
                                owner' = [owner EXCEPT ![r] = o]
    /\ UNCHANGED <<env, st, disk, txs, scan, timer, lane, state, left>>

-----------------------------------------------------------------------------
(* The observer.                                                           *)

\* First arm: what the history holds is behind the cutoff.
FreshArmed == [Null EXCEPT !.armed = TRUE, !.cutoff = rows]

\* Mutant: the cutoff of the arming is not honoured.
Found_NoCutoff(s, page) == {r \in page : r \notin s.ignored \cup s.queued}

\* candidate: later than the cutoff, neither ignored nor queued.
Found(s, page) == {r \in page : r > s.cutoff /\ r \notin s.ignored \cup s.queued}

\* What a scan of a page leaves in the observer: a state on disk wins over
\* the one in memory, and every scan decides again whether the order is known.
Scanned(page, mixed) ==
    LET s == IF disk.armed THEN disk ELSE st
    IN  [s EXCEPT !.queued = @ \cup Found(s, page), !.uncertain = mixed]

\* _scan up to its write; with the setting off the state is cleared.
Scan(page, mixed, latest) ==
    CASE ~on /\ st.armed ->
            st' = Null /\ txs' = Append(txs, Asked(Null, "scan"))
      [] on /\ ~disk.armed /\ ~st.armed /\ latest ->
            st' = FreshArmed /\ txs' = Append(txs, Asked(FreshArmed, "scan"))
      [] on /\ (disk.armed \/ st.armed) ->
            /\ st' = Scanned(page, mixed)
            /\ txs' = Append(txs, Asked(Scanned(page, mixed), "scan"))
      [] OTHER -> UNCHANGED <<st, txs>>

\* Whether _scan has something to write, and so to wait for.
Writes(latest) == \/ ~on /\ st.armed
                  \/ on /\ (latest \/ disk.armed \/ st.armed)

\* onHistoryCommit for a commit of the latest page. One that lands while a
\* scan is writing leaves only a mark.
Commit(mixed) ==
    /\ behind \/ mixed
    /\ CASE mixed /\ scan.running -> FALSE
         [] mixed -> Spend("mixed")
         [] scan.running -> Spend("overlap")
         [] OTHER -> UNCHANGED left
    /\ behind' = FALSE
    /\ IF scan.running
       THEN scan' = [scan EXCEPT !.dirty = TRUE] /\ UNCHANGED <<st, txs>>
       ELSE /\ scan' = [running |-> Writes(TRUE), dirty |-> FALSE]
            /\ Scan(1..rows, mixed, TRUE)
    /\ UNCHANGED <<rows, off, on, typing, disk, timer, lane, owner, state>>

\* A write of the scan is done. A marked scan goes over no rows at all; the
\* end of one gives the queue its chance.
ScanReturns ==
    /\ scan' = [running |-> scan.dirty /\ Writes(FALSE), dirty |-> FALSE]
    /\ IF scan.dirty
       THEN /\ CASE on /\ (disk.armed \/ st.armed) ->
                      /\ st' = Scanned({}, FALSE)
                      /\ txs' = Append(Tail(txs), Asked(Scanned({}, FALSE), "scan"))
                 [] ~on /\ st.armed ->
                      /\ st' = Null
                      /\ txs' = Append(Tail(txs), Asked(Null, "scan"))
                 [] OTHER -> st' = st /\ txs' = Tail(txs)
            /\ UNCHANGED timer
       ELSE /\ timer' = (timer \/ (on /\ st.queued # {}))
            /\ txs' = Tail(txs)
            /\ UNCHANGED st
    /\ UNCHANGED lane

-----------------------------------------------------------------------------
(* The lane.                                                               *)

\* plan: the oldest reports of the queue, up to a batch.
Oldest(q) == {r \in q : Cardinality({x \in q : x < r}) < BatchMax}

\* An order nobody can trust blocks the plan.
MayPlan == ~st.uncertain /\ st.queued # {}

\* The timer: the gates of _wakeDispatch (the queue proved on disk, too), then
\* the plan and the request. A gate that is shut leaves it to later triggers.
TimerFires ==
    /\ timer
    /\ timer' = FALSE
    /\ lane' = IF lane.at = "idle" /\ on /\ ~typing /\ st.armed /\ disk.armed /\ MayPlan
               THEN [Resting EXCEPT !.at = "admit", !.plan = Oldest(st.queued)]
               ELSE lane
    /\ UNCHANGED <<env, st, disk, txs, scan, owner, state, left>>

\* The ledger answers: some keys it has already, some it refuses for now, and
\* the others it claims for a new batch.
Admit ==
    /\ lane.at = "admit"
    /\ \E late \in {{}} \cup {{r} : r \in {x \in lane.plan : owner[x] = Free}} :
          LET dead == {r \in lane.plan : owner[r] # Free}
              claims == lane.plan \ (dead \cup late)
          IN  /\ IF late = {} THEN UNCHANGED left ELSE Spend("transient")
              /\ \/ /\ claims = {}
                    /\ lane' = [lane EXCEPT !.at = "answer", !.kept = late, !.dead = dead]
                    /\ UNCHANGED <<owner, state>>
                 \/ \E b \in Batch :
                       /\ claims # {} /\ state[b] = "none"
                       /\ \A x \in Batch : x < b => state[x] # "none"
                       /\ lane' = [lane EXCEPT !.at = "answer", !.batch = b,
                                               !.kept = late, !.dead = dead]
                       /\ owner' = [r \in Report |-> IF r \in claims THEN b ELSE owner[r]]
                       /\ state' = [state EXCEPT ![b] = "reserved"]
    /\ UNCHANGED <<env, st, disk, txs, scan, timer>>

\* pruneFromAdmit: what the ledger has leaves the queue for good.
Pruned(s) ==
    LET gone == lane.dead \cap s.queued
    IN  [s EXCEPT !.queued = @ \ gone, !.ignored = @ \cup gone]

\* recordBatch: the batch with the whole plan, which leaves the queue.
Recorded(s) ==
    [s EXCEPT !.queued = @ \ lane.plan, !.batches[lane.batch] = "dispatched"]

\* The lane ends; a queue that is left has its next chance.
LaneEnds(s) == lane' = Resting /\ timer' = (timer \/ (on /\ s.queued # {}))

\* recordBatch up to its write. An empty answer ends the lane; without a state
\* to record it in, the batch is handed back.
Record(queue) ==
    CASE lane.batch = NoBatch ->
            LaneEnds(st) /\ txs' = queue /\ UNCHANGED st
      [] lane.batch # NoBatch /\ st.armed ->
            /\ st' = Recorded(st)
            /\ txs' = Append(queue, Asked(st', "record"))
            /\ lane' = [lane EXCEPT !.at = "recording"]
            /\ UNCHANGED timer
      [] OTHER ->
            /\ lane' = [lane EXCEPT !.at = "release"]
            /\ txs' = queue /\ UNCHANGED <<st, timer>>

\* The answer is folded into the queue, and the batch recorded before anything
\* is posted.
Answer ==
    /\ lane.at = "answer"
    /\ IF st.armed /\ lane.dead \cap st.queued # {}
       THEN /\ st' = Pruned(st)
            /\ txs' = Append(txs, Asked(st', "prune"))
            /\ lane' = [lane EXCEPT !.at = "pruning"]
            /\ UNCHANGED timer
       ELSE Record(txs)
    /\ UNCHANGED <<env, disk, scan, owner, state, left>>

PruneReturns == Record(Tail(txs)) /\ UNCHANGED scan

\* recordBatch is on disk: the gates once more, at the edge of the POST.
RecordReturns ==
    /\ lane' = [lane EXCEPT !.at = IF typing THEN "release" ELSE "post"]
    /\ txs' = Tail(txs)
    /\ UNCHANGED <<st, timer, scan>>

\* Mutant: the rows of a released batch are not put back.
Abandoned_Dropped(s) == [s EXCEPT !.batches[lane.batch] = "none"]

\* abandonBatch: the items of the mirror row go back to the queue.
Abandoned(s) ==
    [s EXCEPT !.batches[lane.batch] = "none",
              !.queued = @ \cup (IF s.batches[lane.batch] = "none" THEN {} ELSE lane.plan)]

\* wakeRelease: the ledger frees a reserved batch, and the queue gets its rows.
Release ==
    /\ lane.at = "release"
    /\ state' = [state EXCEPT ![lane.batch] = "released"]
    /\ owner' = [r \in Report |-> IF owner[r] = lane.batch THEN Free ELSE owner[r]]
    /\ IF st.armed
       THEN st' = Abandoned(st) /\ txs' = Append(txs, Asked(st', "none"))
       ELSE UNCHANGED <<st, txs>>
    /\ lane' = Resting /\ timer' = on
    /\ UNCHANGED <<env, disk, scan, left>>

\* The POST of the wake sentence: the run starts, and the mirror follows.
Post ==
    /\ lane.at = "post"
    /\ state' = [state EXCEPT ![lane.batch] = "running"]
    /\ lane' = [lane EXCEPT !.at = "turn"]
    /\ IF st.batches[lane.batch] = "dispatched"
       THEN /\ st' = [st EXCEPT !.batches[lane.batch] = "accepted"]
            /\ txs' = Append(txs, Asked(st', "none"))
       ELSE UNCHANGED <<st, txs>>
    /\ UNCHANGED <<env, disk, scan, timer, owner, left>>

\* The turn settles: its history is read again.
TurnEnds ==
    /\ lane.at = "turn"
    /\ state' = [state EXCEPT ![lane.batch] = "terminal"]
    /\ IF st.batches[lane.batch] \in {"dispatched", "accepted"}
       THEN /\ st' = [st EXCEPT !.batches[lane.batch] = "terminal"]
            /\ txs' = Append(txs, Asked(st', "none"))
       ELSE UNCHANGED <<st, txs>>
    /\ LaneEnds(st')
    /\ behind' = TRUE
    /\ UNCHANGED <<rows, off, on, typing, disk, scan, owner, left>>

-----------------------------------------------------------------------------
(* The store: a transaction has its lock and changes the value, and later  *)
(* its caller goes on.                                                     *)

TxPut ==
    /\ txs # <<>> /\ ~Head(txs).put
    /\ disk' = Head(txs).value
    /\ txs' = <<[Head(txs) EXCEPT !.put = TRUE]>> \o Tail(txs)
    /\ UNCHANGED <<env, st, scan, timer, lane, owner, state, left>>

TxDone ==
    /\ txs # <<>> /\ Head(txs).put
    /\ CASE Head(txs).who = "scan" -> ScanReturns
         [] Head(txs).who = "prune" -> PruneReturns
         [] Head(txs).who = "record" -> RecordReturns
         [] OTHER -> txs' = Tail(txs) /\ UNCHANGED <<st, scan, timer, lane>>
    /\ UNCHANGED <<env, disk, owner, state, left>>

Next ==
    \/ Arrive \/ Switch \/ Type \/ Reopen \/ OtherClaims \/ OtherEnds
    \/ \E mixed \in BOOLEAN : Commit(mixed)
    \/ TimerFires \/ Admit \/ Answer \/ Release \/ Post \/ TurnEnds
    \/ TxPut \/ TxDone

\* A due commit is made, timers fire, requests are answered, the store works,
\* turns end, other clients finish what they reserved, and the user who types
\* stops.
Fairness ==
    /\ WF_vars(Commit(FALSE)) /\ WF_vars(TimerFires) /\ WF_vars(Admit)
    /\ WF_vars(Answer) /\ WF_vars(Release)
    /\ WF_vars(Post) /\ WF_vars(TurnEnds)
    /\ WF_vars(TxPut) /\ WF_vars(TxDone) /\ WF_vars(OtherEnds)
    /\ WF_vars(typing /\ Type)

Spec == Init /\ [][Next]_vars /\ Fairness

-----------------------------------------------------------------------------
Observed == [armed : BOOLEAN, cutoff : 0..Reports, queued : SUBSET Report,
             ignored : SUBSET Report, uncertain : BOOLEAN,
             batches : [Batch -> {"none", "dispatched", "accepted", "terminal"}]]

\* Types of the observer's state, in memory, on disk and on its way there.
TypeOK ==
    /\ rows \in 0..Reports /\ off \subseteq Report
    /\ {st, disk} \subseteq Observed
    /\ \A i \in DOMAIN txs : txs[i].value \in Observed
    /\ owner \in [Report -> Batch \cup {Free, Other, Gone}]
    /\ state \in [Batch -> {"none", "reserved", "released", "running", "terminal"}]
    /\ lane.plan \subseteq Report /\ lane.batch \in Batch \cup {NoBatch}

\* Nothing from before the arming is in the queue, over restarts and changes
\* of the setting in the middle of a scan or of the lane.
QueueAfterCutoff ==
    \A q \in {st, disk} : \A r \in q.queued : r > q.cutoff

\* A wake sentence is only sent for a batch whose receipt is on disk.
BatchRemembered ==
    lane.at = "turn" => disk.batches[lane.batch] # "none"

\* A report the ledger refused for now stays in the queue.
TransientStaysQueued ==
    [][lane.at \in {"answer", "pruning"} /\ lane' # lane /\ st.armed
            => lane.kept \cap st.queued \subseteq st'.queued]_vars

\* What came while the setting was off is never woken by this App.
OffWindowNeverWoken == \A r \in off : owner[r] \notin Batch

\* A mixed page blocks the lane until a page of the history says otherwise.
DoubtHolds ==
    [][st.uncertain /\ st'.armed /\ ~st'.uncertain => behind /\ ~behind']_vars

\* What the observer will never look at again, the ledger has given to someone.
IgnoredIsOwned == \A r \in st.ignored : owner[r] # Free

Awaited(r) == rows >= r /\ st.armed /\ r > st.cutoff

\* A report that arrives after the arming does not stay unclaimed.
ReportIsWoken == \A r \in Report : Awaited(r) ~> [](owner[r] # Free)
=============================================================================
