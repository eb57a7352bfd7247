-------------------------- MODULE WakeLedgerProofs --------------------------
(* Safety of the wake ledger for every number of reports, sessions, batches *)
(* and concurrent requests: its inductive invariant and what follows from   *)
(* it, the limits (rolling quota and content cooldown), the state machine   *)
(* of a batch, and that the ledger implements WakeOnce.                     *)
EXTENDS WakeLedger, WakeRefinement, FiniteSetTheorems, TLAPS

\* A row without a claim names no batch; a consumed key carries the creation
\* time of its batch.
ClaimRows ==
    \A k \in Keys :
        /\ cons[k].state # "consumed" => cons[k].batch = NoBatch
        /\ cons[k].state = "consumed" => cons[k].batch \in Batches
                                         /\ cons[k].at = batch[cons[k].batch].created

\* A batch that does not exist has no keys; a live one claims its session's.
BatchRows ==
    \A b \in Batches :
        /\ batch[b].state = "none" => batch[b].keys = {}
        /\ batch[b].state # "none" => batch[b].created \in Times /\ batch[b].created <= now
        /\ \A k \in batch[b].keys : SessionOf[k] = batch[b].session

\* A busy handler holds a batch that has left reserved and cannot come back
\* before the handler lets it, and it is the only handler that holds it.
DoorHolds ==
    /\ \A d \in Doors :
          /\ door[d].pc = "idle" <=> door[d].batch = NoBatch
          /\ door[d].pc # "idle" =>
                batch[door[d].batch].state \in OpenStates \cup {"terminal", "uncertain-consumed"}
    /\ \A d, e \in Doors :
          d # e /\ door[d].pc # "idle" => door[d].batch # door[e].batch

\* How many turns a batch has started, by what its handler has evidence of.
Launches ==
    /\ \A b \in Batches :
          /\ fired[b] <= 1 + lost[b]
          /\ lost[b] <= fired[b]
          /\ batch[b].state \in {"none", "reserved", "released"} => fired[b] = lost[b]
    /\ \A d \in Doors :
          /\ door[d].pc \in {"gated", "handoff"} => ~door[d].evidence
          /\ door[d].pc \in {"stamped", "streaming"} => door[d].evidence
          /\ door[d].pc \in {"gated", "stamped"} =>
                fired[door[d].batch] = lost[door[d].batch]
          /\ door[d].pc = "handoff" =>
                fired[door[d].batch] = lost[door[d].batch] + 1
          /\ door[d].pc \in {"settle", "act"} /\ ~door[d].evidence =>
                fired[door[d].batch] = lost[door[d].batch]

IInv == TypeOK /\ ClaimsAgree /\ ClaimRows /\ BatchRows /\ DoorHolds /\ Launches

-----------------------------------------------------------------------------
(* Lemmas about rows.                                                      *)

\* Every way the ledger updates one row of wake_batches yields a row.
LEMMA RowUpdates ==
  ASSUME NEW r \in BatchRow, NEW st \in BatchStates, NEW t \in Times
  PROVE  /\ [r EXCEPT !.state = st] \in BatchRow
         /\ [r EXCEPT !.state = st, !.run = TRUE] \in BatchRow
         /\ [r EXCEPT !.state = st, !.closed = t] \in BatchRow
  BY DEF BatchRow

LEMMA BatchUpdates ==
  ASSUME NEW bt \in [Batches -> BatchRow], NEW b \in Batches,
         NEW st \in BatchStates, NEW t \in Times
  PROVE  /\ [bt EXCEPT ![b].state = st] \in [Batches -> BatchRow]
         /\ [bt EXCEPT ![b].state = st, ![b].run = TRUE] \in [Batches -> BatchRow]
         /\ [bt EXCEPT ![b].state = st, ![b].closed = t] \in [Batches -> BatchRow]
  BY RowUpdates

LEMMA LedgerUpdates ==
  ASSUME TypeOK, NEW b \in Batches
  PROVE  /\ [batch EXCEPT ![b].state = "accepted", ![b].run = TRUE] \in [Batches -> BatchRow]
         /\ [batch EXCEPT ![b].state = "terminal", ![b].closed = now] \in [Batches -> BatchRow]
         /\ [batch EXCEPT ![b].state = "uncertain-consumed", ![b].closed = now]
               \in [Batches -> BatchRow]
         /\ [batch EXCEPT ![b].state = "reserved"] \in [Batches -> BatchRow]
  BY BatchUpdates DEF BatchStates, OpenStates, ClosedStates, TypeOK

\* Counting one more turn, or one more lost hand-off.
LEMMA CountUp ==
  ASSUME NEW f \in [Batches -> Nat], NEW x
  PROVE  [f EXCEPT ![x] = @ + 1] \in [Batches -> Nat]
  <1>1. CASE x \in Batches BY <1>1
  <1>2. CASE x \notin Batches BY <1>2
  <1> QED BY <1>1, <1>2

LEMMA StateNames ==
  /\ {"none", "reserved", "archived", "dispatching", "accepted", "terminal",
      "uncertain-consumed", "released"} = BatchStates
  BY DEF BatchStates, OpenStates, ClosedStates

LEMMA Rows == /\ NoRow \in BatchRow
              /\ NoClaim \in Claim
              /\ IdleDoor \in DoorRow
  BY DEF NoRow, BatchRow, BatchStates, Never, NoSession, NoOwner, NoClaim, Claim, NoBatch, IdleDoor,
     DoorRow, DoorStates

\* So does every update of a handler.
LEMMA DoorUpdates ==
  ASSUME NEW dr \in [Doors -> DoorRow], NEW d \in Doors, NEW p \in DoorStates
  PROVE  /\ [dr EXCEPT ![d].pc = p] \in [Doors -> DoorRow]
         /\ [dr EXCEPT ![d].pc = p, ![d].evidence = TRUE] \in [Doors -> DoorRow]
         /\ [dr EXCEPT ![d] = IdleDoor] \in [Doors -> DoorRow]
  <1>1. ASSUME NEW r \in DoorRow
        PROVE  [r EXCEPT !.pc = p] \in DoorRow
               /\ [r EXCEPT !.pc = p, !.evidence = TRUE] \in DoorRow
    BY DEF DoorRow
  <1> QED BY <1>1, Rows

\* The clock stays within its bound.
LEMMA NowIsTime == TypeOK => now \in Times
  BY DEF TypeOK

LEMMA InitType == Init => TypeOK
  <1>1. 0 \in Times BY Limits DEF Times
  <1> QED BY <1>1, Rows DEF Init, TypeOK, RunStatuses

-----------------------------------------------------------------------------
LEMMA TypeInductive == TypeOK /\ [Next]_vars => TypeOK'
  <1> SUFFICES ASSUME TypeOK, [Next]_vars PROVE TypeOK' OBVIOUS
  <1> USE DEF TypeOK, ledgerVars, doorVars
  <1>0. ASSUME UNCHANGED vars PROVE TypeOK'
    BY <1>0 DEF vars
  <1>1. ASSUME Tick PROVE TypeOK'
    BY <1>1, Limits DEF Tick, Times
  <1>2. ASSUME NEW k \in Keys, ReportArrives(k) PROVE TypeOK'
    BY <1>2 DEF ReportArrives
  <1>3. ASSUME NEW S, NEW s \in Sessions, NEW A \in SUBSET Keys, NEW b \in Batches,
               NEW o \in Owners, Admit(S, s, A, b, o)
        PROVE TypeOK'
    BY <1>3 DEF NewBatch, BatchRow, BatchStates, RecordClaims, Claim, Admit, AdmitEffect
  <1>4. ASSUME NEW S, NEW s \in Sessions, AdmitEmpty(S, s) PROVE TypeOK'
    BY <1>4 DEF RecordClaims, Claim, AdmitEmpty
  <1>5. ASSUME NEW b \in Batches, Report(b) \/ Release(b) \/ ReconcileBatch(b)
        PROVE TypeOK'
    <2>1. CASE Report(b)
      <3>1. batch' \in [Batches -> BatchRow]
        <4>1. ToAccepted(b) \/ ToTerminal(b) \/ ToUncertain(b) BY <2>1 DEF Report
        <4>2. CASE ToAccepted(b) BY <4>2, LedgerUpdates DEF ToAccepted
        <4>3. CASE ToTerminal(b) BY <4>3, LedgerUpdates DEF ToTerminal, TerminalAt
        <4>4. CASE ToUncertain(b) BY <4>4, LedgerUpdates DEF ToUncertain
        <4> QED BY <4>1, <4>2, <4>3, <4>4
      <3> QED BY <2>1, <3>1 DEF Report
    <2>2. CASE Release(b)
      BY <2>2, BatchUpdates, StateNames, Rows DEF Release, ReleaseEffect
    <2>3. CASE ReconcileBatch(b)
      <3>1. batch' \in [Batches -> BatchRow]
        <4>1. PICK t \in Times : TerminalAt(b, t) BY <2>3 DEF ReconcileBatch
        <4> QED BY <4>1, BatchUpdates, StateNames DEF TerminalAt
      <3> QED BY <2>3, <3>1 DEF ReconcileBatch
    <2> QED BY <1>5, <2>1, <2>2, <2>3
  <1>6. ASSUME NEW d \in Doors, NEW b \in Batches, Gate(d, b) PROVE TypeOK'
    BY <1>6, BatchUpdates, StateNames DEF DoorRow, DoorStates, Gate
  <1>7. ASSUME NEW d \in Doors,
               DoorRejects(d) \/ HandoffStarts(d) \/ HandoffReturns(d)
               \/ HandoffRaises(d) \/ StampRun(d) \/ Launch(d) \/ StreamReturns(d)
               \/ StreamRaises(d) \/ SettleReads(d)
        PROVE TypeOK'
    <2>a. /\ [door EXCEPT ![d] = IdleDoor] \in [Doors -> DoorRow]
          /\ [door EXCEPT ![d].pc = "settle"] \in [Doors -> DoorRow]
          /\ [door EXCEPT ![d].pc = "handoff"] \in [Doors -> DoorRow]
          /\ [door EXCEPT ![d].pc = "streaming"] \in [Doors -> DoorRow]
          /\ [door EXCEPT ![d].pc = "act"] \in [Doors -> DoorRow]
          /\ [door EXCEPT ![d].pc = "settle", ![d].evidence = TRUE] \in [Doors -> DoorRow]
          /\ [door EXCEPT ![d].pc = "stamped", ![d].evidence = TRUE] \in [Doors -> DoorRow]
      BY DoorUpdates DEF DoorStates
    <2>1. CASE DoorRejects(d) BY <2>1, <2>a DEF DoorRejects
    <2>2. CASE HandoffStarts(d)
      BY <2>2, CountUp, <2>a DEF HandoffStarts
    <2>3. CASE HandoffReturns(d)
      BY <2>3, <2>a DEF HandoffReturns
    <2>4. CASE HandoffRaises(d)
      BY <2>4, CountUp, <2>a DEF HandoffRaises
    <2>5. CASE StampRun(d) BY <2>5, <2>a DEF StampRun, RunStatuses
    <2>6. CASE Launch(d)
      BY <2>6, CountUp, <2>a DEF Launch, RunStatuses
    <2>7. CASE StreamReturns(d) BY <2>7, <2>a DEF StreamReturns
    <2>8. CASE StreamRaises(d) BY <2>8, <2>a DEF StreamRaises
    <2>9. CASE SettleReads(d)
      BY <2>9, <2>a DEF SettleReads
    <2> QED BY <1>7, <2>1, <2>2, <2>3, <2>4, <2>5, <2>6, <2>7, <2>8, <2>9
  <1>8. ASSUME NEW d \in Doors, SettleActs(d) PROVE TypeOK'
    <2>1. door[d].pc = "act" /\ door' = [door EXCEPT ![d] = IdleDoor]
      BY <1>8 DEF SettleActs
    <2>2. door' \in [Doors -> DoorRow] BY <2>1, Rows
    <2>3. ASSUME door[d].batch \in Batches PROVE batch' \in [Batches -> BatchRow]
      <3> DEFINE b == door[d].batch
      <3>1. \/ DispatchFailed(b) \/ ToTerminal(b) \/ ToAccepted(b)
            \/ ToUncertain(b) \/ UNCHANGED batch
        BY <1>8 DEF SettleActs
      <3>2. CASE DispatchFailed(b)
        <4>1. batch' = [batch EXCEPT ![b].state = "reserved"] \/ batch' = batch
          BY <3>2 DEF DispatchFailed
        <4>2. [batch EXCEPT ![b].state = "reserved"] \in [Batches -> BatchRow]
          BY <2>3, LedgerUpdates
        <4> QED BY <4>1, <4>2
      <3>3. CASE ToTerminal(b) BY <2>3, <3>3, LedgerUpdates DEF ToTerminal, TerminalAt
      <3>4. CASE ToAccepted(b) BY <2>3, <3>4, LedgerUpdates DEF ToAccepted
      <3>5. CASE ToUncertain(b) BY <2>3, <3>5, LedgerUpdates DEF ToUncertain
      <3> QED BY <3>1, <3>2, <3>3, <3>4, <3>5
    <2>4. ASSUME door[d].batch \notin Batches PROVE batch' = batch
      BY <1>8, <2>4
      DEF SettleActs, DispatchFailed, ToAccepted, ToTerminal, TerminalAt, ToUncertain
    <2> QED BY <1>8, <2>2, <2>3, <2>4 DEF SettleActs
  <1>9. ASSUME NEW b \in Batches, RunEnds(b) PROVE TypeOK'
    BY <1>9 DEF RunEnds, RunStatuses
  <1>10. ASSUME Crash PROVE TypeOK'
    BY <1>10, Rows DEF Crash, RunStatuses
  <1>11. ASSUME Prune PROVE TypeOK'
    BY RowUpdates, StateNames, <1>11, Rows DEF Prune
  <1> QED
    BY <1>0, <1>1, <1>2, <1>3, <1>4, <1>5, <1>6, <1>7, <1>8, <1>9, <1>10, <1>11,
       Limits
    DEF Next, AdmitStep, ClientStep, DoorStep

\* The tables, the handlers and the counters keep their types: what admit, the
\* reports and the retention pass write are always well-formed rows.
THEOREM TypeCorrect == Spec => []TypeOK
  BY InitType, TypeInductive, PTL DEF Spec

-----------------------------------------------------------------------------
(* The claims: consumption rows and batches stay in agreement.             *)

\* A step that rewrites states and stamps but no claim.
SameClaims ==
    /\ cons' = cons
    /\ now' \in Times /\ now <= now'
    /\ \A c \in Batches :
          /\ batch'[c].keys = batch[c].keys
          /\ batch'[c].session = batch[c].session
          /\ batch'[c].created = batch[c].created
          /\ Live(c)' <=> Live(c)
          /\ batch'[c].state = "none" <=> batch[c].state = "none"

Claims == ClaimsAgree /\ ClaimRows /\ BatchRows

LEMMA SameClaimsKeeps ==
  ASSUME TypeOK, Claims, SameClaims
  PROVE  Claims'
  <1>1. ClaimsAgree'
    BY DEF Claims, SameClaims, ClaimsAgree
  <1>2. ClaimRows'
    BY DEF Claims, SameClaims, ClaimRows
  <1>3. BatchRows'
    <2> SUFFICES ASSUME NEW b \in Batches
                 PROVE  /\ batch'[b].state = "none" => batch'[b].keys = {}
                        /\ batch'[b].state # "none" => batch'[b].created \in Times
                                                       /\ batch'[b].created <= now'
                        /\ \A k \in batch'[b].keys : SessionOf[k] = batch'[b].session
      BY DEF BatchRows
    <2>1. batch[b].state # "none" => batch[b].created <= now'
      BY Limits DEF Claims, BatchRows, SameClaims, TypeOK, Times
    <2> QED BY <2>1 DEF Claims, BatchRows, SameClaims
  <1> QED BY <1>1, <1>2, <1>3 DEF Claims

\* Every operation that only moves a batch along its state machine is such.
LEMMA StateOnlyStep ==
  ASSUME TypeOK, NEW b \in Batches, NEW st \in BatchStates,
         Live(b), st \notin {"none", "released", "archived"},
         \/ batch' = [batch EXCEPT ![b].state = st]
         \/ batch' = [batch EXCEPT ![b].state = st, ![b].run = TRUE]
         \/ \E t \in Times : batch' = [batch EXCEPT ![b].state = st, ![b].closed = t],
         UNCHANGED <<cons, now>>
  PROVE  SameClaims
  <1>1. now' \in Times /\ now <= now'
    BY Limits DEF TypeOK, Times
  <1>2. ASSUME NEW c \in Batches
        PROVE  /\ batch'[c].keys = batch[c].keys
               /\ batch'[c].session = batch[c].session
               /\ batch'[c].created = batch[c].created
               /\ batch'[c].state = IF c = b THEN st ELSE batch[c].state
    BY DEF TypeOK, BatchRow
  <1> QED BY <1>1, <1>2 DEF SameClaims, Live

\* admit: the claimed keys had no row, so no live batch listed them.
LEMMA AdmitKeepsClaims ==
  ASSUME TypeOK, Claims, NEW S \in SUBSET Keys, NEW s \in Sessions,
         NEW A \in SUBSET Keys, NEW b \in Batches, NEW o \in Owners,
         Admit(S, s, A, b, o)
  PROVE  Claims'
  <1> DEFINE I == IgnoredBy(S, s)
  <1>1. /\ batch' = [batch EXCEPT ![b] = NewBatch(s, A, o)]
        /\ cons' = RecordClaims(I, A, b)
        /\ batch[b].state = "none" /\ now' = now
    BY DEF Admit, AdmitEffect
  <1>2. /\ A \subseteq Claimable(S, s)
        /\ I \cap A = {}
        /\ \A k \in A \cup I : cons[k].state = "none" /\ SessionOf[k] = s
    BY DEF Admit, BatchChoices, Claimable, IgnoredBy, Fresh, FindReport
  <1>3. \A c \in Batches : batch'[c] = IF c = b THEN NewBatch(s, A, o) ELSE batch[c]
    BY <1>1 DEF TypeOK
  <1>4. \A k \in Keys : cons'[k] =
           IF k \in I THEN [state |-> "ignored", batch |-> NoBatch, at |-> now]
           ELSE IF k \in A THEN [state |-> "consumed", batch |-> b, at |-> now]
           ELSE cons[k]
    BY <1>1 DEF RecordClaims
  <1>5. \A c \in Batches : c # b /\ Live(c) => \A k \in batch[c].keys : k \notin A \cup I
    BY <1>2 DEF Claims, ClaimsAgree, TypeOK, BatchRow
  <1>6. ClaimsAgree'
    <2>1. ASSUME NEW k \in Keys, cons'[k].state = "consumed"
          PROVE  \E c \in Batches : cons'[k].batch = c /\ Live(c)' /\ k \in batch'[c].keys
      <3>1. CASE k \in A /\ k \notin I
        BY <1>3, <1>4, <3>1 DEF Live, NewBatch
      <3>2. CASE k \notin A /\ k \notin I
        <4>1. cons[k].state = "consumed" /\ cons'[k] = cons[k] BY <1>4, <2>1, <3>2
        <4>2. PICK c \in Batches : cons[k].batch = c /\ Live(c) /\ k \in batch[c].keys
          BY <4>1 DEF Claims, ClaimsAgree
        <4>3. c # b BY <1>1, <4>2 DEF Live
        <4> QED BY <1>3, <4>1, <4>2, <4>3 DEF Live
      <3>3. CASE k \in I
        BY <1>4, <2>1, <3>3
      <3> QED BY <3>1, <3>2, <3>3
    <2>2. ASSUME NEW c \in Batches, Live(c)', NEW k \in batch'[c].keys
          PROVE  cons'[k].state = "consumed" /\ cons'[k].batch = c
      <3>1. CASE c = b
        BY <1>2, <1>3, <1>4, <2>2, <3>1 DEF NewBatch
      <3>2. CASE c # b
        BY <1>3, <2>2, <3>2, <1>4, <1>5 DEF Live, Claims, ClaimsAgree, TypeOK, BatchRow
      <3> QED BY <3>1, <3>2
    <2> QED BY <2>1, <2>2 DEF ClaimsAgree
  <1>7. ClaimRows'
    <2> SUFFICES ASSUME NEW k \in Keys
                 PROVE  /\ cons'[k].state # "consumed" => cons'[k].batch = NoBatch
                        /\ cons'[k].state = "consumed" =>
                              cons'[k].batch \in Batches
                              /\ cons'[k].at = batch'[cons'[k].batch].created
      BY DEF ClaimRows
    <2>1. CASE k \in I BY <1>4, <2>1
    <2>2. CASE k \in A /\ k \notin I BY <1>3, <1>4, <2>2 DEF NewBatch
    <2>3. CASE k \notin A /\ k \notin I
      BY <1>4, <2>3, <1>1, <1>3 DEF Claims, ClaimsAgree, Live, ClaimRows
    <2> QED BY <2>1, <2>2, <2>3
  <1>8. BatchRows'
    <2> SUFFICES ASSUME NEW c \in Batches
                 PROVE  /\ batch'[c].state = "none" => batch'[c].keys = {}
                        /\ batch'[c].state # "none" => batch'[c].created \in Times
                                                       /\ batch'[c].created <= now'
                        /\ \A k \in batch'[c].keys : SessionOf[k] = batch'[c].session
      BY DEF BatchRows
    <2>1. CASE c = b
      BY Limits, <1>1, <1>2, <1>3, <2>1 DEF TypeOK, Times, NewBatch
    <2>2. CASE c # b BY <1>1, <1>3, <2>2 DEF Claims, BatchRows
    <2> QED BY <2>1, <2>2
  <1> QED BY <1>6, <1>7, <1>8 DEF Claims

\* An empty admission only marks unclaimed keys as ignored.
LEMMA AdmitEmptyKeepsClaims ==
  ASSUME TypeOK, Claims, NEW S \in SUBSET Keys, NEW s \in Sessions, AdmitEmpty(S, s)
  PROVE  Claims'
  <1> DEFINE I == IgnoredBy(S, s)
  <1>1. cons' = RecordClaims(I, {}, NoBatch) /\ batch' = batch /\ now' = now
    BY DEF AdmitEmpty
  <1>2. \A k \in Keys : cons'[k] =
           IF k \in I THEN [state |-> "ignored", batch |-> NoBatch, at |-> now]
           ELSE cons[k]
    BY <1>1 DEF RecordClaims
  <1>3. \A k \in I : cons[k].state = "none"
    BY DEF IgnoredBy, Fresh
  <1>4. ClaimsAgree'
    <2>1. ASSUME NEW k \in Keys, cons'[k].state = "consumed"
          PROVE  \E c \in Batches : cons'[k].batch = c /\ Live(c)' /\ k \in batch'[c].keys
      BY <1>2, <2>1, <1>1 DEF Claims, ClaimsAgree, Live
    <2>2. ASSUME NEW c \in Batches, Live(c)', NEW k \in batch'[c].keys
          PROVE  cons'[k].state = "consumed" /\ cons'[k].batch = c
      BY <1>1, <2>2, <1>2, <1>3 DEF Claims, ClaimsAgree, Live, TypeOK, BatchRow
    <2> QED BY <2>1, <2>2 DEF ClaimsAgree
  <1>5. ClaimRows'
    BY <1>1, <1>2 DEF Claims, ClaimRows
  <1>6. BatchRows'
    BY <1>1 DEF Claims, BatchRows
  <1> QED BY <1>4, <1>5, <1>6 DEF Claims

\* Dropping a set D of batches together with their consumption rows, as
\* release (one batch) and the retention pass (all expired ones) do.
LEMMA DropKeepsClaims ==
  ASSUME TypeOK, Claims, NEW D \in SUBSET Batches, now' = now,
         cons' = [k \in Keys |-> IF cons[k].batch \in D THEN NoClaim ELSE cons[k]],
         \A b \in Batches :
            /\ batch'[b].keys = batch[b].keys
            /\ batch'[b].session = batch[b].session
            /\ batch'[b].created = batch[b].created
            /\ b \notin D => batch'[b].state = batch[b].state
            /\ b \in D => batch[b].state # "none"
                           /\ batch'[b].state \in {"released", "archived"}
  PROVE  Claims'
  <1>1. ClaimsAgree'
    <2>1. ASSUME NEW k \in Keys, cons'[k].state = "consumed"
          PROVE  \E c \in Batches : cons'[k].batch = c /\ Live(c)' /\ k \in batch'[c].keys
      BY <2>1 DEF NoClaim, Claims, ClaimsAgree, Live
    <2>2. ASSUME NEW c \in Batches, Live(c)', NEW k \in batch'[c].keys
          PROVE  cons'[k].state = "consumed" /\ cons'[k].batch = c
      BY <2>2 DEF Live, Claims, ClaimsAgree, TypeOK, BatchRow
    <2> QED BY <2>1, <2>2 DEF ClaimsAgree
  <1>2. ClaimRows'
    BY DEF Claims, ClaimRows, NoClaim
  <1>3. BatchRows'
    <2> SUFFICES ASSUME NEW b \in Batches
                 PROVE  /\ batch'[b].state = "none" => batch'[b].keys = {}
                        /\ batch'[b].state # "none" => batch'[b].created \in Times
                                                       /\ batch'[b].created <= now'
                        /\ \A k \in batch'[b].keys : SessionOf[k] = batch'[b].session
      BY DEF BatchRows
    <2> QED BY DEF Claims, BatchRows
  <1> QED BY <1>1, <1>2, <1>3 DEF Claims

LEMMA ReleaseKeepsClaims ==
  ASSUME TypeOK, Claims, NEW b \in Batches, Release(b)
  PROVE  Claims'
  <1>1. /\ batch' = [batch EXCEPT ![b].state = "released", ![b].closed = now]
        /\ cons' = [k \in Keys |-> IF cons[k].batch = b THEN NoClaim ELSE cons[k]]
        /\ batch[b].state = "reserved" /\ now' = now
    BY DEF Release, ReleaseEffect
  <1>2. cons' = [k \in Keys |-> IF cons[k].batch \in {b} THEN NoClaim ELSE cons[k]]
    BY <1>1
  <1>3. \A c \in Batches :
            /\ batch'[c].keys = batch[c].keys
            /\ batch'[c].session = batch[c].session
            /\ batch'[c].created = batch[c].created
            /\ c \notin {b} => batch'[c].state = batch[c].state
            /\ c \in {b} => batch[c].state # "none"
                             /\ batch'[c].state \in {"released", "archived"}
    BY <1>1 DEF TypeOK, BatchRow
  <1>4. {b} \in SUBSET Batches OBVIOUS
  <1> QED BY <1>1, <1>2, <1>3, <1>4, DropKeepsClaims

LEMMA PruneKeepsClaims ==
  ASSUME TypeOK, Claims, Prune
  PROVE  Claims'
  <1>1. \A c \in Batches :
            /\ batch'[c].keys = batch[c].keys
            /\ batch'[c].session = batch[c].session
            /\ batch'[c].created = batch[c].created
            /\ c \notin Expired => batch'[c].state = batch[c].state
            /\ c \in Expired => batch[c].state # "none"
                                /\ batch'[c].state \in {"released", "archived"}
    <2> SUFFICES ASSUME NEW c \in Batches
                 PROVE  /\ batch'[c].keys = batch[c].keys
                        /\ batch'[c].session = batch[c].session
                        /\ batch'[c].created = batch[c].created
                        /\ c \notin Expired => batch'[c].state = batch[c].state
                        /\ c \in Expired => batch[c].state # "none"
                                /\ batch'[c].state \in {"released", "archived"}
      OBVIOUS
    <2>1. batch[c] \in BatchRow BY DEF TypeOK
    <2>2. batch'[c] = IF c \in Expired THEN [batch[c] EXCEPT !.state = "archived"]
                      ELSE batch[c]
      BY DEF Prune
    <2>3. c \in Expired => batch[c].state # "none" BY DEF Expired, ClosedStates
    <2> QED BY <2>1, <2>2, <2>3 DEF BatchRow
  <1>2. Expired \in SUBSET Batches BY DEF Expired
  <1>3. /\ now' = now
        /\ cons' = [k \in Keys |-> IF cons[k].batch \in Expired THEN NoClaim ELSE cons[k]]
    BY DEF Prune
  <1> QED BY <1>1, <1>2, <1>3, DropKeepsClaims

\* Only these states are held by a handler.
HeldStates == OpenStates \cup {"terminal", "uncertain-consumed"}

LEMMA ClaimsInductive == IInv /\ [Next]_vars => Claims'
  <1> SUFFICES ASSUME IInv, [Next]_vars PROVE Claims' OBVIOUS
  <1>a. TypeOK /\ Claims BY DEF IInv, Claims
  <1>0. ASSUME UNCHANGED <<batch, cons, now>> PROVE Claims'
    BY <1>0, <1>a, Limits, SameClaimsKeeps DEF TypeOK, Times, SameClaims, Live
  <1>1. ASSUME Tick PROVE Claims'
    BY <1>1, <1>a, Limits, SameClaimsKeeps DEF Tick, TypeOK, Times, SameClaims, Live
  <1>2. ASSUME AdmitStep PROVE Claims'
    <2>0. PICK s \in Sessions, o \in Owners :
            \E S \in SUBSET {k \in Keys : SessionOf[k] = s} :
                \/ AdmitEmpty(S, s)
                \/ \E A \in SUBSET S, b \in Batches : Admit(S, s, A, b, o)
      BY <1>2 DEF AdmitStep
    <2>1. PICK S \in SUBSET {k \in Keys : SessionOf[k] = s} :
            \/ AdmitEmpty(S, s)
            \/ \E A \in SUBSET S, b \in Batches : Admit(S, s, A, b, o)
      BY <2>0
    <2>2. S \in SUBSET Keys /\ \A A \in SUBSET S : A \in SUBSET Keys OBVIOUS
    <2> QED BY <1>a, <2>1, <2>2, AdmitKeepsClaims, AdmitEmptyKeepsClaims
  <1>b. \A b \in Batches : ToTerminal(b) => \E t \in Times : TerminalAt(b, t)
    BY <1>a DEF ToTerminal, TypeOK
  <1>3. ASSUME NEW b \in Batches,
               \/ ToAccepted(b) \/ (\E t \in Times : TerminalAt(b, t)) \/ ToUncertain(b)
               \/ batch[b].state \in {"reserved", "dispatching"}
                  /\ batch' = [batch EXCEPT ![b].state = "dispatching"]
               \/ batch[b].state = "dispatching"
                  /\ batch' = [batch EXCEPT ![b].state = "reserved"],
               UNCHANGED <<cons, now>>
        PROVE  Claims'
    <2>1. Live(b)
      BY <1>3 DEF ToAccepted, TerminalAt, ToUncertain, OpenStates, Live
    <2>2. {"accepted", "terminal", "uncertain-consumed", "dispatching", "reserved"}
            \subseteq BatchStates \ {"none", "released", "archived"}
      BY DEF BatchStates, OpenStates, ClosedStates
    <2>3. SameClaims
      <3>1. CASE ToAccepted(b)
        BY <1>3, <1>a, <2>1, <2>2, <3>1, StateOnlyStep DEF ToAccepted
      <3>2. ASSUME NEW t \in Times, TerminalAt(b, t) PROVE SameClaims
        BY <1>3, <1>a, <2>1, <2>2, <3>2, StateOnlyStep DEF TerminalAt
      <3>3. CASE ToUncertain(b)
        BY <1>3, <1>a, <2>1, <2>2, <3>3, StateOnlyStep, NowIsTime DEF ToUncertain
      <3>4. CASE batch' = [batch EXCEPT ![b].state = "dispatching"]
        BY <1>3, <1>a, <2>1, <2>2, <3>4, StateOnlyStep
      <3>5. CASE batch' = [batch EXCEPT ![b].state = "reserved"]
        BY <1>3, <1>a, <2>1, <2>2, <3>5, StateOnlyStep
      <3> QED BY <1>3, <3>1, <3>2, <3>3, <3>4, <3>5
    <2> QED BY <1>a, <2>3, SameClaimsKeeps
  <1>4. ASSUME NEW b \in Batches, Report(b) \/ ReconcileBatch(b) PROVE Claims'
    BY <1>3, <1>b, <1>4 DEF Report, ReconcileBatch
  <1>5. ASSUME NEW b \in Batches, Release(b) PROVE Claims'
    BY <1>a, <1>5, ReleaseKeepsClaims
  <1>6. ASSUME NEW d \in Doors, NEW b \in Batches, Gate(d, b) PROVE Claims'
    BY <1>3, <1>6 DEF Gate
  <1>7. ASSUME NEW d \in Doors, SettleActs(d) PROVE Claims'
    <2> DEFINE b == door[d].batch
    <2>1. b \in Batches
      BY <1>7 DEF SettleActs, IInv, TypeOK, DoorRow, DoorHolds
    <2>2. \/ ToAccepted(b) \/ ToTerminal(b) \/ ToUncertain(b) \/ UNCHANGED batch
          \/ batch[b].state = "dispatching"
             /\ batch' = [batch EXCEPT ![b].state = "reserved"]
      BY <1>7 DEF SettleActs, DispatchFailed
    <2>3. UNCHANGED <<cons, now>> BY <1>7 DEF SettleActs
    <2> QED BY <1>0, <1>3, <1>b, <2>1, <2>2, <2>3
  <1>8. ASSUME Prune PROVE Claims'
    BY <1>a, <1>8, PruneKeepsClaims
  <1>9. ASSUME \/ \E k \in Keys : ReportArrives(k)
               \/ Crash
               \/ \E b \in Batches : RunEnds(b)
               \/ \E d \in Doors :
                    \/ DoorRejects(d) \/ HandoffStarts(d) \/ HandoffReturns(d)
                    \/ HandoffRaises(d) \/ StampRun(d) \/ Launch(d) \/ StreamReturns(d)
                    \/ StreamRaises(d) \/ SettleReads(d)
               \/ UNCHANGED vars
        PROVE  UNCHANGED <<batch, cons, now>>
    BY <1>9 DEF ReportArrives, Crash, RunEnds, DoorRejects, HandoffStarts,
       HandoffReturns, HandoffRaises, StampRun, Launch, StreamReturns, StreamRaises,
       SettleReads, vars, ledgerVars
  <1> QED
    BY <1>0, <1>1, <1>2, <1>4, <1>5, <1>6, <1>7, <1>8, <1>9
    DEF Next, ClientStep, DoorStep

-----------------------------------------------------------------------------
(* The handlers: who holds a batch, and what was started for it.           *)

Handlers == DoorHolds /\ Launches

\* A step of the ledger alone keeps them if a held batch stays held and a
\* batch that becomes reserved or released was already unlaunched.
LEMMA LedgerStepKeepsHandlers ==
  ASSUME TypeOK, Handlers, UNCHANGED <<door, fired, lost>>,
         \A b \in Batches :
            /\ batch[b].state \in HeldStates /\ (\E d \in Doors : door[d].batch = b) =>
                  batch'[b].state \in HeldStates
            /\ batch'[b].state \in {"none", "reserved", "released"} =>
                  batch[b].state \in {"none", "reserved", "released"}
  PROVE  Handlers'
  BY DEF TypeOK, DoorRow, Handlers, DoorHolds, HeldStates, Launches

LEMMA ClientKeepsHandlers ==
  ASSUME TypeOK, Handlers,
         \/ Tick \/ AdmitStep \/ ClientStep \/ Prune \/ UNCHANGED vars
         \/ \E k \in Keys : ReportArrives(k)
  PROVE  Handlers'
  <1>1. UNCHANGED <<door, fired, lost>>
    BY DEF Tick, AdmitStep, AdmitEmpty, Admit, ClientStep, Report, Release,
       ReconcileBatch, Prune, ReportArrives, vars, doorVars
  <1>2. ASSUME NEW b \in Batches
        PROVE  /\ batch[b].state \in HeldStates /\ (\E d \in Doors : door[d].batch = b) =>
                     batch'[b].state \in HeldStates
               /\ batch'[b].state \in {"none", "reserved", "released"} =>
                     batch[b].state \in {"none", "reserved", "released"}
    <2>1. CASE batch' = batch BY <2>1
    <2>2. ASSUME NEW S, NEW s, NEW A, NEW c \in Batches, NEW o, Admit(S, s, A, c, o)
          PROVE  \/ batch'[b].state = batch[b].state
                 \/ batch[b].state = "none" /\ batch'[b].state = "reserved"
      BY <2>2 DEF Admit, AdmitEffect, NewBatch, TypeOK
    <2>3. ASSUME NEW c \in Batches, Report(c) \/ ReconcileBatch(c)
          PROVE  \/ batch'[b].state = batch[b].state
                 \/ batch[b].state \in OpenStates /\ batch'[b].state \in HeldStates
      <3>1. ToAccepted(c) \/ (\E t : TerminalAt(c, t)) \/ ToUncertain(c)
        BY <2>3 DEF Report, ReconcileBatch, ToTerminal
      <3>2. batch[b] \in BatchRow BY DEF TypeOK
      <3>3. CASE b # c
        BY <3>1, <3>3 DEF ToAccepted, TerminalAt, ToUncertain, TypeOK
      <3>4. CASE b = c
        BY <3>1, <3>2, <3>4 DEF ToAccepted, TerminalAt, ToUncertain, OpenStates, TypeOK, BatchRow,
           HeldStates
      <3> QED BY <3>3, <3>4
    <2>4. ASSUME NEW c \in Batches, Release(c)
          PROVE  \/ batch'[b].state = batch[b].state
                 \/ batch[b].state = "reserved" /\ batch'[b].state = "released"
      BY <2>4 DEF Release, ReleaseEffect, TypeOK, BatchRow
    <2>5. ASSUME Prune
          PROVE  \/ batch'[b].state = batch[b].state
                 \/ batch'[b].state = "archived" /\ \A d \in Doors : door[d].batch # b
      BY <2>5 DEF TypeOK, Prune, Expired, BatchRow
    <2>6. batch' = batch \/ Prune
          \/ (\E c \in Batches : Report(c) \/ ReconcileBatch(c) \/ Release(c))
          \/ (\E S, s, A, o : \E c \in Batches : Admit(S, s, A, c, o))
      BY DEF Tick, AdmitStep, AdmitEmpty, ClientStep, ReportArrives, vars
    <2> QED BY <2>1, <2>2, <2>3, <2>4, <2>5, <2>6 DEF HeldStates, OpenStates
  <1> QED BY <1>1, <1>2, LedgerStepKeepsHandlers

\* The steps of one handler d that holds b. Nobody else holds b, so what the
\* step counts or reverts concerns d alone.
LEMMA DoorKeepsHandlers ==
  ASSUME TypeOK, Handlers, NEW d \in Doors,
         \/ DoorRejects(d) \/ HandoffStarts(d) \/ HandoffReturns(d)
         \/ HandoffRaises(d) \/ StampRun(d) \/ Launch(d) \/ StreamReturns(d)
         \/ StreamRaises(d) \/ SettleReads(d) \/ SettleActs(d)
  PROVE  Handlers'
  <1> DEFINE b == door[d].batch
  <1>0. /\ door[d].pc # "idle" /\ b \in Batches /\ batch[b].state \in HeldStates
        /\ \A e \in Doors : e # d => door[e].batch # b
        /\ \A e \in Doors : door[e] \in DoorRow
    BY DEF TypeOK, DoorRow, Handlers, DoorHolds, HeldStates, DoorRejects, HandoffStarts,
       HandoffReturns, HandoffRaises, StampRun, Launch, StreamReturns, StreamRaises,
       SettleReads, SettleActs
  <1>1. ASSUME NEW r \in DoorRow, door' = [door EXCEPT ![d] = r],
               \/ r = IdleDoor
               \/ r.batch = b /\ r.pc # "idle" /\ batch'[b].state \in HeldStates,
               \A c \in Batches : c # b => batch'[c].state = batch[c].state
        PROVE  DoorHolds'
    <2>1. \A e \in Doors : door'[e] = IF e = d THEN r ELSE door[e]
      BY <1>1 DEF TypeOK
    <2>2. ASSUME NEW e \in Doors
          PROVE  /\ door'[e].pc = "idle" <=> door'[e].batch = NoBatch
                 /\ door'[e].pc # "idle" => batch'[door'[e].batch].state \in HeldStates
      <3>1. CASE e = d
        <4>1. door'[e] = r BY <2>1, <3>1
        <4>2. CASE r = IdleDoor BY <4>1, <4>2 DEF IdleDoor
        <4>3. CASE r.batch = b /\ r.pc # "idle" /\ batch'[b].state \in HeldStates
          BY <1>0, NullsAreNoIds, <4>1, <4>3 DEF NoBatch
        <4> QED BY <1>1, <4>2, <4>3
      <3>2. CASE e # d
        BY <1>0, <1>1, <2>1, <3>2 DEF DoorRow, Handlers, DoorHolds, HeldStates
      <3> QED BY <3>1, <3>2
    <2>3. ASSUME NEW e \in Doors, NEW f \in Doors, e # f, door'[e].pc # "idle"
          PROVE  door'[e].batch # door'[f].batch
      <3>1. door'[e].batch \in Batches
        BY <1>0, <1>1, <2>1, <2>3 DEF Handlers, DoorHolds, DoorRow, IdleDoor
      <3>2. CASE e = d
        BY <1>0, <1>1, <2>1, <2>3, <3>2 DEF IdleDoor
      <3>3. CASE f = d
        <4>1. door'[f] = r /\ door'[e] = door[e] BY <2>1, <2>3, <3>3
        <4>2. door'[e].batch # b /\ door'[e].batch # NoBatch
          BY <1>0, <2>3, <3>1, <3>3, <4>1, NullsAreNoIds DEF NoBatch
        <4> QED BY <1>1, <4>1, <4>2 DEF IdleDoor
      <3>4. CASE e # d /\ f # d
        BY <2>1, <2>3, <3>4 DEF Handlers, DoorHolds
      <3> QED BY <3>2, <3>3, <3>4
    <2> QED BY <2>2, <2>3 DEF DoorHolds, HeldStates
  <1>2. ASSUME NEW r \in DoorRow, door' = [door EXCEPT ![d] = r],
               \A c \in Batches : c # b => /\ batch'[c].state = batch[c].state
                                           /\ fired'[c] = fired[c] /\ lost'[c] = lost[c],
               fired'[b] <= 1 + lost'[b], lost'[b] <= fired'[b],
               batch'[b].state \in {"none", "reserved", "released"} => fired'[b] = lost'[b],
               \/ r = IdleDoor
               \/ /\ r.batch = b
                  /\ r.pc \notin {"gated", "idle"}
                  /\ r.pc = "handoff" => ~r.evidence /\ fired'[b] = lost'[b] + 1
                  /\ r.pc \in {"stamped", "streaming"} => r.evidence
                  /\ r.pc = "stamped" => fired'[b] = lost'[b]
                  /\ r.pc \in {"settle", "act"} /\ ~r.evidence => fired'[b] = lost'[b]
        PROVE  Launches'
    <2>1. \A e \in Doors : door'[e] = IF e = d THEN r ELSE door[e]
      BY <1>2 DEF TypeOK
    <2>2. ASSUME NEW c \in Batches
          PROVE  /\ fired'[c] <= 1 + lost'[c]
                 /\ lost'[c] <= fired'[c]
                 /\ batch'[c].state \in {"none", "reserved", "released"} =>
                       fired'[c] = lost'[c]
      BY <1>2 DEF Handlers, Launches
    <2>3. ASSUME NEW e \in Doors
          PROVE  /\ door'[e].pc \in {"gated", "handoff"} => ~door'[e].evidence
                 /\ door'[e].pc \in {"stamped", "streaming"} => door'[e].evidence
                 /\ door'[e].pc \in {"gated", "stamped"} =>
                       fired'[door'[e].batch] = lost'[door'[e].batch]
                 /\ door'[e].pc = "handoff" =>
                       fired'[door'[e].batch] = lost'[door'[e].batch] + 1
                 /\ door'[e].pc \in {"settle", "act"} /\ ~door'[e].evidence =>
                       fired'[door'[e].batch] = lost'[door'[e].batch]
      <3>1. CASE e = d
        BY <2>1, <3>1, <1>2 DEF IdleDoor
      <3>2. CASE e # d
        <4>1. door'[e] = door[e] BY <2>1, <3>2
        <4>2. CASE door[e].pc = "idle" BY <4>1, <4>2
        <4>3. CASE door[e].pc # "idle"
          BY <1>0, <3>2, <4>3, <1>2, <4>1 DEF DoorRow, Handlers, DoorHolds, Launches
        <4> QED BY <4>2, <4>3
      <3> QED BY <3>1, <3>2
    <2> QED BY <2>2, <2>3 DEF Launches
  <1>3. /\ fired[b] \in Nat /\ lost[b] \in Nat
        /\ fired[b] <= 1 + lost[b] /\ lost[b] <= fired[b]
        /\ batch[b].state \in {"none", "reserved", "released"} => fired[b] = lost[b]
        /\ batch[b] \in BatchRow
    BY <1>0 DEF TypeOK, Handlers, Launches
  <1>4. ASSUME NEW r \in DoorRow, door' = [door EXCEPT ![d] = r],
               UNCHANGED <<batch, fired, lost>>,
               \/ r = IdleDoor
               \/ /\ r.batch = b
                  /\ r.pc \notin {"gated", "idle", "handoff"}
                  /\ r.pc \in {"stamped", "streaming"} => r.evidence
                  /\ r.pc = "stamped" => fired[b] = lost[b]
                  /\ r.pc \in {"settle", "act"} /\ ~r.evidence => fired[b] = lost[b]
        PROVE  Handlers'
    BY <1>0, <1>1, <1>4, <1>2, <1>3 DEF Handlers
  <1>5. ASSUME NEW p \in DoorStates
        PROVE  /\ [door[d] EXCEPT !.pc = p] \in DoorRow
               /\ [door[d] EXCEPT !.pc = p].pc = p
               /\ [door[d] EXCEPT !.pc = p].batch = b
               /\ [door[d] EXCEPT !.pc = p].evidence = door[d].evidence
               /\ [door[d] EXCEPT !.pc = p, !.evidence = TRUE] \in DoorRow
               /\ [door[d] EXCEPT !.pc = p, !.evidence = TRUE].pc = p
               /\ [door[d] EXCEPT !.pc = p, !.evidence = TRUE].batch = b
               /\ [door[d] EXCEPT !.pc = p, !.evidence = TRUE].evidence = TRUE
    BY <1>0 DEF DoorRow
  <1>6. {"settle", "handoff", "stamped", "streaming", "act"} \subseteq DoorStates
    BY DEF DoorStates
  <1>7. CASE DoorRejects(d)
    <2> DEFINE r == [door[d] EXCEPT !.pc = "settle"]
    <2>1. r \in DoorRow /\ r.batch = b /\ r.pc = "settle" BY <1>5, <1>6
    <2>2. door' = [door EXCEPT ![d] = r] /\ UNCHANGED <<batch, fired, lost>>
      BY <1>7 DEF DoorRejects, ledgerVars
    <2>3. fired[b] = lost[b] BY <1>7 DEF DoorRejects, Handlers, Launches
    <2> HIDE DEF r
    <2> QED BY <1>4, <2>1, <2>2, <2>3
  <1>8. CASE HandoffStarts(d)
    <2> DEFINE r == [door[d] EXCEPT !.pc = "handoff"]
    <2>1. /\ r \in DoorRow /\ r.batch = b /\ r.pc = "handoff"
          /\ r.evidence = door[d].evidence
      BY <1>5, <1>6
    <2>2. /\ door' = [door EXCEPT ![d] = r] /\ UNCHANGED <<batch, lost>>
          /\ fired' = [fired EXCEPT ![b] = @ + 1]
      BY <1>8 DEF HandoffStarts, ledgerVars
    <2>3. ~door[d].evidence /\ fired[b] = lost[b]
      BY <1>8 DEF HandoffStarts, Handlers, Launches
    <2>4. fired'[b] = fired[b] + 1 /\ \A c \in Batches : c # b => fired'[c] = fired[c]
      BY <1>0, <2>2 DEF TypeOK
    <2> HIDE DEF r
    <2>5. DoorHolds' BY <1>0, <1>1, <2>1, <2>2
    <2>6. fired'[b] = lost'[b] + 1 /\ fired'[b] <= 1 + lost'[b] /\ lost'[b] <= fired'[b]
      BY <1>3, <2>2, <2>3, <2>4
    <2>7. batch'[b].state \notin {"none", "reserved", "released"}
      BY <1>0, <2>2 DEF HeldStates, OpenStates
    <2>8. Launches' BY <1>2, <2>1, <2>2, <2>3, <2>4, <2>6, <2>7
    <2> QED BY <2>5, <2>8 DEF Handlers
  <1>9. CASE HandoffReturns(d)
    <2>0. UNCHANGED <<batch, fired, lost>> BY <1>9 DEF HandoffReturns, ledgerVars
    <2>1. CASE door' = [door EXCEPT ![d] = IdleDoor]
      BY <1>4, <2>0, <2>1, Rows
    <2>2. CASE door' = [door EXCEPT ![d].pc = "settle", ![d].evidence = TRUE]
      <3> DEFINE r == [door[d] EXCEPT !.pc = "settle", !.evidence = TRUE]
      <3>1. r \in DoorRow /\ r.batch = b /\ r.pc = "settle" /\ r.evidence = TRUE
        BY <1>5, <1>6
      <3>2. door' = [door EXCEPT ![d] = r] BY <2>2 DEF TypeOK
      <3> HIDE DEF r
      <3> QED BY <1>4, <2>0, <3>1, <3>2
    <2> QED BY <1>9, <2>1, <2>2 DEF HandoffReturns
  <1>10. CASE HandoffRaises(d)
    <2> DEFINE r == [door[d] EXCEPT !.pc = "settle"]
    <2>1. /\ r \in DoorRow /\ r.batch = b /\ r.pc = "settle"
      BY <1>5, <1>6
    <2>2. /\ door' = [door EXCEPT ![d] = r] /\ UNCHANGED <<batch, fired>>
          /\ lost' = [lost EXCEPT ![b] = @ + 1]
      BY <1>10 DEF HandoffRaises, ledgerVars
    <2>3. fired[b] = lost[b] + 1
      BY <1>10 DEF HandoffRaises, Handlers, Launches
    <2>4. lost'[b] = lost[b] + 1 /\ \A c \in Batches : c # b => lost'[c] = lost[c]
      BY <1>0, <2>2 DEF TypeOK
    <2> HIDE DEF r
    <2>5. DoorHolds' BY <1>0, <1>1, <2>1, <2>2
    <2>6. fired'[b] = lost'[b] /\ fired'[b] <= 1 + lost'[b] /\ lost'[b] <= fired'[b]
      BY <1>3, <2>2, <2>3, <2>4
    <2>8. Launches' BY <1>2, <2>1, <2>2, <2>4, <2>6
    <2> QED BY <2>5, <2>8 DEF Handlers
  <1>11. CASE StampRun(d)
    <2> DEFINE r == [door[d] EXCEPT !.pc = "stamped", !.evidence = TRUE]
    <2>1. r \in DoorRow /\ r.batch = b /\ r.pc = "stamped" /\ r.evidence = TRUE
      BY <1>5, <1>6
    <2>2. door' = [door EXCEPT ![d] = r] /\ UNCHANGED <<batch, fired, lost>>
      BY <1>11 DEF StampRun, ledgerVars, TypeOK
    <2>3. fired[b] = lost[b] BY <1>11 DEF StampRun, Handlers, Launches
    <2> HIDE DEF r
    <2> QED BY <1>4, <2>1, <2>2, <2>3
  <1>12. CASE Launch(d)
    <2> DEFINE r == [door[d] EXCEPT !.pc = "streaming"]
    <2>1. /\ r \in DoorRow /\ r.batch = b /\ r.pc = "streaming"
          /\ r.evidence = door[d].evidence
      BY <1>5, <1>6
    <2>2. /\ door' = [door EXCEPT ![d] = r] /\ UNCHANGED <<batch, lost>>
          /\ fired' = [fired EXCEPT ![b] = @ + 1]
      BY <1>12 DEF Launch, ledgerVars
    <2>3. door[d].evidence /\ fired[b] = lost[b]
      BY <1>12 DEF Launch, Handlers, Launches
    <2>4. fired'[b] = fired[b] + 1 /\ \A c \in Batches : c # b => fired'[c] = fired[c]
      BY <1>0, <2>2 DEF TypeOK
    <2> HIDE DEF r
    <2>5. DoorHolds' BY <1>0, <1>1, <2>1, <2>2
    <2>6. fired'[b] <= 1 + lost'[b] /\ lost'[b] <= fired'[b]
      BY <1>3, <2>2, <2>3, <2>4
    <2>7. batch'[b].state \notin {"none", "reserved", "released"}
      BY <1>0, <2>2 DEF HeldStates, OpenStates
    <2>8. Launches' BY <1>2, <2>1, <2>2, <2>3, <2>4, <2>6, <2>7
    <2> QED BY <2>5, <2>8 DEF Handlers
  <1>13. CASE StreamReturns(d)
    BY <1>4, <1>13, Rows DEF StreamReturns, ledgerVars
  <1>14. CASE StreamRaises(d)
    <2> DEFINE r == [door[d] EXCEPT !.pc = "settle"]
    <2>1. /\ r \in DoorRow /\ r.batch = b /\ r.pc = "settle"
          /\ r.evidence = door[d].evidence
      BY <1>5, <1>6
    <2>2. door' = [door EXCEPT ![d] = r] /\ UNCHANGED <<batch, fired, lost>>
      BY <1>14 DEF StreamRaises, ledgerVars
    <2>3. door[d].evidence BY <1>14 DEF StreamRaises, Handlers, Launches
    <2> HIDE DEF r
    <2> QED BY <1>4, <2>1, <2>2, <2>3
  <1>15. CASE SettleReads(d)
    <2>0. UNCHANGED <<batch, fired, lost>> BY <1>15 DEF SettleReads, ledgerVars
    <2>1. CASE door' = [door EXCEPT ![d] = IdleDoor]
      BY <1>4, <2>0, <2>1, Rows
    <2>2. CASE door' = [door EXCEPT ![d].pc = "act"]
      <3> DEFINE r == [door[d] EXCEPT !.pc = "act"]
      <3>1. /\ r \in DoorRow /\ r.batch = b /\ r.pc = "act"
            /\ r.evidence = door[d].evidence
        BY <1>5, <1>6
      <3>2. door' = [door EXCEPT ![d] = r] BY <2>2 DEF TypeOK
      <3>3. ~door[d].evidence => fired[b] = lost[b]
        BY <1>15 DEF SettleReads, Handlers, Launches
      <3> HIDE DEF r
      <3> QED BY <1>4, <2>0, <3>1, <3>2, <3>3
    <2> QED BY <1>15, <2>1, <2>2 DEF SettleReads
  <1>16. CASE SettleActs(d)
    <2>1. /\ door' = [door EXCEPT ![d] = IdleDoor] /\ UNCHANGED <<fired, lost>>
          /\ door[d].pc = "act"
      BY <1>16 DEF SettleActs
    <2>2. \/ UNCHANGED batch
          \/ ToTerminal(b) \/ ToAccepted(b) \/ ToUncertain(b)
          \/ ~door[d].evidence /\ batch' = [batch EXCEPT ![b].state = "reserved"]
      BY <1>16 DEF SettleActs, SettleVerdict, DispatchFailed
    <2>3. /\ \A c \in Batches : c # b => batch'[c].state = batch[c].state
          /\ \/ batch'[b].state = batch[b].state
             \/ batch'[b].state \in HeldStates
             \/ ~door[d].evidence
      BY <1>3, <1>0, <2>2
      DEF ToTerminal, TerminalAt, ToAccepted, ToUncertain, HeldStates, OpenStates, TypeOK,
          BatchRow
    <2>4. ~door[d].evidence => fired[b] = lost[b]
      BY <2>1 DEF Handlers, Launches
    <2>5. batch'[b].state \in {"none", "reserved", "released"} => fired'[b] = lost'[b]
      BY <1>3, <2>1, <2>3, <2>4 DEF HeldStates, OpenStates
    <2>6. DoorHolds' BY <1>1, <2>1, <2>3, Rows
    <2>7. Launches' BY <1>2, <1>3, <2>1, <2>3, <2>5, Rows
    <2> QED BY <2>6, <2>7 DEF Handlers
  <1> QED
    BY <1>7, <1>8, <1>9, <1>10, <1>11, <1>12, <1>13, <1>14, <1>15, <1>16

\* gate_dispatch: only a reserved batch passes, and nobody holds one.
LEMMA GateKeepsHandlers ==
  ASSUME TypeOK, Handlers, NEW d \in Doors, NEW b \in Batches, Gate(d, b)
  PROVE  Handlers'
  <1> DEFINE r == [pc |-> "gated", batch |-> b, evidence |-> FALSE]
  <1>1. /\ door' = [door EXCEPT ![d] = r] /\ UNCHANGED <<fired, lost>>
        /\ batch' = [batch EXCEPT ![b].state = "dispatching"]
        /\ batch[b].state = "reserved" /\ door[d].pc = "idle"
    BY DEF Gate
  <1>2. /\ \A e \in Doors : door'[e] = IF e = d THEN r ELSE door[e]
        /\ \A c \in Batches : c # b => batch'[c].state = batch[c].state
        /\ batch'[b].state = "dispatching"
    BY <1>1 DEF TypeOK, BatchRow
  <1>3. \A e \in Doors : door[e].batch # b /\ (e # d => door'[e].batch # b)
    BY <1>1, <1>2, NullsAreNoIds
    DEF Handlers, DoorHolds, OpenStates, TypeOK, NoBatch
  <1>4. \A e \in Doors : door[e].pc # "idle" => door[e].batch \in Batches
    BY DEF TypeOK, DoorRow, Handlers, DoorHolds
  <1>5. r.pc = "gated" /\ r.batch = b /\ ~r.evidence OBVIOUS
  <1>6. fired[b] = lost[b] BY <1>1 DEF Handlers, Launches
  <1>7. b # NoBatch BY NullsAreNoIds DEF NoBatch
  <1> HIDE DEF r
  <1>8. DoorHolds'
    <2>1. ASSUME NEW e \in Doors
          PROVE  /\ door'[e].pc = "idle" <=> door'[e].batch = NoBatch
                 /\ door'[e].pc # "idle" => batch'[door'[e].batch].state
                      \in OpenStates \cup {"terminal", "uncertain-consumed"}
      BY <1>2, <1>5, <1>7, <1>3, <1>4 DEF OpenStates, Handlers, DoorHolds
    <2>2. ASSUME NEW e \in Doors, NEW f \in Doors, e # f, door'[e].pc # "idle"
          PROVE  door'[e].batch # door'[f].batch
      BY <1>2, <1>3, <1>5, <2>2 DEF Handlers, DoorHolds
    <2> QED BY <2>1, <2>2 DEF DoorHolds
  <1>9. Launches'
    <2>1. ASSUME NEW c \in Batches
          PROVE  /\ fired'[c] <= 1 + lost'[c]
                 /\ lost'[c] <= fired'[c]
                 /\ batch'[c].state \in {"none", "reserved", "released"} =>
                       fired'[c] = lost'[c]
      BY <1>1, <1>2 DEF Handlers, Launches
    <2>2. ASSUME NEW e \in Doors
          PROVE  /\ door'[e].pc \in {"gated", "handoff"} => ~door'[e].evidence
                 /\ door'[e].pc \in {"stamped", "streaming"} => door'[e].evidence
                 /\ door'[e].pc \in {"gated", "stamped"} =>
                       fired'[door'[e].batch] = lost'[door'[e].batch]
                 /\ door'[e].pc = "handoff" =>
                       fired'[door'[e].batch] = lost'[door'[e].batch] + 1
                 /\ door'[e].pc \in {"settle", "act"} /\ ~door'[e].evidence =>
                       fired'[door'[e].batch] = lost'[door'[e].batch]
      BY <1>1, <1>2, <1>5, <1>6 DEF Handlers, Launches
    <2> QED BY <2>1, <2>2 DEF Launches
  <1> QED BY <1>8, <1>9 DEF Handlers

\* A crash idles every handler; the tables and what was started stay.
LEMMA CrashKeepsHandlers ==
  ASSUME TypeOK, Handlers, Crash
  PROVE  Handlers'
  BY DEF Crash, IdleDoor, ledgerVars, DoorHolds, Handlers, Launches

LEMMA HandlersInductive == IInv /\ [Next]_vars => Handlers'
  <1> SUFFICES ASSUME IInv, [Next]_vars PROVE Handlers' OBVIOUS
  <1>a. TypeOK /\ Handlers BY DEF IInv, Handlers
  <1>1. ASSUME \/ Tick \/ AdmitStep \/ ClientStep \/ Prune \/ UNCHANGED vars
               \/ \E k \in Keys : ReportArrives(k)
        PROVE  Handlers'
    BY <1>a, <1>1, ClientKeepsHandlers
  <1>2. ASSUME NEW d \in Doors, NEW b \in Batches, Gate(d, b) PROVE Handlers'
    BY <1>a, <1>2, GateKeepsHandlers
  <1>3. ASSUME NEW d \in Doors,
               \/ DoorRejects(d) \/ HandoffStarts(d) \/ HandoffReturns(d)
               \/ HandoffRaises(d) \/ StampRun(d) \/ Launch(d) \/ StreamReturns(d)
               \/ StreamRaises(d) \/ SettleReads(d) \/ SettleActs(d)
        PROVE  Handlers'
    BY <1>a, <1>3, DoorKeepsHandlers
  <1>4. ASSUME NEW b \in Batches, RunEnds(b) PROVE Handlers'
    BY <1>4, <1>a, LedgerStepKeepsHandlers DEF RunEnds, ledgerVars
  <1>5. ASSUME Crash PROVE Handlers'
    BY <1>a, <1>5, CrashKeepsHandlers
  <1> QED BY <1>1, <1>2, <1>3, <1>4, <1>5 DEF Next, DoorStep

LEMMA InitIInv == Init => IInv
  <1> SUFFICES ASSUME Init PROVE IInv OBVIOUS
  <1>1. TypeOK BY InitType
  <1>2. \A b \in Batches : batch[b].state = "none" /\ batch[b].keys = {}
    BY DEF Init, NoRow
  <1>3. \A k \in Keys : cons[k].state = "none" /\ cons[k].batch = NoBatch
    BY DEF Init, NoClaim
  <1>4. \A d \in Doors : door[d].pc = "idle" /\ door[d].batch = NoBatch
    BY DEF Init, IdleDoor
  <1>5. \A b \in Batches : fired[b] = 0 /\ lost[b] = 0 BY DEF Init
  <1>6. ClaimsAgree BY <1>2, <1>3 DEF ClaimsAgree, Live
  <1>7. ClaimRows BY <1>3 DEF ClaimRows
  <1>8. BatchRows BY <1>2 DEF BatchRows
  <1>9. DoorHolds BY <1>4 DEF DoorHolds
  <1>10. Launches BY <1>4, <1>5 DEF Launches
  <1> QED BY <1>1, <1>6, <1>7, <1>8, <1>9, <1>10 DEF IInv

LEMMA Inductive == IInv /\ [Next]_vars => IInv'
  <1> SUFFICES ASSUME IInv, [Next]_vars PROVE IInv' OBVIOUS
  <1>1. TypeOK' BY TypeInductive DEF IInv
  <1>2. Claims' BY ClaimsInductive
  <1>3. Handlers' BY HandlersInductive
  <1> QED BY <1>1, <1>2, <1>3 DEF IInv, Claims, Handlers

-----------------------------------------------------------------------------
(* The theorems.                                                           *)

\* The inductive invariant holds in every reachable state.
THEOREM Invariant == Spec => []IInv
  BY InitIInv, Inductive, PTL DEF Spec

\* admit, release, the reports, the gate and the retention pass keep the two
\* tables in agreement, however they interleave and wherever the process dies.
THEOREM ClaimsAlwaysAgree == Spec => []ClaimsAgree
  <1>1. IInv => ClaimsAgree BY DEF IInv
  <1> QED BY <1>1, Invariant, PTL

\* "Only a PROVABLY undispatched reserved batch may release": what release and
\* the gate find reserved has started nothing and nobody is about to start it.
THEOREM ReservedNeverStarted == Spec => []ReservedIsUndispatched
  <1>1. IInv => ReservedIsUndispatched
    <2> SUFFICES ASSUME IInv, NEW b \in Batches, batch[b].state \in {"reserved", "released"}
                 PROVE  /\ fired[b] = lost[b]
                        /\ \A d \in Doors : door[d].batch = b => door[d].pc = "idle"
      BY DEF ReservedIsUndispatched
    <2>1. fired[b] = lost[b] BY DEF IInv, Launches
    <2>2. \A d \in Doors : door[d].batch = b => door[d].pc = "idle"
      BY DEF IInv, DoorHolds, OpenStates
    <2> QED BY <2>1, <2>2
  <1> QED BY <1>1, Invariant, PTL

\* No report wakes the model twice while the ledger remembers it, for every
\* number of reports, batches and concurrent requests.
THEOREM NeverASecondWake == Spec => []NoSecondWake
  <1>1. IInv => NoSecondWake
    <2> SUFFICES ASSUME IInv PROVE NoSecondWake OBVIOUS
    <2>1. \A b \in Batches : fired[b] <= 1 + lost[b] BY DEF IInv, Launches
    <2>2. ASSUME NEW b \in Batches, NEW c \in Batches, b # c,
                 fired[b] > lost[b], fired[c] > lost[c], Overlap(b, c),
                 "archived" \notin {batch[b].state, batch[c].state}
          PROVE  FALSE
      <3>1. fired[b] # lost[b] /\ fired[c] # lost[c]
        BY <2>2 DEF IInv, TypeOK
      <3>2. Live(b) /\ Live(c)
        BY <2>2, <3>1 DEF IInv, Launches, Live
      <3>3. PICK k \in batch[b].keys : k \in batch[c].keys BY <2>2 DEF Overlap
      <3>4. cons[k].batch = b /\ cons[k].batch = c
        BY <3>2, <3>3 DEF IInv, ClaimsAgree
      <3> QED BY <2>2, <3>4
    <2> QED BY <2>1, <2>2 DEF NoSecondWake
  <1> QED BY <1>1, Invariant, PTL

-----------------------------------------------------------------------------
(* Limits, lifecycle and refinement.                                       *)

\* What any step may do to one row of wake_batches: a row is created by admit,
\* and from then on keeps its claim; a batch never comes back to life.
Evolves(b) ==
    /\ batch[b].state # "none" =>
          /\ batch'[b].keys = batch[b].keys
          /\ batch'[b].created = batch[b].created
          /\ batch'[b].session = batch[b].session
          /\ Live(b)' => Live(b)
    /\ batch[b].state \in ClosedStates => batch'[b].state \in {batch[b].state, "archived"}
    /\ batch[b].state = "accepted" =>
          batch'[b].state \notin {"reserved", "dispatching", "released"}

LEMMA Transitions ==
  ASSUME TypeOK, NEW b \in Batches, NEW c \in Batches,
         \/ ToAccepted(c) \/ (\E t : TerminalAt(c, t)) \/ ToUncertain(c) \/ DispatchFailed(c)
         \/ ReleaseEffect(c)
         \/ batch[c].state = "reserved"
            /\ batch' = [batch EXCEPT ![c].state = "dispatching"]
  PROVE  Evolves(b) /\ (batch[b].state = "none" <=> batch'[b].state = "none")
  <1>0. batch[b] \in BatchRow BY DEF TypeOK
  <1>1. ASSUME batch'[b] = batch[b]
        PROVE  Evolves(b) /\ (batch[b].state = "none" <=> batch'[b].state = "none")
    BY <1>1 DEF Evolves, Live, ClosedStates
  <1>2. CASE b # c
    BY <1>2, <1>1 DEF ToAccepted, TerminalAt, ToUncertain, DispatchFailed, ReleaseEffect, TypeOK
  <1>3. CASE b = c /\ (ToAccepted(c) \/ (\E t : TerminalAt(c, t)) \/ ToUncertain(c))
    BY <1>0, <1>3 DEF ToAccepted, TerminalAt, ToUncertain, TypeOK, BatchRow, OpenStates, Evolves, Live,
       ClosedStates
  <1>4. CASE b = c /\ (\/ DispatchFailed(c) \/ ReleaseEffect(c)
                       \/ /\ batch[c].state = "reserved"
                          /\ batch' = [batch EXCEPT ![c].state = "dispatching"])
    BY <1>0, <1>4, <1>1 DEF DispatchFailed, ReleaseEffect, TypeOK, BatchRow, Evolves, Live,
       ClosedStates
  <1> QED BY <1>2, <1>3, <1>4

LEMMA EveryStepEvolves ==
  ASSUME IInv, [Next]_vars, NEW b \in Batches
  PROVE  /\ Evolves(b)
         /\ batch[b].state = "none" /\ batch'[b].state # "none" => AdmitStep
  <1>a. TypeOK BY DEF IInv
  <1>0. ASSUME batch'[b] = batch[b]
        PROVE  Evolves(b) /\ (batch[b].state = "none" <=> batch'[b].state = "none")
    BY <1>0 DEF Evolves, Live, ClosedStates
  <1>1. CASE AdmitStep
    BY <1>1, <1>a, <1>0 DEF AdmitStep, AdmitEmpty, Admit, AdmitEffect, TypeOK, Evolves, ClosedStates
  <1>2. CASE ClientStep
    <2>1. PICK c \in Batches : Report(c) \/ Release(c) \/ ReconcileBatch(c)
      BY <1>2 DEF ClientStep
    <2>2. ToAccepted(c) \/ (\E t : TerminalAt(c, t)) \/ ToUncertain(c) \/ ReleaseEffect(c)
      BY <2>1 DEF Report, Release, ReconcileBatch, ToTerminal
    <2> QED BY <1>a, <2>2, Transitions
  <1>3. ASSUME NEW d \in Doors, NEW c \in Batches, Gate(d, c)
        PROVE  Evolves(b) /\ (batch[b].state = "none" <=> batch'[b].state = "none")
    BY <1>a, <1>3, Transitions DEF Gate
  <1>4. ASSUME NEW d \in Doors, SettleActs(d)
        PROVE  Evolves(b) /\ (batch[b].state = "none" <=> batch'[b].state = "none")
    <2> DEFINE c == door[d].batch
    <2>1. c \in Batches
      BY <1>4 DEF SettleActs, IInv, TypeOK, DoorRow, DoorHolds
    <2>2. \/ ToAccepted(c) \/ (\E t : TerminalAt(c, t)) \/ ToUncertain(c)
          \/ UNCHANGED batch \/ DispatchFailed(c)
      BY <1>4 DEF SettleActs, ToTerminal
    <2> HIDE DEF c
    <2> QED BY <1>0, <1>a, <2>1, <2>2, Transitions
  <1>5. CASE Prune
    <2>1. batch[b] \in BatchRow BY <1>a DEF TypeOK
    <2>2. batch'[b] = IF b \in Expired THEN [batch[b] EXCEPT !.state = "archived"]
                      ELSE batch[b]
      BY <1>5 DEF Prune
    <2>3. b \in Expired => batch[b].state \in ClosedStates BY DEF Expired
    <2>4. CASE b \in Expired
      BY <2>1, <2>2, <2>4, <2>3 DEF BatchRow, Evolves, Live, ClosedStates
    <2> QED BY <1>0, <2>2, <2>4
  <1>6. ASSUME \/ Tick \/ Crash \/ UNCHANGED vars
               \/ \E k \in Keys : ReportArrives(k)
               \/ \E c \in Batches : RunEnds(c)
               \/ \E d \in Doors :
                    \/ DoorRejects(d) \/ HandoffStarts(d) \/ HandoffReturns(d)
                    \/ HandoffRaises(d) \/ StampRun(d) \/ Launch(d) \/ StreamReturns(d)
                    \/ StreamRaises(d) \/ SettleReads(d)
        PROVE  batch' = batch
    BY <1>6 DEF Tick, ReportArrives, Crash, RunEnds, DoorRejects, HandoffStarts,
       HandoffReturns, HandoffRaises, StampRun, Launch, StreamReturns, StreamRaises,
       SettleReads, vars, ledgerVars
  <1> QED
    BY <1>0, <1>1, <1>2, <1>3, <1>4, <1>5, <1>6 DEF Next, DoorStep

-----------------------------------------------------------------------------
(* The state machine of a batch.                                           *)

\* A batch for which a turn was started is not reverted or released.
LEMMA StartedStays ==
  ASSUME IInv, [Next]_vars, NEW b \in Batches, fired[b] > lost[b]
  PROVE  batch'[b].state \notin {"reserved", "released"}
  <1>a. TypeOK /\ fired[b] # lost[b] BY DEF IInv, TypeOK
  <1>b. batch[b].state \notin {"none", "reserved", "released"}
    BY <1>a DEF IInv, Launches
  <1>1. IInv' BY Inductive
  <1>2. CASE UNCHANGED <<fired, lost>> BY <1>1, <1>2, <1>a DEF IInv, Launches
  <1>3. CASE UNCHANGED batch BY <1>3, <1>b
  <1>4. UNCHANGED <<fired, lost>> \/ UNCHANGED batch
    BY DEF Next, vars, Tick, ReportArrives, AdmitStep, AdmitEmpty, Admit, ClientStep,
       Report, Release, ReconcileBatch, DoorStep, Gate, DoorRejects, HandoffStarts,
       HandoffReturns, HandoffRaises, StampRun, Launch, RunEnds, StreamReturns,
       StreamRaises, SettleReads, SettleActs, Crash, Prune, ledgerVars, doorVars
  <1> QED BY <1>2, <1>3, <1>4

\* The state machine of the module header: closed batches stay closed, a
\* batch whose turn started never becomes reserved or released, and a claim is
\* immutable. For every number of batches and handlers.
THEOREM LifecycleHolds == Spec => BatchLifecycle
  <1> DEFINE A == \A b \in Batches :
        /\ batch[b].state \in ClosedStates => batch'[b].state \in {batch[b].state, "archived"}
        /\ batch[b].state = "accepted" => batch'[b].state \notin {"reserved", "dispatching", "released"}
        /\ fired[b] > lost[b] => batch'[b].state \notin {"reserved", "released"}
        /\ batch[b].state # "none" => batch'[b].keys = batch[b].keys
                                      /\ batch'[b].created = batch[b].created
  <1>1. IInv /\ [Next]_vars => A
    BY EveryStepEvolves, StartedStays DEF Evolves
  <1>2. IInv /\ [Next]_vars => [A]_vars BY <1>1
  <1> QED BY <1>2, Invariant, PTL DEF Spec, BatchLifecycle

-----------------------------------------------------------------------------
(* The rolling quota.                                                      *)

LEMMA Counting ==
  ASSUME NEW S \in SUBSET Batches, NEW T \in SUBSET Batches, NEW n \in Nat
  PROVE  /\ T \subseteq S /\ Cardinality(S) <= n => Cardinality(T) <= n
         /\ \A b \in Batches : T \subseteq S \cup {b} /\ Cardinality(S) < n =>
                                  Cardinality(T) <= n
  <1>1. IsFiniteSet(S) /\ IsFiniteSet(T) BY FiniteBatches, FS_Subset
  <1>2. Cardinality(S) \in Nat /\ Cardinality(T) \in Nat BY <1>1, FS_CardinalityType
  <1>3. ASSUME T \subseteq S, Cardinality(S) <= n PROVE Cardinality(T) <= n
    BY <1>1, <1>3, FS_Subset, <1>2
  <1>4. ASSUME NEW b \in Batches, T \subseteq S \cup {b}, Cardinality(S) < n
        PROVE  Cardinality(T) <= n
    <2>1. /\ IsFiniteSet(S \cup {b})
          /\ Cardinality(S \cup {b}) \in {Cardinality(S), Cardinality(S) + 1}
      BY <1>1, FS_AddElement
    <2>2. Cardinality(T) <= Cardinality(S \cup {b}) BY <1>4, <2>1, FS_Subset
    <2> QED BY <1>2, <1>4, <2>1, <2>2
  <1> QED BY <1>3, <1>4

\* A batch that counts against the quota after a step counted before it,
\* unless the step created it.
LEMMA WindowShrinks ==
  ASSUME IInv, [Next]_vars, NEW b \in Batches, InWindow(b)'
  PROVE  \/ InWindow(b) /\ batch'[b].session = batch[b].session
         \/ batch[b].state = "none" /\ batch'[b].state # "none"
  <1>1. Evolves(b) BY EveryStepEvolves
  <1>2. CASE batch[b].state = "none"
    BY <1>2 DEF InWindow
  <1>3. CASE batch[b].state # "none"
    <2>1. Live(b)' BY DEF InWindow, Live
    <2>2. /\ Live(b) /\ batch'[b].created = batch[b].created
          /\ batch'[b].session = batch[b].session
      BY <1>1, <1>3, <2>1 DEF Evolves
    <2>3. now' = now \/ (now' = now + 1 /\ Tick)
      BY DEF Next, vars, Tick, ReportArrives, AdmitStep, AdmitEmpty, Admit, ClientStep,
         Report, Release, ReconcileBatch, DoorStep, Gate, DoorRejects, HandoffStarts,
         HandoffReturns, HandoffRaises, StampRun, Launch, RunEnds, StreamReturns,
         StreamRaises, SettleReads, SettleActs, Crash, Prune
    <2>4. now \in Int /\ batch[b].created \in Int
      BY <1>3, Limits DEF IInv, BatchRows, TypeOK, Times
    <2>5. batch[b].created > now - QUOTA_WINDOW
      BY <2>2, <2>3, <2>4, Limits DEF InWindow
    <2> QED BY <2>2, <2>5 DEF InWindow, Live
  <1> QED BY <1>2, <1>3

LEMMA QuotaInductive == IInv /\ QuotaHeld /\ [Next]_vars => QuotaHeld'
  <1> SUFFICES ASSUME IInv, QuotaHeld, [Next]_vars PROVE QuotaHeld' OBVIOUS
  <1>a. /\ ProfileUsed \in SUBSET Batches /\ ProfileUsed' \in SUBSET Batches
        /\ \A s \in Sessions : SessionUsed(s) \in SUBSET Batches
                               /\ SessionUsed(s)' \in SUBSET Batches
    BY DEF ProfileUsed, SessionUsed
  <1>1. CASE \A b \in Batches : ~(batch[b].state = "none" /\ batch'[b].state # "none")
    <2>1. \A s \in Sessions : SessionUsed(s)' \subseteq SessionUsed(s)
      BY <1>1, WindowShrinks DEF SessionUsed
    <2>2. ProfileUsed' \subseteq ProfileUsed
      BY <1>1, WindowShrinks DEF ProfileUsed
    <2> QED BY <1>a, <2>1, <2>2, Counting, Limits DEF QuotaHeld
  <1>2. ASSUME NEW b \in Batches, batch[b].state = "none" /\ batch'[b].state # "none"
        PROVE  QuotaHeld'
    <2>1. AdmitStep BY <1>2, EveryStepEvolves
    <2>2. PICK s \in Sessions, o \in Owners :
            \E S \in SUBSET {k \in Keys : SessionOf[k] = s} :
              \E A \in SUBSET S, c \in Batches : Admit(S, s, A, c, o)
      BY <1>2, <2>1 DEF AdmitStep, AdmitEmpty
    <2>3. PICK S \in SUBSET Keys, A \in SUBSET Keys, c \in Batches : Admit(S, s, A, c, o)
      BY <2>2
    <2>4. /\ QuotaLeft(s)
          /\ batch' = [batch EXCEPT ![c] = NewBatch(s, A, o)]
      BY <2>3 DEF Admit, AdmitEffect
    <2>5. /\ \A e \in Batches : e # c => batch'[e] = batch[e]
          /\ batch'[c].session = s
      BY <2>4 DEF IInv, TypeOK, NewBatch
    <2>6. c = b BY <1>2, <2>5
    <2>7. \A e \in Batches : InWindow(e)' => InWindow(e) \/ e = b
      BY <2>5, <2>6, WindowShrinks
    <2>8. ProfileUsed' \subseteq ProfileUsed \cup {b} BY <2>7 DEF ProfileUsed
    <2>9. Cardinality(ProfileUsed') <= PROFILE_WAKE_LIMIT
      BY <1>a, <2>4, <2>8, Counting, Limits DEF QuotaLeft
    <2>10. ASSUME NEW t \in Sessions
           PROVE  Cardinality(SessionUsed(t)') <= SESSION_WAKE_LIMIT
      <3>1. CASE t = s
        BY <2>5, <2>6, <2>7, <1>a, <2>4, <3>1, Counting, Limits DEF SessionUsed, QuotaLeft
      <3>2. CASE t # s
        <4>1. SessionUsed(t)' \subseteq SessionUsed(t)
          BY <2>5, <2>6, <2>7, <3>2 DEF SessionUsed
        <4> QED BY <1>a, <4>1, Counting, Limits DEF QuotaHeld
      <3> QED BY <3>1, <3>2
    <2> QED BY <2>9, <2>10 DEF QuotaHeld
  <1> QED BY <1>1, <1>2

\* The rolling quota of a session and of the profile is never exceeded, for
\* every limit, window and set of clients that admit, release and re-dispatch.
THEOREM QuotaNeverExceeded == Spec => []QuotaHeld
  <1>1. Init => QuotaHeld
    <2> SUFFICES ASSUME Init PROVE QuotaHeld OBVIOUS
    <2>1. \A b \in Batches : ~InWindow(b) BY DEF Init, InWindow, NoRow
    <2>2. ProfileUsed = {} /\ \A s \in Sessions : SessionUsed(s) = {}
      BY <2>1 DEF ProfileUsed, SessionUsed
    <2> QED BY <2>2, FS_EmptySet, Limits DEF QuotaHeld
  <1> QED BY <1>1, QuotaInductive, Invariant, PTL DEF Spec

-----------------------------------------------------------------------------
(* The content cooldown.                                                   *)

Apart(b, c) == \/ batch[b].created - batch[c].created >= CONTENT_COOLDOWN
               \/ batch[c].created - batch[b].created >= CONTENT_COOLDOWN
SharesSource(b, c) == \E j \in batch[b].keys, k \in batch[c].keys : Source[j] = Source[k]

\* admit leaves a key alone whose text was consumed within the cooldown.
LEMMA AdmitIsApart ==
  ASSUME IInv, NEW S, NEW s \in Sessions, NEW A \in SUBSET Keys, NEW b \in Batches,
         NEW o, Admit(S, s, A, b, o), NEW c \in Batches, c # b, Live(c),
         batch[c].session = s,
         NEW j \in batch[c].keys, NEW k \in A, Source[j] = Source[k]
  PROVE  now - batch[c].created >= CONTENT_COOLDOWN
  BY Limits DEF Admit, BatchChoices, Claimable, IInv, TypeOK, BatchRow, ClaimsAgree, ClaimRows,
     BatchRows, SameSourceRecent, Live, Times

LEMMA CooldownInductive == IInv /\ SourceCooldown /\ [Next]_vars => SourceCooldown'
  <1> SUFFICES ASSUME IInv, SourceCooldown, [Next]_vars,
                      NEW b \in Batches, NEW c \in Batches, b # c,
                      Live(b)', Live(c)', batch'[b].session = batch'[c].session,
                      SharesSource(b, c)'
               PROVE  Apart(b, c)'
    BY DEF SourceCooldown, Apart, SharesSource
  <1>a. Evolves(b) /\ Evolves(c) BY EveryStepEvolves
  <1>1. CASE batch[b].state # "none" /\ batch[c].state # "none"
    BY <1>1, <1>a DEF Evolves, SourceCooldown, Apart, SharesSource
  <1>2. CASE batch[b].state = "none" \/ batch[c].state = "none"
    <2>0. batch'[b].state # "none" /\ batch'[c].state # "none" BY DEF Live
    <2>1. AdmitStep BY <1>2, <2>0, EveryStepEvolves
    <2>2. PICK s \in Sessions, o \in Owners :
            \E S \in SUBSET {k \in Keys : SessionOf[k] = s} :
              \E A \in SUBSET S, e \in Batches : Admit(S, s, A, e, o)
      BY <1>2, <2>0, <2>1 DEF AdmitStep, AdmitEmpty
    <2>3. PICK S \in SUBSET Keys, A \in SUBSET Keys, e \in Batches : Admit(S, s, A, e, o)
      BY <2>2
    <2>4. /\ batch' = [batch EXCEPT ![e] = NewBatch(s, A, o)]
      BY <2>3 DEF Admit, AdmitEffect
    <2>5. /\ \A f \in Batches : f # e => batch'[f] = batch[f]
          /\ batch'[e].session = s /\ batch'[e].keys = A /\ batch'[e].created = now
      BY <2>4 DEF IInv, TypeOK, NewBatch
    <2>6. CASE e = b
      <3>1. batch'[c] = batch[c] /\ Live(c) /\ batch[c].session = s
        BY <2>5, <2>6 DEF Live
      <3>2. \E j \in batch[c].keys, k \in A : Source[j] = Source[k]
        BY <2>5, <2>6, <3>1 DEF SharesSource
      <3>3. now - batch[c].created >= CONTENT_COOLDOWN
        BY <2>3, <2>6, <3>1, <3>2, AdmitIsApart
      <3> QED BY <2>5, <2>6, <3>1, <3>3 DEF Apart
    <2>7. CASE e = c
      <3>1. batch'[b] = batch[b] /\ Live(b) /\ batch[b].session = s
        BY <2>5, <2>7 DEF Live
      <3>2. \E j \in batch[b].keys, k \in A : Source[j] = Source[k]
        BY <2>5, <2>7, <3>1 DEF SharesSource
      <3>3. now - batch[b].created >= CONTENT_COOLDOWN
        BY <2>3, <2>7, <3>1, <3>2, AdmitIsApart
      <3> QED BY <2>5, <2>7, <3>1, <3>3 DEF Apart
    <2>8. e = b \/ e = c BY <1>2, <2>0, <2>5
    <2> QED BY <2>6, <2>7, <2>8
  <1> QED BY <1>1, <1>2

\* The same source text does not wake a session twice within the cooldown,
\* whatever the delivery keys and however many reports repeat it.
THEOREM CooldownKept == Spec => []SourceCooldown
  <1>1. Init => SourceCooldown
    <2> SUFFICES ASSUME Init PROVE SourceCooldown OBVIOUS
    <2>1. \A b \in Batches : ~Live(b) BY DEF Init, NoRow, Live
    <2> QED BY <2>1 DEF SourceCooldown
  <1> QED BY <1>1, CooldownInductive, Invariant, PTL DEF Spec

-----------------------------------------------------------------------------
(* The refinement: what the ledger and its door do is WakeOnce.            *)

\* Without a live Bot Chat lane no hand-off is under way and none was lost.
NoHandoff ==
    /\ \A d \in Doors : door[d].pc # "handoff"
    /\ \A b \in Batches : lost[b] = 0

\* The reports batch b holds, as the consumption table tells.
ClaimedBy(b) == {k \in Keys : cons[k].state = "consumed" /\ cons[k].batch = b}

\* A row of the consumption table has one of three states.
LEMMA ConsumedIsHeld ==
  ASSUME IInv, NEW k \in Keys
  PROVE  /\ cons[k].state \in {"none", "consumed", "ignored"}
         /\ cons[k].state = "consumed" => cons[k].batch \in Batches
  BY DEF IInv, TypeOK, Claim, ClaimRows

\* Two maps over the reports are equal when they agree on every report.
LEMMA SamePhase ==
  ASSUME NEW f, \A k \in Keys : phaseOf'[k] = f[k], f = [k \in Keys |-> f[k]]
  PROVE  phaseOf' = f
  BY DEF phaseOf

LEMMA SameWoken ==
  ASSUME NEW f, \A k \in Keys : wokenOf'[k] = f[k], f = [k \in Keys |-> f[k]]
  PROVE  wokenOf' = f
  BY DEF wokenOf

\* A step that leaves the claims, the turns started and the closedness of
\* every batch alone is invisible to the abstract specification.
LEMMA InvisibleStep ==
  ASSUME cons' = cons, fired' = fired, IInv, TypeOK',
         \A b \in Batches : batch'[b].state \in ClosedStates
                               <=> batch[b].state \in ClosedStates
  PROVE  UNCHANGED Once!vars
  <1>1. ASSUME NEW k \in Keys
        PROVE  phaseOf'[k] = phaseOf[k] /\ wokenOf'[k] = wokenOf[k]
    BY ConsumedIsHeld DEF IInv, ClaimRows, phaseOf, wokenOf
  <1>2. phaseOf' = phaseOf BY <1>1, SamePhase DEF phaseOf
  <1>3. wokenOf' = wokenOf BY <1>1, SameWoken DEF wokenOf
  <1> QED BY <1>2, <1>3 DEF Once!vars

\* Closing a batch closes the claims it holds.
LEMMA CloseStep ==
  ASSUME IInv, NEW b \in Batches, batch[b].state \in OpenStates,
         batch'[b].state \in ClosedStates,
         \A c \in Batches : c # b => batch'[c] = batch[c],
         cons' = cons, fired' = fired
  PROVE  Once!Next
  <1> DEFINE A == ClaimedBy(b)
  <1>0. ASSUME NEW k \in Keys
        PROVE  /\ k \in A => phaseOf[k] = "held" /\ phaseOf'[k] = "closed"
               /\ k \notin A => phaseOf'[k] = phaseOf[k]
               /\ wokenOf'[k] = wokenOf[k]
    BY ConsumedIsHeld DEF IInv, ClaimRows, phaseOf, wokenOf, ClaimedBy, OpenStates, ClosedStates
  <1>1. A \subseteq Keys BY DEF ClaimedBy
  <1>2. \A k \in A : phaseOf[k] = "held" BY <1>0, <1>1
  <1>3. phaseOf' = [k \in Keys |-> IF k \in A THEN "closed" ELSE phaseOf[k]]
    BY <1>0 DEF phaseOf
  <1>4. wokenOf' = wokenOf BY <1>0, SameWoken DEF wokenOf
  <1>5. Once!Close(A) BY <1>2, <1>3, <1>4 DEF Once!Close, Once!Move
  <1> QED BY <1>1, <1>5 DEF Once!Next

\* admit claims the reports of the new batch and ignores others.
LEMMA AdmitIsClaim ==
  ASSUME IInv, NoHandoff, NEW S \in SUBSET Keys, NEW s \in Sessions,
         NEW A \in SUBSET S, NEW b \in Batches, NEW o \in Owners, Admit(S, s, A, b, o)
  PROVE  Once!Next
  <1> DEFINE I == IgnoredBy(S, s)
  <1>1. /\ batch' = [batch EXCEPT ![b] = NewBatch(s, A, o)]
        /\ cons' = RecordClaims(I, A, b)
        /\ batch[b].state = "none" /\ fired' = fired
    BY DEF Admit, AdmitEffect, doorVars
  <1>2. /\ I \subseteq Keys /\ A \subseteq Keys /\ I \cap A = {}
        /\ \A k \in A \cup I : cons[k].state = "none"
    BY DEF Admit, BatchChoices, Claimable, IgnoredBy, Fresh
  <1>3. fired[b] = 0 BY <1>1 DEF IInv, Launches, NoHandoff
  <1>4. batch'[b].state = "reserved" /\ \A c \in Batches : c # b => batch'[c] = batch[c]
    BY <1>1 DEF NewBatch, IInv, TypeOK
  <1>5. ASSUME NEW k \in Keys
        PROVE  /\ k \in I => phaseOf'[k] = "ignored" /\ phaseOf[k] = "free"
               /\ k \in A => phaseOf'[k] = "held" /\ phaseOf[k] = "free"
               /\ k \notin I /\ k \notin A => phaseOf'[k] = phaseOf[k]
               /\ wokenOf'[k] = wokenOf[k]
    BY <1>1, <1>2, <1>3, <1>4, ConsumedIsHeld DEF IInv, ClaimRows, ClaimsAgree, Live, RecordClaims,
       phaseOf, wokenOf, ClosedStates
  <1>6. phaseOf' = [k \in Keys |-> IF k \in I THEN "ignored"
                                   ELSE IF k \in A THEN "held" ELSE phaseOf[k]]
    BY <1>2, <1>5 DEF phaseOf
  <1>7. wokenOf' = wokenOf BY <1>5, SameWoken DEF wokenOf
  <1>8. Once!Claim(A, I) BY <1>2, <1>5, <1>6, <1>7 DEF Once!Claim
  <1> QED BY <1>2, <1>8 DEF Once!Next

LEMMA AdmitEmptyIsClaim ==
  ASSUME IInv, NEW S \in SUBSET Keys, NEW s \in Sessions, AdmitEmpty(S, s)
  PROVE  Once!Next
  <1> DEFINE I == IgnoredBy(S, s)
  <1>1. cons' = RecordClaims(I, {}, NoBatch) /\ batch' = batch /\ fired' = fired
    BY DEF AdmitEmpty, doorVars
  <1>2. I \subseteq Keys /\ \A k \in I : cons[k].state = "none"
    BY DEF IgnoredBy, Fresh
  <1>3. ASSUME NEW k \in Keys
        PROVE  /\ k \in I => phaseOf'[k] = "ignored" /\ phaseOf[k] = "free"
               /\ k \notin I => phaseOf'[k] = phaseOf[k]
               /\ wokenOf'[k] = wokenOf[k]
    BY <1>1, <1>2 DEF RecordClaims, phaseOf, wokenOf
  <1>4. phaseOf' = [k \in Keys |-> IF k \in I THEN "ignored"
                                   ELSE IF k \in {} THEN "held" ELSE phaseOf[k]]
    BY <1>2, <1>3 DEF phaseOf
  <1>5. wokenOf' = wokenOf BY <1>3, SameWoken DEF wokenOf
  <1>6. Once!Claim({}, I) BY <1>2, <1>3, <1>4, <1>5 DEF Once!Claim
  <1> QED BY <1>2, <1>6 DEF Once!Next

\* release gives the claims of a batch back: nothing was started for them.
LEMMA ReleaseIsGiveBack ==
  ASSUME IInv, NoHandoff, NEW b \in Batches, Release(b)
  PROVE  Once!Next
  <1> DEFINE A == ClaimedBy(b)
  <1>1. /\ batch[b].state = "reserved" /\ fired' = fired
        /\ cons' = [k \in Keys |-> IF cons[k].batch = b THEN NoClaim ELSE cons[k]]
        /\ \A c \in Batches : c # b => batch'[c] = batch[c]
    BY DEF Release, ReleaseEffect, doorVars, IInv, TypeOK
  <1>2. fired[b] = 0 BY <1>1 DEF IInv, Launches, NoHandoff
  <1>3. ASSUME NEW k \in Keys
        PROVE  /\ k \in A => phaseOf[k] = "held" /\ wokenOf[k] = 0 /\ phaseOf'[k] = "free"
               /\ k \notin A => phaseOf'[k] = phaseOf[k]
               /\ wokenOf'[k] = wokenOf[k]
    <2>1. /\ cons[k].state = "consumed" => cons[k].batch \in Batches
          /\ cons[k].state # "consumed" => cons[k].batch # b
      BY NullsAreNoIds DEF IInv, ClaimRows, NoBatch
    <2>2. cons'[k] = IF k \in A THEN NoClaim ELSE cons[k]
      BY <1>1, <2>1 DEF ClaimedBy
    <2>3. CASE k \in A
      BY <1>1, <1>2, <2>2, <2>3 DEF ClaimedBy, phaseOf, wokenOf, ClosedStates, NoClaim
    <2>4. CASE k \notin A
      BY <1>1, <2>1, <2>2, <2>4, ConsumedIsHeld DEF ClaimedBy, phaseOf, wokenOf
    <2> QED BY <2>3, <2>4
  <1>4. A \subseteq Keys BY DEF ClaimedBy
  <1>5. phaseOf' = [k \in Keys |-> IF k \in A THEN "free" ELSE phaseOf[k]]
    BY <1>3 DEF phaseOf
  <1>6. wokenOf' = wokenOf BY <1>3, SameWoken DEF wokenOf
  <1>7. Once!GiveBack(A) BY <1>3, <1>4, <1>5, <1>6 DEF Once!GiveBack, Once!Move
  <1> QED BY <1>4, <1>7 DEF Once!Next

\* The task of a stamped run is the one turn of the claims behind it.
LEMMA LaunchIsWake ==
  ASSUME IInv, NoHandoff, NEW d \in Doors, Launch(d)
  PROVE  Once!Next
  <1> DEFINE b == door[d].batch
             A == ClaimedBy(b)
  <1>1. /\ door[d].pc = "stamped" /\ cons' = cons /\ batch' = batch
        /\ fired' = [fired EXCEPT ![b] = @ + 1]
    BY DEF Launch, ledgerVars
  <1>2. b \in Batches BY <1>1 DEF IInv, DoorHolds, TypeOK, DoorRow
  <1>3. fired[b] = 0 BY <1>1, <1>2 DEF IInv, Launches, NoHandoff
  <1>4. fired'[b] = 1 /\ \A c \in Batches : c # b => fired'[c] = fired[c]
    BY <1>1, <1>2, <1>3 DEF IInv, TypeOK
  <1>5. ASSUME NEW k \in Keys
        PROVE  /\ k \in A => phaseOf[k] \in {"held", "closed"} /\ wokenOf[k] = 0
                             /\ wokenOf'[k] = 1
               /\ k \notin A => wokenOf'[k] = wokenOf[k]
               /\ phaseOf'[k] = phaseOf[k]
    BY <1>1, <1>3, <1>4 DEF IInv, ClaimRows, ClaimedBy, phaseOf, wokenOf
  <1>6. A \subseteq Keys BY DEF ClaimedBy
  <1>7. wokenOf' = [k \in Keys |-> IF k \in A THEN 1 ELSE wokenOf[k]]
    BY <1>5 DEF wokenOf
  <1>8. phaseOf' = phaseOf BY <1>5, SamePhase DEF phaseOf
  <1>9. Once!Wake(A) BY <1>5, <1>6, <1>7, <1>8 DEF Once!Wake
  <1> QED BY <1>6, <1>9 DEF Once!Next

\* Retention forgets the claims of closed batches only.
LEMMA PruneIsForget ==
  ASSUME IInv, Prune
  PROVE  Once!Next
  <1> DEFINE A == {k \in Keys : cons[k].batch \in Expired}
  <1>1. /\ cons' = [k \in Keys |-> IF cons[k].batch \in Expired THEN NoClaim ELSE cons[k]]
        /\ \A c \in Batches : c \notin Expired => batch'[c] = batch[c]
        /\ fired' = fired
    BY DEF Prune, doorVars
  <1>2. Expired \subseteq Batches /\ \A b \in Expired : batch[b].state \in ClosedStates
    BY DEF Expired
  <1>3. ASSUME NEW k \in Keys
        PROVE  /\ k \in A => phaseOf[k] = "closed" /\ phaseOf'[k] = "free"
                             /\ wokenOf'[k] = 0
               /\ k \notin A => phaseOf'[k] = phaseOf[k] /\ wokenOf'[k] = wokenOf[k]
    BY <1>2, NullsAreNoIds, <1>1, ConsumedIsHeld DEF IInv, ClaimRows, NoBatch, phaseOf, wokenOf,
       NoClaim
  <1>4. phaseOf' = [k \in Keys |-> IF k \in A THEN "free" ELSE phaseOf[k]]
    BY <1>3 DEF phaseOf
  <1>5. wokenOf' = [k \in Keys |-> IF k \in A THEN 0 ELSE wokenOf[k]]
    BY <1>3 DEF wokenOf
  <1>6. Once!Forget(A) BY <1>3, <1>4, <1>5 DEF Once!Forget, Once!Move, Once!Clear
  <1> QED BY <1>6 DEF Once!Next

\* Only the live Bot Chat lane hands a turn over.
LEMMA NoHandoffInductive ==
  ASSUME LiveBotChat = FALSE, IInv, NoHandoff, [Next]_vars
  PROVE  NoHandoff'
  <1>0. ASSUME UNCHANGED lost, \A d \in Doors : door'[d].pc # "handoff" PROVE NoHandoff'
    BY <1>0 DEF NoHandoff
  <1>1. ASSUME UNCHANGED <<door, lost>> PROVE NoHandoff'
    BY <1>1 DEF NoHandoff
  <1>2. ASSUME NEW d \in Doors, NEW b \in Batches, Gate(d, b) PROVE NoHandoff'
    BY <1>2, <1>0 DEF Gate, NoHandoff, IInv, TypeOK
  <1>3. ASSUME NEW d \in Doors,
               \/ DoorRejects(d) \/ StampRun(d) \/ Launch(d) \/ StreamReturns(d)
               \/ StreamRaises(d) \/ SettleReads(d) \/ SettleActs(d)
        PROVE  NoHandoff'
    BY <1>3, <1>0 DEF DoorRejects, StampRun, Launch, StreamReturns, StreamRaises, SettleReads,
       SettleActs, IInv, TypeOK, DoorRow, IdleDoor, NoHandoff
  <1>4. ASSUME NEW d \in Doors, HandoffStarts(d) \/ HandoffReturns(d) \/ HandoffRaises(d)
        PROVE  FALSE
    BY <1>4 DEF HandoffStarts, HandoffReturns, HandoffRaises, NoHandoff
  <1>5. ASSUME Crash PROVE NoHandoff'
    BY <1>0, <1>5 DEF Crash, IdleDoor
  <1>6. ASSUME Tick \/ (\E k \in Keys : ReportArrives(k)) \/ AdmitStep \/ ClientStep \/ Prune
        PROVE  UNCHANGED <<door, lost>>
    BY <1>6 DEF Tick, ReportArrives, AdmitStep, AdmitEmpty, Admit, ClientStep, Report,
                Release, ReconcileBatch, Prune, doorVars
  <1>7. ASSUME NEW b \in Batches, RunEnds(b) PROVE NoHandoff'
    BY <1>1, <1>7 DEF RunEnds
  <1>8. ASSUME UNCHANGED vars PROVE NoHandoff'
    BY <1>1, <1>8 DEF vars
  <1> QED BY <1>1, <1>2, <1>3, <1>4, <1>5, <1>6, <1>7, <1>8 DEF Next, DoorStep

\* The transitions of report seen through the mapping.
LEMMA TransitionMaps ==
  ASSUME IInv, TypeOK', NEW b \in Batches, UNCHANGED <<cons, fired>>,
         \/ ToAccepted(b) \/ (\E t : TerminalAt(b, t)) \/ ToUncertain(b)
         \/ DispatchFailed(b) \/ UNCHANGED batch
  PROVE  Once!Next \/ UNCHANGED Once!vars
  <1>0. \A c \in Batches : c # b => batch'[c] = batch[c]
    BY DEF ToAccepted, TerminalAt, ToUncertain, DispatchFailed, IInv, TypeOK
  <1>1. CASE (\E t : TerminalAt(b, t)) \/ ToUncertain(b)
    BY <1>1, <1>0, CloseStep DEF TerminalAt, ToUncertain, IInv, TypeOK, BatchRow, ClosedStates
  <1>2. CASE ToAccepted(b) \/ DispatchFailed(b) \/ UNCHANGED batch
    <2>1. batch'[b].state \in ClosedStates <=> batch[b].state \in ClosedStates
      BY <1>2 DEF ToAccepted, DispatchFailed, IInv, TypeOK, BatchRow, ClosedStates
    <2> QED BY <1>0, <2>1, InvisibleStep
  <1> QED BY <1>1, <1>2

\* Every step of the ledger and its door is a step of WakeOnce or none.
LEMMA StepMaps ==
  ASSUME LiveBotChat = FALSE, IInv, IInv', NoHandoff, [Next]_vars
  PROVE  Once!Next \/ UNCHANGED Once!vars
  <1>a. TypeOK /\ TypeOK' BY DEF IInv
  <1>0. ASSUME UNCHANGED <<batch, cons, fired>> PROVE UNCHANGED Once!vars
    BY <1>a, <1>0, InvisibleStep
  <1>1. ASSUME Tick \/ (\E k \in Keys : ReportArrives(k)) \/ Crash \/ UNCHANGED vars
               \/ \E b \in Batches : RunEnds(b)
        PROVE  UNCHANGED Once!vars
    BY <1>1, <1>0 DEF Tick, ReportArrives, Crash, RunEnds, vars, ledgerVars
  <1>2. ASSUME AdmitStep PROVE Once!Next
    <2>1. PICK s \in Sessions, o \in Owners, S \in SUBSET Keys :
              \/ AdmitEmpty(S, s)
              \/ \E A \in SUBSET S, b \in Batches : Admit(S, s, A, b, o)
      BY <1>2 DEF AdmitStep
    <2> QED BY <2>1, AdmitIsClaim, AdmitEmptyIsClaim
  <1>3. ASSUME NEW b \in Batches, Report(b) \/ Release(b) \/ ReconcileBatch(b)
        PROVE  Once!Next \/ UNCHANGED Once!vars
    BY <1>a, TransitionMaps, ReleaseIsGiveBack, <1>3 DEF Report, ToTerminal, doorVars, ReconcileBatch
  <1>4. ASSUME NEW d \in Doors, NEW b \in Batches, Gate(d, b)
        PROVE  UNCHANGED Once!vars
    BY <1>4, <1>a, InvisibleStep DEF Gate, TypeOK, BatchRow, ClosedStates
  <1>5. ASSUME NEW d \in Doors, Launch(d) PROVE Once!Next
    BY <1>5, LaunchIsWake
  <1>6. ASSUME NEW d \in Doors, SettleActs(d) PROVE Once!Next \/ UNCHANGED Once!vars
    <2> DEFINE b == door[d].batch
    <2>1. b \in Batches
      BY <1>6 DEF SettleActs, IInv, DoorHolds, TypeOK, DoorRow
    <2>2. /\ UNCHANGED <<cons, fired>>
          /\ \/ ToAccepted(b) \/ ToTerminal(b) \/ ToUncertain(b)
             \/ DispatchFailed(b) \/ UNCHANGED batch
      BY <1>6 DEF SettleActs
    <2> QED BY <1>a, <2>1, <2>2, TransitionMaps DEF ToTerminal
  <1>7. ASSUME NEW d \in Doors,
               \/ DoorRejects(d) \/ HandoffStarts(d) \/ HandoffReturns(d)
               \/ HandoffRaises(d) \/ StampRun(d) \/ StreamReturns(d)
               \/ StreamRaises(d) \/ SettleReads(d)
        PROVE  UNCHANGED Once!vars
    BY <1>7, <1>0 DEF DoorRejects, HandoffStarts, HandoffReturns, HandoffRaises, StampRun,
       StreamReturns, StreamRaises, SettleReads, ledgerVars, NoHandoff
  <1>8. ASSUME Prune PROVE Once!Next BY <1>8, PruneIsForget
  <1> QED BY <1>1, <1>2, <1>3, <1>4, <1>5, <1>6, <1>7, <1>8
          DEF Next, ClientStep, DoorStep

LEMMA InitMaps ==
  ASSUME Init
  PROVE  Once!Init /\ NoHandoff
  BY DEF Init, phaseOf, NoClaim, wokenOf, NoHandoff, IdleDoor, Once!Init

\* admit, release, report, gate_dispatch, _settle, retention and a crash, in
\* any order, add up to one wake per claim: on a host without a live Bot Chat
\* lane the ledger and its door implement WakeOnce.
THEOREM ImplementsOnce ==
  ASSUME LiveBotChat = FALSE
  PROVE  Spec => ImplementsWakeOnce
  <1>1. Init => Once!Init /\ NoHandoff BY InitMaps
  <1>2. IInv /\ NoHandoff /\ [Next]_vars => NoHandoff' BY NoHandoffInductive
  <1>3. IInv /\ IInv' /\ NoHandoff /\ [Next]_vars => [Once!Next]_(Once!vars)
    BY StepMaps
  <1> QED BY <1>1, <1>2, <1>3, Invariant, PTL DEF Spec, ImplementsWakeOnce, Once!Spec
=============================================================================
