-------------------------- MODULE CronBridgeProofs --------------------------
(* Safety of the cron bridge for every number of reports, texts, calls,     *)
(* drainers and crashes.                                                    *)
EXTENDS CronBridge, TLAPS

\* A row is written once and never goes away.
RowCount == \A k \in Reports : inserts[k] = IF row[k] = NoContent THEN 0 ELSE 1

\* What a process remembers of its attempt is still true when it acts on it.
Remembered ==
    \A p \in Procs :
        /\ task[p].pc = "ack" /\ task[p].outcome \in {"delivered", "dedup"} =>
              row[task[p].job.key] = task[p].job.content
        /\ task[p].pc = "echo" => row[task[p].job.key] # NoContent

IInv == TypeOK /\ RowCount /\ DeliveredIsCommitted /\ NoOrphan /\ Remembered

-----------------------------------------------------------------------------
(* Types.                                                                  *)

LEMMA NoRows == /\ NoPending \in PendingRow
                /\ NoReceipt \in ReceiptRow
                /\ NoContent \notin Contents
  BY NullIsNoContent DEF NoPending, PendingRow, NoReceipt, ReceiptRow, NoContent

LEMMA PendingUpdates ==
  ASSUME NEW r \in PendingRow, NEW n \in Nat, NEW d \in BOOLEAN
  PROVE  /\ [r EXCEPT !.due = d] \in PendingRow
         /\ [r EXCEPT !.attempts = n, !.due = d] \in PendingRow
  BY DEF PendingRow

LEMMA ReceiptUpdates ==
  ASSUME NEW r \in ReceiptRow, NEW s \in {"none", "queued", "delivered", "failed"},
         NEW c \in Contents \cup {NoContent}, NEW e \in {"none", "intent-failed", "other"}
  PROVE  ReceiptAs(r, s, c, e) \in ReceiptRow
  BY DEF ReceiptRow, ReceiptAs

LEMMA TaskShape ==
  ASSUME TypeOK, NEW p \in Procs
  PROVE  /\ task[p].pc # "idle" => /\ task[p] \in TaskRow
                                   /\ task[p].job \in Job
                                   /\ task[p].job.key \in Reports
                                   /\ task[p].job.content \in Contents
                                   /\ task[p].job.attempts \in Nat
         /\ task[p] # Idle => task[p] \in TaskRow
  BY DEF TypeOK, TaskRow, Job, Idle

LEMMA TaskSteps ==
  ASSUME TypeOK, NEW p \in Procs, NEW j \in Job, NEW o \in Outcomes
  PROVE  /\ [pc |-> "ack", job |-> j, outcome |-> o] \in TaskRow
         /\ [pc |-> "spooled", outcome |-> o, job |-> j] \in TaskRow
         /\ [task EXCEPT ![p] = Idle] \in [Procs -> TaskRow \cup {Idle}]
  BY DEF TaskRow, TypeOK

LEMMA ProcsSplit == Senders \subseteq Procs /\ Drainers \subseteq Procs
  BY DEF Procs

LEMMA InitType == Init => TypeOK
  <1> SUFFICES ASSUME Init PROVE TypeOK OBVIOUS
  <1>1. mode \in Modes /\ based \in BOOLEAN /\ seen \in Modes \cup {"unknown"}
    BY Bounds DEF Init, Modes
  <1>2. task \in [Procs -> TaskRow \cup {Idle}] /\ todo \in [Procs -> SUBSET Job]
    BY DEF Init
  <1> QED BY <1>1, <1>2, NoRows DEF Init, TypeOK, IntentStates

LEMMA AttemptType ==
  ASSUME TypeOK, NEW p \in Procs, NEW j \in Job, Attempt(p, j)
  PROVE  /\ task' \in [Procs -> TaskRow \cup {Idle}]
         /\ row' \in [Reports -> Contents \cup {NoContent}]
         /\ inserts' \in [Reports -> Nat]
  <1>1. PICK o \in AttemptOutcomes(j) :
          /\ task' = [task EXCEPT ![p] = [pc |-> "ack", job |-> j, outcome |-> o]]
          /\ row' = IF o = "delivered" THEN [row EXCEPT ![j.key] = j.content] ELSE row
          /\ inserts' = IF o = "delivered" THEN [inserts EXCEPT ![j.key] = @ + 1] ELSE inserts
    BY DEF Attempt
  <1>2. o \in Outcomes BY DEF AttemptOutcomes, Outcomes
  <1>3. [pc |-> "ack", job |-> j, outcome |-> o] \in TaskRow BY <1>2, TaskSteps
  <1>4. j.key \in Reports /\ j.content \in Contents BY DEF Job
  <1>5. task' \in [Procs -> TaskRow \cup {Idle}] BY <1>1, <1>3 DEF TypeOK
  <1>6. row' \in [Reports -> Contents \cup {NoContent}] BY <1>1, <1>4 DEF TypeOK
  <1>7. inserts' \in [Reports -> Nat] BY <1>1, <1>4 DEF TypeOK
  <1> QED BY <1>5, <1>6, <1>7

LEMMA AckType ==
  ASSUME TypeOK, NEW j \in Job,
         \/ \E f \in BOOLEAN : AckDelivered(j, f)
         \/ AckPermanent(j) \/ AckQueued(j) \/ AckRetry(j)
  PROVE  /\ pending' \in [Reports -> PendingRow]
         /\ receipt' \in [Reports -> ReceiptRow]
         /\ intent' \in [Reports -> IntentStates]
         /\ passed' \subseteq Reports /\ gap' \subseteq Reports /\ offEra' \subseteq Reports
         /\ based' \in BOOLEAN
  <1>0. j.key \in Reports /\ j.content \in Contents /\ j.attempts + 1 \in Nat BY DEF Job
  <1>1. /\ [pending EXCEPT ![j.key] = NoPending] \in [Reports -> PendingRow]
        /\ [pending EXCEPT ![j.key].due = FALSE] \in [Reports -> PendingRow]
        /\ [pending EXCEPT ![j.key].attempts = j.attempts + 1, ![j.key].due = FALSE]
              \in [Reports -> PendingRow]
    BY <1>0, PendingUpdates, NoRows DEF TypeOK
  <1>2. /\ ReceiptAs(receipt[j.key], "delivered", j.content, "none") \in ReceiptRow
        /\ ReceiptAs(receipt[j.key], "delivered", j.content, "intent-failed") \in ReceiptRow
        /\ ReceiptAs(receipt[j.key], "failed", NoContent, "other") \in ReceiptRow
        /\ ReceiptAs(receipt[j.key], "queued", NoContent, "none") \in ReceiptRow
    BY <1>0, ReceiptUpdates DEF TypeOK
  <1>3. CASE AckPermanent(j) BY <1>0, <1>1, <1>2, <1>3 DEF AckPermanent, TypeOK
  <1>4. CASE AckQueued(j) BY <1>0, <1>1, <1>2, <1>4 DEF AckQueued, TypeOK
  <1>5. CASE AckRetry(j)
    BY <1>3, <1>1, <1>5 DEF AckRetry, TypeOK
  <1>6. ASSUME NEW f \in BOOLEAN, AckDelivered(j, f) PROVE
            /\ pending' \in [Reports -> PendingRow]
            /\ receipt' \in [Reports -> ReceiptRow]
            /\ intent' \in [Reports -> IntentStates]
            /\ passed' \subseteq Reports /\ gap' \subseteq Reports /\ offEra' \subseteq Reports
            /\ based' \in BOOLEAN
    <2>1. pending' \in [Reports -> PendingRow] BY <1>1, <1>6 DEF AckDelivered
    <2>2. receipt' \in [Reports -> ReceiptRow] BY <1>2, <1>6 DEF AckDelivered, TypeOK
    <2>3. IntentFor(j.key) \in IntentStates BY <1>0 DEF IntentFor, TypeOK, IntentStates
    <2>4. intent' \in [Reports -> IntentStates] BY <2>3, <1>6 DEF AckDelivered, TypeOK
    <2>5. Baseline => passed' \subseteq Reports /\ based' \in BOOLEAN
      BY DEF Baseline, TypeOK, Committed
    <2>6. passed' \subseteq Reports /\ based' \in BOOLEAN
      BY <1>6, <2>5 DEF AckDelivered, TypeOK
    <2>7. gap' \subseteq Reports /\ offEra' \subseteq Reports
      BY <1>0, <1>6 DEF AckDelivered, TypeOK
    <2> QED BY <2>1, <2>2, <2>4, <2>6, <2>7
  <1> QED BY <1>3, <1>4, <1>5, <1>6

LEMMA TypeInductive == TypeOK /\ [Next]_vars => TypeOK'
  <1> SUFFICES ASSUME TypeOK, [Next]_vars PROVE TypeOK' OBVIOUS
  <1>0. ASSUME UNCHANGED vars PROVE TypeOK' BY <1>0 DEF vars, TypeOK
  <1>1. ASSUME NEW p \in Senders, NEW k \in Reports, NEW c \in Contents, Deliver(p, k, c)
        PROVE  TypeOK'
    <2>1. [key |-> k, content |-> c, attempts |-> 0] \in Job BY DEF Job
    <2>2. task' \in [Procs -> TaskRow \cup {Idle}]
      BY <1>1, <2>1, TaskSteps, ProcsSplit DEF Deliver, TypeOK, Outcomes
    <2>3. [content |-> c, attempts |-> 0, due |-> TRUE] \in PendingRow BY DEF PendingRow
    <2>4. pending' \in [Reports -> PendingRow] BY <1>1, <2>3 DEF Deliver, TypeOK
    <2>5. used' \in [{"calls", "crashes", "edits", "retired"} -> Nat]
      BY <1>1 DEF Deliver, TypeOK
    <2> QED BY <1>1, <2>2, <2>4, <2>5 DEF Deliver, TypeOK, wake
  <1>2. ASSUME NEW p \in Senders, ReadReceipt(p) PROVE TypeOK'
    BY <1>2, TaskShape, ProcsSplit DEF ReadReceipt, TaskRow, TypeOK, tables, wake
  <1>3. ASSUME NEW p \in Senders, EchoDrops(p) PROVE TypeOK'
    BY <1>3, NoRows DEF EchoDrops, TypeOK, wake
  <1>4. ASSUME NEW p \in Senders, SenderAttempts(p) PROVE TypeOK'
    BY <1>4, TaskShape, ProcsSplit, AttemptType DEF SenderAttempts, Attempt, TypeOK, tables, wake
  <1>5. ASSUME NEW p \in Procs, Ack(p) PROVE TypeOK'
    <2> DEFINE j == task[p].job
    <2>1. j \in Job BY <1>5, TaskShape DEF Ack
    <2>2. \/ \E f \in BOOLEAN : AckDelivered(j, f)
          \/ AckPermanent(j) \/ AckQueued(j) \/ AckRetry(j)
      BY <1>5 DEF Ack
    <2>3. /\ UNCHANGED <<row, inserts, mode, seen, todo, used>>
          /\ task' = [task EXCEPT ![p] = Idle]
      BY <1>5 DEF Ack
    <2> HIDE DEF j
    <2>4. task' \in [Procs -> TaskRow \cup {Idle}] BY <2>3 DEF TypeOK
    <2> QED BY <2>1, <2>2, <2>3, <2>4, AckType DEF TypeOK
  <1>6. ASSUME NEW p \in Drainers, DrainSelects(p) PROVE TypeOK'
    <2>1. DueJobs \subseteq Job
      BY DEF DueJobs, Job, TypeOK, PendingRow, Spooled
    <2> QED BY <1>6, <2>1 DEF DrainSelects, TypeOK, tables, wake
  <1>7. ASSUME NEW p \in Drainers, DrainAttempts(p) PROVE TypeOK'
    <2>1. PICK j \in todo[p] : Attempt(p, j) /\ todo' = [todo EXCEPT ![p] = @ \ {j}]
      BY <1>7 DEF DrainAttempts
    <2>2. p \in Procs /\ j \in Job BY ProcsSplit DEF TypeOK
    <2>3. todo' \in [Procs -> SUBSET Job] BY <2>1 DEF TypeOK
    <2>4. UNCHANGED <<tables, wake, gap, offEra, used>> BY <2>1 DEF Attempt
    <2> QED BY <2>1, <2>2, <2>3, <2>4, AttemptType DEF TypeOK, tables, wake
  <1>8. ASSUME NEW k \in Reports, BackoffElapses(k) PROVE TypeOK'
    BY <1>8, PendingUpdates DEF BackoffElapses, TypeOK, wake
  <1>9. ASSUME NEW k \in Reports, Retire(k) PROVE TypeOK'
    BY <1>9, NoRows DEF Retire, TypeOK, wake
  <1>10. ASSUME NEW m \in Modes, EditConfig(m) PROVE TypeOK'
    BY <1>10 DEF EditConfig, TypeOK, tables
  <1>11. ASSUME Tick PROVE TypeOK'
    BY <1>11 DEF Tick, TypeOK, IntentStates, Committed
  <1>12. ASSUME Reconcile PROVE TypeOK'
    BY <1>12 DEF Reconcile, TypeOK, IntentStates, ReceiptRow, Committed
  <1>13. ASSUME NEW P \in SUBSET Procs, Dies(P), seen' \in {seen, "unknown"} PROVE TypeOK'
    BY TaskShape, <1>13 DEF Unacked, Dies, TypeOK, tables
  <1>14. ASSUME GatewayCrash PROVE TypeOK'
    BY <1>13, <1>14 DEF GatewayCrash
  <1>15. ASSUME NEW p \in Standalone, SenderDies(p) PROVE TypeOK'
    BY <1>13, <1>15, Processes, ProcsSplit DEF SenderDies
  <1> QED
    BY <1>0, <1>1, <1>2, <1>3, <1>4, <1>5, <1>6, <1>7, <1>8, <1>9, <1>10, <1>11,
       <1>12, <1>14, <1>15 DEF Next

\* The tables and what the processes remember keep their types.
THEOREM TypeCorrect == Spec => []TypeOK
  BY InitType, TypeInductive, PTL DEF Spec

-----------------------------------------------------------------------------
(* The session database: one row per report, and it stays.                 *)

\* What any step does to the session database.
RowsKept == \A k \in Reports : /\ row[k] # NoContent => row'[k] = row[k]
                               /\ row'[k] = NoContent => inserts'[k] = inserts[k]
                               /\ row'[k] # NoContent =>
                                    inserts'[k] = inserts[k] + (IF row[k] = NoContent
                                                                THEN 1 ELSE 0)

LEMMA AttemptKeepsRows ==
  ASSUME TypeOK, NEW p \in Procs, NEW j \in Job, Attempt(p, j)
  PROVE  /\ RowsKept
         /\ task'[p].pc = "ack"
         /\ task'[p].outcome \in {"delivered", "dedup"} =>
               row'[task'[p].job.key] = task'[p].job.content
         /\ \A q \in Procs : q # p => task'[q] = task[q]
  <1>1. PICK o \in AttemptOutcomes(j) :
          /\ task' = [task EXCEPT ![p] = [pc |-> "ack", job |-> j, outcome |-> o]]
          /\ row' = IF o = "delivered" THEN [row EXCEPT ![j.key] = j.content] ELSE row
          /\ inserts' = IF o = "delivered" THEN [inserts EXCEPT ![j.key] = @ + 1] ELSE inserts
    BY DEF Attempt
  <1>2. j.key \in Reports /\ j.content \in Contents /\ j.content # NoContent
    BY NoRows DEF Job
  <1>3. o = "delivered" => row[j.key] = NoContent BY DEF AttemptOutcomes
  <1>4. o = "dedup" => row[j.key] = j.content BY DEF AttemptOutcomes
  <1>5. /\ task'[p] = [pc |-> "ack", job |-> j, outcome |-> o]
        /\ \A q \in Procs : q # p => task'[q] = task[q]
    BY <1>1 DEF TypeOK
  <1>6. RowsKept
    <2>1. CASE o = "delivered"
      BY <1>1, <2>1, <1>2, <1>3 DEF TypeOK, RowsKept
    <2>2. CASE o # "delivered"
      BY <1>1, <2>2 DEF TypeOK, RowsKept
    <2> QED BY <2>1, <2>2
  <1>7. o = "delivered" => row'[j.key] = j.content BY <1>1, <1>2 DEF TypeOK
  <1>8. o = "dedup" => row'[j.key] = j.content BY <1>1, <1>4
  <1> QED BY <1>5, <1>6, <1>7, <1>8

LEMMA RowsAlwaysKept == TypeOK /\ [Next]_vars => RowsKept
  <1> SUFFICES ASSUME TypeOK, [Next]_vars PROVE RowsKept OBVIOUS
  <1>1. ASSUME UNCHANGED <<row, inserts>> PROVE RowsKept
    BY <1>1 DEF RowsKept, TypeOK
  <1>2. ASSUME NEW p \in Senders, SenderAttempts(p) PROVE RowsKept
    BY <1>2, TaskShape, ProcsSplit, AttemptKeepsRows DEF SenderAttempts
  <1>3. ASSUME NEW p \in Drainers, DrainAttempts(p) PROVE RowsKept
    <2>1. PICK j \in todo[p] : Attempt(p, j) BY <1>3 DEF DrainAttempts
    <2>2. p \in Procs /\ j \in Job BY ProcsSplit DEF TypeOK
    <2> QED BY <2>1, <2>2, AttemptKeepsRows
  <1>4. \/ UNCHANGED <<row, inserts>>
        \/ \E p \in Senders : SenderAttempts(p)
        \/ \E p \in Drainers : DrainAttempts(p)
    BY DEF Next, vars, Deliver, ReadReceipt, EchoDrops, Ack, DrainSelects, BackoffElapses,
       Retire, EditConfig, Tick, Reconcile, GatewayCrash, SenderDies, Dies
  <1> QED BY <1>1, <1>2, <1>3, <1>4

-----------------------------------------------------------------------------
(* Receipts and processes agree with the session database.                 *)

LEMMA RememberedInductive ==
  ASSUME IInv, [Next]_vars
  PROVE  Remembered'
  <1>a. TypeOK /\ Remembered /\ DeliveredIsCommitted /\ RowsKept
    BY RowsAlwaysKept DEF IInv
  <1>b. ASSUME NEW p \in Procs, task'[p] = task[p]
        PROVE  /\ task'[p].pc = "ack" /\ task'[p].outcome \in {"delivered", "dedup"} =>
                     row'[task'[p].job.key] = task'[p].job.content
               /\ task'[p].pc = "echo" => row'[task'[p].job.key] # NoContent
    <2>1. CASE task[p].pc \in {"ack", "echo"}
      BY <1>a, <2>1, TaskShape, NoRows, <1>b DEF Remembered, RowsKept
    <2>2. CASE task[p].pc \notin {"ack", "echo"} BY <1>b, <2>2
    <2> QED BY <2>1, <2>2
  <1>c. ASSUME NEW p \in Procs, task'[p].pc \notin {"ack", "echo"}
        PROVE  /\ task'[p].pc = "ack" /\ task'[p].outcome \in {"delivered", "dedup"} =>
                     row'[task'[p].job.key] = task'[p].job.content
               /\ task'[p].pc = "echo" => row'[task'[p].job.key] # NoContent
    BY <1>c
  <1>d. Idle.pc \notin {"ack", "echo"} BY DEF Idle
  <1>1. ASSUME NEW p \in Senders, NEW k \in Reports, NEW c \in Contents, Deliver(p, k, c)
        PROVE  Remembered'
    BY <1>a, <1>1, <1>b, <1>c DEF Deliver, TypeOK, Remembered
  <1>2. ASSUME NEW p \in Senders, ReadReceipt(p) PROVE Remembered'
    <2> DEFINE j == task[p].job
    <2>1. task[p] \in TaskRow /\ j.key \in Reports
      BY <1>a, <1>2, TaskShape, ProcsSplit DEF ReadReceipt
    <2>2. \A q \in Procs : q # p => task'[q] = task[q]
      BY <1>a, <1>2 DEF ReadReceipt, TypeOK
    <2>3. CASE receipt[j.key].status = "delivered" /\ receipt[j.key].digest = j.content
      BY <1>2, <2>3, <1>a, <2>1, ProcsSplit, <1>b, <2>2 DEF ReadReceipt, TypeOK, TaskRow,
         DeliveredIsCommitted, RowsKept, Remembered
    <2>4. CASE ~(receipt[j.key].status = "delivered" /\ receipt[j.key].digest = j.content)
      BY <1>2, <2>4, <1>a, <2>1, ProcsSplit, <1>b, <1>c, <2>2 DEF ReadReceipt, TypeOK, TaskRow,
         Remembered
    <2> QED BY <2>3, <2>4
  <1>3. ASSUME NEW p \in Procs, task' = [task EXCEPT ![p] = Idle] PROVE Remembered'
    BY <1>a, <1>3, <1>b, <1>c, <1>d DEF TypeOK, Remembered
  <1>4. ASSUME NEW p \in Procs, NEW j \in Job, Attempt(p, j) PROVE Remembered'
    BY <1>a, <1>4, AttemptKeepsRows, <1>b DEF Remembered
  <1>5. ASSUME NEW p \in Senders, SenderAttempts(p) PROVE Remembered'
    BY <1>a, <1>5, TaskShape, ProcsSplit, <1>4 DEF SenderAttempts
  <1>6. ASSUME NEW p \in Drainers, DrainAttempts(p) PROVE Remembered'
    <2>1. PICK j \in todo[p] : Attempt(p, j) BY <1>6 DEF DrainAttempts
    <2>2. p \in Procs /\ j \in Job BY <1>a, ProcsSplit DEF TypeOK
    <2> QED BY <1>4, <2>1, <2>2
  <1>7. ASSUME NEW P, Dies(P) PROVE Remembered'
    BY <1>7, <1>b, <1>c, <1>d DEF Dies, Remembered
  <1>8. ASSUME UNCHANGED task PROVE Remembered'
    BY <1>b, <1>8 DEF Remembered
  <1>9. \/ UNCHANGED task
        \/ \E P : Dies(P)
        \/ \E p \in Procs : task' = [task EXCEPT ![p] = Idle]
        \/ \E p \in Senders : SenderAttempts(p) \/ ReadReceipt(p)
        \/ \E p \in Drainers : DrainAttempts(p)
        \/ \E p \in Senders, k \in Reports, c \in Contents : Deliver(p, k, c)
    BY ProcsSplit
    DEF Next, vars, EchoDrops, Ack, DrainSelects, BackoffElapses,
       Retire, EditConfig, Tick, Reconcile, GatewayCrash, SenderDies
  <1> QED BY <1>1, <1>2, <1>3, <1>5, <1>6, <1>7, <1>8, <1>9

LEMMA CountInductive ==
  ASSUME IInv, [Next]_vars
  PROVE  RowCount'
  <1>1. TypeOK /\ RowCount /\ RowsKept BY RowsAlwaysKept DEF IInv
  <1>2. SUFFICES ASSUME NEW k \in Reports
                 PROVE  inserts'[k] = IF row'[k] = NoContent THEN 0 ELSE 1
    BY DEF RowCount
  <1>3. inserts[k] = IF row[k] = NoContent THEN 0 ELSE 1 BY <1>1 DEF RowCount
  <1> QED BY <1>1, <1>3 DEF RowsKept

\* What an acknowledgement does to the receipt of its report, whatever it says.
LEMMA AckEffect ==
  ASSUME IInv, NEW p \in Procs, Ack(p)
  PROVE  LET j == task[p].job IN
         /\ j \in Job /\ j.key \in Reports
         /\ \A k \in Reports : k # j.key =>
               receipt'[k] = receipt[k] /\ pending'[k] = pending[k]
         /\ \/ /\ receipt'[j.key].status = "delivered"
               /\ receipt'[j.key].digest = row[j.key]
               /\ row[j.key] # NoContent
            \/ /\ receipt'[j.key].digest = receipt[j.key].digest
               /\ IF receipt[j.key].status = "delivered"
                  THEN receipt'[j.key].status = "delivered"
                  ELSE receipt'[j.key].status \in {receipt[j.key].status, "failed", "queued"}
         /\ \/ pending'[j.key] = NoPending /\ receipt'[j.key].status \in {"delivered", "failed"}
            \/ /\ Spooled(j.key) => pending'[j.key].content = pending[j.key].content
               /\ ~Spooled(j.key) => pending'[j.key] = pending[j.key]
               /\ pending'[j.key].attempts \in {pending[j.key].attempts, j.attempts + 1}
               /\ pending'[j.key].attempts # pending[j.key].attempts =>
                     pending'[j.key].attempts < DRAIN_MAX_ATTEMPTS
  <1> DEFINE j == task[p].job
  <1>1. j \in Job /\ j.key \in Reports /\ j.content \in Contents /\ j.attempts \in Nat
    BY TaskShape DEF Ack, IInv
  <1>2. TypeOK /\ pending[j.key] \in PendingRow /\ receipt[j.key] \in ReceiptRow
    BY <1>1 DEF IInv, TypeOK
  <1>3. task[p].outcome \in {"delivered", "dedup"} => row[j.key] = j.content
    BY DEF Ack, IInv, Remembered
  <1>4. j.content # NoContent BY <1>1, NoRows
  <1>5. ASSUME AckPermanent(j)
        PROVE  /\ \A k \in Reports : k # j.key =>
                     receipt'[k] = receipt[k] /\ pending'[k] = pending[k]
               /\ receipt'[j.key].digest = receipt[j.key].digest
               /\ receipt'[j.key].status =
                     IF receipt[j.key].status = "delivered" THEN "delivered" ELSE "failed"
               /\ pending'[j.key] = NoPending
    BY <1>1, <1>2, <1>5 DEF AckPermanent, ReceiptAs, TypeOK
  <1>6. CASE task[p].outcome \in {"delivered", "dedup"}
    <2>1. PICK f \in BOOLEAN : AckDelivered(j, f) BY <1>6 DEF Ack
    <2>2. /\ pending' = [pending EXCEPT ![j.key] = NoPending]
          /\ \E e \in {"none", "intent-failed"} : receipt' = [receipt EXCEPT ![j.key] =
                ReceiptAs(@, "delivered", j.content, e)]
      BY <2>1 DEF AckDelivered
    <2>3. /\ \A k \in Reports : k # j.key =>
                receipt'[k] = receipt[k] /\ pending'[k] = pending[k]
          /\ receipt'[j.key].status = "delivered" /\ receipt'[j.key].digest = j.content
          /\ pending'[j.key] = NoPending
      BY <1>1, <1>2, <1>4, <2>2 DEF ReceiptAs, TypeOK
    <2> QED BY <1>1, <1>3, <1>4, <1>6, <2>3
  <1>7. CASE task[p].outcome = "permanent"
    BY <1>7, <1>1, <1>5 DEF Ack
  <1>8. CASE task[p].outcome = "retry" /\ p \in Senders /\ AckQueued(j)
    BY <1>1, <1>2, <1>8 DEF AckQueued, ReceiptAs, TypeOK, PendingRow
  <1>9. CASE task[p].outcome = "retry" /\ p \in Drainers /\ AckRetry(j)
    <2>1. CASE j.attempts + 1 >= DRAIN_MAX_ATTEMPTS
      BY <1>9, <2>1, <1>1, <1>5 DEF AckRetry
    <2>2. CASE ~(j.attempts + 1 >= DRAIN_MAX_ATTEMPTS)
      <3>1. receipt' = receipt BY <1>9, <2>2 DEF AckRetry
      <3>2. pending' = IF Spooled(j.key)
                       THEN [pending EXCEPT ![j.key].attempts = j.attempts + 1,
                                            ![j.key].due = FALSE]
                       ELSE pending
        BY <1>9, <2>2 DEF AckRetry
      <3>3. \A k \in Reports : k # j.key => pending'[k] = pending[k]
        BY <1>1, <1>2, <3>2 DEF TypeOK
      <3>4. CASE Spooled(j.key)
        <4>1. pending'[j.key].content = pending[j.key].content
              /\ pending'[j.key].attempts = j.attempts + 1
          BY <1>1, <1>2, <3>2, <3>4 DEF TypeOK, PendingRow
        <4>2. j.attempts + 1 < DRAIN_MAX_ATTEMPTS BY <1>1, <2>2, Attempts
        <4> QED BY <1>1, <3>1, <3>3, <3>4, <4>1, <4>2
      <3>5. CASE ~Spooled(j.key)
        BY <3>2, <3>5, <1>1, <3>1, <3>3
      <3> QED BY <3>4, <3>5
    <2> QED BY <2>1, <2>2
  <1> QED BY <1>6, <1>7, <1>8, <1>9 DEF Ack

\* Every other step that touches a receipt or the spool.
LEMMA ReceiptSteps ==
  ASSUME TypeOK, [Next]_vars
  PROVE  \/ UNCHANGED receipt
         \/ \E p \in Procs : Ack(p)
         \/ Reconcile
         \/ \E k \in Reports : Retire(k)
  BY DEF Next, vars, tables, Deliver, ReadReceipt, EchoDrops, SenderAttempts, Attempt,
     DrainSelects, DrainAttempts, BackoffElapses, EditConfig, Tick, GatewayCrash,
     SenderDies, Dies

LEMMA SpoolSteps ==
  ASSUME TypeOK, [Next]_vars
  PROVE  \/ UNCHANGED pending
         \/ \E p \in Procs : Ack(p)
         \/ \E p \in Senders : EchoDrops(p)
         \/ \E p \in Senders, k \in Reports, c \in Contents : Deliver(p, k, c)
         \/ \E k \in Reports : BackoffElapses(k)
  BY DEF Next, vars, tables, ReadReceipt, SenderAttempts, Attempt,
     DrainSelects, DrainAttempts, Retire, Reconcile, EditConfig, Tick, GatewayCrash,
     SenderDies, Dies

LEMMA ReconcileReceipts ==
  ASSUME TypeOK, Reconcile, NEW k \in Reports
  PROVE  \/ receipt'[k] = receipt[k]
         \/ /\ receipt[k].status = "none" /\ row[k] # NoContent
            /\ receipt'[k].status = "delivered" /\ receipt'[k].digest = row[k]
  BY DEF Reconcile, TypeOK, Committed

LEMMA CommittedInductive ==
  ASSUME IInv, [Next]_vars
  PROVE  DeliveredIsCommitted'
  <1>0. TypeOK /\ DeliveredIsCommitted /\ RowsKept BY RowsAlwaysKept DEF IInv
  <1>1. SUFFICES ASSUME NEW k \in Reports, receipt'[k].status = "delivered"
                 PROVE  row'[k] # NoContent /\ receipt'[k].digest = row'[k]
    BY DEF DeliveredIsCommitted
  <1>2. CASE receipt'[k] = receipt[k]
    BY <1>0, <1>1, <1>2 DEF DeliveredIsCommitted, RowsKept
  <1>3. ASSUME NEW p \in Procs, Ack(p), receipt'[k] # receipt[k]
        PROVE  row'[k] # NoContent /\ receipt'[k].digest = row'[k]
    <2>1. k = task[p].job.key BY <1>3, AckEffect
    <2>2. \/ receipt'[k].digest = row[k] /\ row[k] # NoContent
          \/ receipt'[k].digest = receipt[k].digest /\ receipt[k].status = "delivered"
      BY <1>3, <2>1, AckEffect, <1>1
    <2> QED BY <1>0, <2>2 DEF DeliveredIsCommitted, RowsKept
  <1>4. CASE Reconcile
    BY <1>0, <1>4, ReconcileReceipts, <1>2 DEF RowsKept
  <1>5. ASSUME NEW q \in Reports, Retire(q), receipt'[k] # receipt[k] PROVE FALSE
    BY <1>0, <1>5, <1>1 DEF Retire, TypeOK, NoReceipt
  <1> QED BY <1>0, <1>2, <1>3, <1>4, <1>5, ReceiptSteps

LEMMA OrphanInductive ==
  ASSUME IInv, [Next]_vars
  PROVE  NoOrphan'
  <1>0. TypeOK /\ NoOrphan BY DEF IInv
  <1>1. SUFFICES ASSUME NEW k \in Reports, Spooled(k)'
                 PROVE  pending'[k].attempts < DRAIN_MAX_ATTEMPTS
    BY DEF NoOrphan
  <1>2. CASE pending'[k] = pending[k] BY <1>0, <1>1, <1>2 DEF NoOrphan, Spooled
  <1>3. ASSUME NEW p \in Procs, Ack(p), pending'[k] # pending[k]
        PROVE  pending'[k].attempts < DRAIN_MAX_ATTEMPTS
    BY <1>3, AckEffect, <1>1, <1>0 DEF Spooled, NoPending, NoOrphan
  <1>4. ASSUME NEW p \in Senders, EchoDrops(p), pending'[k] # pending[k] PROVE FALSE
    BY <1>0, <1>4, <1>1 DEF EchoDrops, TypeOK, Spooled, NoPending
  <1>5. ASSUME NEW p \in Senders, NEW q \in Reports, NEW c \in Contents, Deliver(p, q, c),
               pending'[k] # pending[k]
        PROVE  pending'[k].attempts < DRAIN_MAX_ATTEMPTS
    BY <1>0, <1>5, Attempts DEF Deliver, TypeOK
  <1>6. ASSUME NEW q \in Reports, BackoffElapses(q), pending'[k] # pending[k]
        PROVE  pending'[k].attempts < DRAIN_MAX_ATTEMPTS
    BY <1>0, <1>6 DEF BackoffElapses, TypeOK, PendingRow, NoOrphan
  <1> QED BY <1>0, <1>2, <1>3, <1>4, <1>5, <1>6, SpoolSteps

LEMMA InitInvariant == Init => IInv
  <1> SUFFICES ASSUME Init PROVE IInv OBVIOUS
  <1>1. TypeOK BY InitType
  <1>2. RowCount BY DEF Init, RowCount
  <1>3. DeliveredIsCommitted /\ NoOrphan
    BY DEF Init, DeliveredIsCommitted, NoReceipt, NoOrphan, Spooled, NoPending
  <1>4. Remembered BY DEF Init, Remembered, Idle
  <1> QED BY <1>1, <1>2, <1>3, <1>4 DEF IInv

LEMMA Inductive == IInv /\ [Next]_vars => IInv'
  <1> SUFFICES ASSUME IInv, [Next]_vars PROVE IInv' OBVIOUS
  <1>1. TypeOK' BY TypeInductive DEF IInv
  <1> QED BY <1>1, CountInductive, CommittedInductive, OrphanInductive, RememberedInductive
          DEF IInv

\* The inductive invariant holds: rows are counted right, receipts and the
\* processes' memories agree with the session database, no row is stuck.
THEOREM Invariant == Spec => []IInv
  BY InitInvariant, Inductive, PTL DEF Spec

\* One report, one row, whatever calls, drainers and crashes work on it.
THEOREM NeverASecondRow == Spec => []OneRow
  <1>1. IInv => OneRow BY DEF IInv, RowCount, OneRow
  <1> QED BY <1>1, Invariant, PTL

\* A delivered receipt always stands for the committed row.
THEOREM DeliveredMeansCommitted == Spec => []DeliveredIsCommitted
  <1>1. IInv => DeliveredIsCommitted BY DEF IInv
  <1> QED BY <1>1, Invariant, PTL

\* No row sits in the spool at the cap, where no drainer would select it.
THEOREM NeverOrphaned == Spec => []NoOrphan
  <1>1. IInv => NoOrphan BY DEF IInv
  <1> QED BY <1>1, Invariant, PTL

\* A report leaves the spool only as a committed row or a failed receipt.
THEOREM NeverDropped == Spec => NothingDropped
  <1>1. ASSUME IInv, [Next]_vars, NEW k \in Reports, Spooled(k), ~Spooled(k)'
        PROVE  row'[k] # NoContent \/ receipt'[k].status = "failed"
    <2>0. TypeOK /\ RowsKept /\ DeliveredIsCommitted'
      BY <1>1, RowsAlwaysKept, CommittedInductive DEF IInv
    <2>1. pending'[k] # pending[k] BY <1>1 DEF Spooled
    <2>2. ASSUME NEW p \in Procs, Ack(p)
          PROVE  row'[k] # NoContent \/ receipt'[k].status = "failed"
      <3>1. k = task[p].job.key BY <1>1, <2>1, <2>2, AckEffect
      <3>2. receipt'[k].status \in {"delivered", "failed"}
        BY <1>1, <2>2, <3>1, AckEffect DEF Spooled
      <3> QED BY <2>0, <3>2 DEF DeliveredIsCommitted
    <2>3. ASSUME NEW p \in Senders, EchoDrops(p) PROVE row'[k] # NoContent
      BY <2>0, <2>1, <2>3, <1>1, ProcsSplit DEF EchoDrops, TypeOK, IInv, Remembered, RowsKept
    <2>4. ASSUME NEW p \in Senders, NEW q \in Reports, NEW c \in Contents, Deliver(p, q, c)
          PROVE  FALSE
      BY <1>1, <2>0, <2>1, <2>4 DEF Deliver, TypeOK
    <2>5. ASSUME NEW q \in Reports, BackoffElapses(q) PROVE FALSE
      BY <2>0, <2>5, <1>1 DEF BackoffElapses, TypeOK, PendingRow, Spooled
    <2> QED BY <1>1, <2>0, <2>1, <2>2, <2>3, <2>4, <2>5, SpoolSteps
  <1>2. IInv /\ [Next]_vars =>
          [\A k \in Reports : Spooled(k) /\ ~Spooled(k)' =>
              row'[k] # NoContent \/ receipt'[k].status = "failed"]_vars
    BY <1>1
  <1> QED BY <1>2, Invariant, PTL DEF Spec, NothingDropped

\* A delivered receipt keeps its status and its digest until retention takes it.
THEOREM DeliveredStays == Spec => DeliveredIsTerminal
  <1>1. ASSUME IInv, [Next]_vars, NEW k \in Reports, receipt[k].status = "delivered"
        PROVE  \/ receipt'[k].status = "delivered" /\ receipt'[k].digest = receipt[k].digest
               \/ receipt'[k].status = "none" /\ used'["retired"] > used["retired"]
    <2>0. TypeOK /\ DeliveredIsCommitted BY <1>1 DEF IInv
    <2>1. ASSUME NEW p \in Procs, Ack(p)
          PROVE  receipt'[k].status = "delivered" /\ receipt'[k].digest = receipt[k].digest
      <3>1. CASE k # task[p].job.key BY <1>1, <2>1, <3>1, AckEffect
      <3>2. CASE k = task[p].job.key
        BY <1>1, <2>1, <3>2, AckEffect, <2>0 DEF DeliveredIsCommitted
      <3> QED BY <3>1, <3>2
    <2>2. CASE Reconcile
      BY <1>1, <2>0, <2>2, ReconcileReceipts
    <2>3. ASSUME NEW q \in Reports, Retire(q)
          PROVE  \/ receipt'[k] = receipt[k]
                 \/ receipt'[k].status = "none" /\ used'["retired"] > used["retired"]
      BY <2>0, <2>3 DEF Retire, TypeOK, NoReceipt
    <2> QED BY <1>1, <2>0, <2>1, <2>2, <2>3, ReceiptSteps
  <1>2. IInv /\ [Next]_vars =>
          [\A k \in Reports : receipt[k].status = "delivered" =>
             \/ receipt'[k].status = "delivered" /\ receipt'[k].digest = receipt[k].digest
             \/ receipt'[k].status = "none" /\ used'["retired"] > used["retired"]]_vars
    BY <1>1
  <1> QED BY <1>2, Invariant, PTL DEF Spec, DeliveredIsTerminal

-----------------------------------------------------------------------------
(* The self-wake intent of a committed report.                             *)

\* Process p wrote the row of report k and has yet to acknowledge it.
Holds(p, k) ==
    task[p].pc = "ack" /\ task[p].outcome = "delivered" /\ task[p].job.key = k

\* A committed report has its intent, or the process that wrote it is still to
\* register it, or it is known why it has none.
Accounted ==
    \A k \in Reports : row[k] # NoContent =>
        \/ \E p \in Procs : Holds(p, k)
        \/ k \in gap \cup offEra
        \/ intent[k] # "none"

\* How a process comes to hold a report, and how it lets go of it.
LEMMA HoldSteps ==
  ASSUME IInv, [Next]_vars, NEW p \in Procs, NEW k \in Reports
  PROVE  /\ Holds(p, k)' /\ ~Holds(p, k) =>
               /\ row[k] = NoContent /\ row'[k] # NoContent
               /\ \A q \in Procs : q # p => task'[q] = task[q]
         /\ Holds(p, k) => Holds(p, k)' \/ Ack(p) \/ k \in gap'
         /\ row[k] = NoContent /\ row'[k] # NoContent => \E q \in Procs : Holds(q, k)'
  <1>a. TypeOK /\ Remembered BY DEF IInv
  <1> DEFINE Goal ==
         /\ Holds(p, k)' /\ ~Holds(p, k) =>
               /\ row[k] = NoContent /\ row'[k] # NoContent
               /\ \A q \in Procs : q # p => task'[q] = task[q]
         /\ Holds(p, k) => Holds(p, k)' \/ Ack(p) \/ k \in gap'
         /\ row[k] = NoContent /\ row'[k] # NoContent => \E q \in Procs : Holds(q, k)'
  <1>1. ASSUME NEW q \in Procs, NEW j \in Job, Attempt(q, j), ~(task[q].pc = "ack")
        PROVE  Goal
    <2>1. PICK o \in AttemptOutcomes(j) :
            /\ task' = [task EXCEPT ![q] = [pc |-> "ack", job |-> j, outcome |-> o]]
            /\ row' = IF o = "delivered" THEN [row EXCEPT ![j.key] = j.content] ELSE row
      BY <1>1 DEF Attempt
    <2>2. /\ task'[q] = [pc |-> "ack", job |-> j, outcome |-> o]
          /\ \A r \in Procs : r # q => task'[r] = task[r]
      BY <1>a, <2>1 DEF TypeOK
    <2>3. j.key \in Reports /\ j.content # NoContent BY NoRows DEF Job
    <2>4. o = "delivered" => row[j.key] = NoContent BY DEF AttemptOutcomes
    <2>5. o = "delivered" => \A i \in Reports : row'[i] = IF i = j.key THEN j.content ELSE row[i]
      BY <1>a, <2>1 DEF TypeOK
    <2>6. CASE p = q
      BY <1>1, <2>1, <2>2, <2>3, <2>4, <2>5, <2>6 DEF Holds
    <2>7. CASE p # q
      BY <2>1, <2>2, <2>3, <2>4, <2>5, <2>7 DEF Holds
    <2> QED BY <2>6, <2>7
  <1>2. ASSUME NEW q \in Senders, SenderAttempts(q) PROVE Goal
    BY <1>a, <1>2, TaskShape, ProcsSplit, <1>1 DEF SenderAttempts
  <1>3. ASSUME NEW q \in Drainers, DrainAttempts(q) PROVE Goal
    <2>1. PICK j \in todo[q] : Attempt(q, j) BY <1>3 DEF DrainAttempts
    <2>2. q \in Procs /\ j \in Job BY <1>a, ProcsSplit DEF TypeOK
    <2>3. task[q].pc # "ack" BY <1>3 DEF DrainAttempts, Idle
    <2> QED BY <1>1, <2>1, <2>2, <2>3
  <1>4. ASSUME NEW P, Dies(P) PROVE Goal
    BY <1>4 DEF Dies, Unacked, Holds, Idle
  <1>5. ASSUME NEW q \in Procs, row' = row, task' = [task EXCEPT ![q] = Idle],
               Ack(q) \/ task[q].pc = "echo"
        PROVE  Goal
    BY <1>a, <1>5 DEF TypeOK, Holds, Idle
  <1>6. ASSUME NEW q \in Senders, NEW i \in Reports, NEW c \in Contents, Deliver(q, i, c)
        PROVE  Goal
    BY <1>a, <1>6 DEF Deliver, TypeOK, Holds, Idle
  <1>7. ASSUME NEW q \in Senders, ReadReceipt(q) PROVE Goal
    BY <1>a, <1>7, TaskShape, ProcsSplit DEF ReadReceipt, TypeOK, TaskRow, Holds
  <1>8. ASSUME UNCHANGED <<row, task>> PROVE Goal BY <1>8 DEF Holds
  <1>9. \/ UNCHANGED <<row, task>>
        \/ \E P : Dies(P)
        \/ \E q \in Procs : /\ row' = row /\ task' = [task EXCEPT ![q] = Idle]
                            /\ Ack(q) \/ task[q].pc = "echo"
        \/ \E q \in Senders : SenderAttempts(q) \/ ReadReceipt(q)
        \/ \E q \in Drainers : DrainAttempts(q)
        \/ \E q \in Senders, i \in Reports, c \in Contents : Deliver(q, i, c)
    BY ProcsSplit
    DEF Next, vars, EchoDrops, Ack, DrainSelects, BackoffElapses,
       Retire, EditConfig, Tick, Reconcile, GatewayCrash, SenderDies
  <1>10. Goal BY <1>2, <1>3, <1>4, <1>5, <1>6, <1>7, <1>8, <1>9
  <1> QED BY <1>10

\* The acknowledgement of a fresh row registers the intent or says why not; no
\* other acknowledgement touches intents or tags a receipt.
LEMMA AckIntents ==
  ASSUME IInv, NEW p \in Procs, Ack(p), NEW k \in Reports
  PROVE  /\ gap \subseteq gap' /\ offEra \subseteq offEra'
         /\ intent[k] # "none" => intent'[k] # "none"
         /\ Holds(p, k) => \/ k \in gap' \cup offEra'
                           \/ intent'[k] # "none"
         /\ ~Holds(p, k) => /\ intent'[k] = intent[k]
                            /\ k \in offEra' => k \in offEra
                            /\ receipt'[k].error = "intent-failed" =>
                                  receipt[k].error = "intent-failed"
         /\ k \in offEra' /\ k \notin offEra =>
               /\ intent'[k] = "none" /\ row[k] # NoContent
               /\ receipt'[k].status = "delivered" /\ receipt'[k].error = "none"
  <1> DEFINE j == task[p].job
             o == task[p].outcome
  <1>1. /\ TypeOK /\ task[p].pc = "ack" /\ task' = [task EXCEPT ![p] = Idle]
        /\ j \in Job /\ j.key \in Reports /\ j.content # NoContent
    BY TaskShape, NoRows DEF Ack, IInv
  <1>2. Holds(p, k) <=> o = "delivered" /\ j.key = k BY <1>1 DEF Holds
  <1>3. CASE o = "delivered"
    <2>1. AckDelivered(j, TRUE) BY <1>3 DEF Ack
    <2>2. row[j.key] # NoContent BY <1>1, <1>3 DEF IInv, Remembered
    <2>3. CASE /\ receipt' = [receipt EXCEPT ![j.key] =
                                 ReceiptAs(@, "delivered", j.content, "none")]
               /\ intent' = [intent EXCEPT ![j.key] = IntentFor(j.key)]
               /\ offEra' = IF mode = "off" /\ intent[j.key] = "none"
                            THEN offEra \cup {j.key} ELSE offEra
               /\ UNCHANGED gap
      BY <1>1, <2>3, <1>2, <1>3, <2>2 DEF TypeOK, IntentFor, ReceiptAs
    <2>4. CASE /\ receipt' = [receipt EXCEPT ![j.key] =
                                 ReceiptAs(@, "delivered", j.content, "intent-failed")]
               /\ gap' = gap \cup {j.key}
               /\ UNCHANGED <<intent, offEra>>
      BY <1>1, <2>4, <1>2, <1>3 DEF TypeOK
    <2> QED BY <2>1, <2>3, <2>4 DEF AckDelivered
  <1>4. CASE o # "delivered"
    <2>1. UNCHANGED <<intent, gap, offEra>>
      BY <1>4 DEF Ack, AckDelivered, AckPermanent, AckQueued, AckRetry
    <2>2. \/ UNCHANGED receipt
          \/ \E s, d : \E e \in {"none", "other"} :
                receipt' = [receipt EXCEPT ![j.key] = ReceiptAs(@, s, d, e)]
      BY <1>4 DEF Ack, AckDelivered, AckPermanent, AckQueued, AckRetry
    <2>3. receipt'[k].error \in {receipt[k].error, "none", "other"}
      <3>1. CASE UNCHANGED receipt BY <3>1
      <3>2. ASSUME NEW s, NEW d, NEW e \in {"none", "other"},
                   receipt' = [receipt EXCEPT ![j.key] = ReceiptAs(@, s, d, e)]
            PROVE  receipt'[k].error \in {receipt[k].error, "none", "other"}
        BY <1>1, <3>2 DEF TypeOK, ReceiptAs
      <3> QED BY <2>2, <3>1, <3>2
    <2> QED BY <1>2, <1>4, <2>1, <2>3
  <1> QED BY <1>3, <1>4

\* Elsewhere, intents are voided by a tick and added by reconcile.
LEMMA OtherIntents ==
  ASSUME TypeOK, [Next]_vars, ~(\E p \in Procs : Ack(p)), NEW k \in Reports
  PROVE  /\ gap \subseteq gap' /\ offEra' = offEra
         /\ intent[k] # "none" => intent'[k] # "none"
         /\ intent[k] = "none" /\ intent'[k] # "none" => Compensable(k)
  <1>1. CASE Tick BY <1>1 DEF Tick, TypeOK
  <1>2. CASE Reconcile BY <1>2 DEF Reconcile, TypeOK
  <1>3. CASE GatewayCrash \/ \E p \in Standalone : SenderDies(p)
    BY <1>3 DEF GatewayCrash, SenderDies, Dies, tables
  <1>4. CASE ~(Tick \/ Reconcile \/ GatewayCrash \/ \E p \in Standalone : SenderDies(p))
    BY <1>4 DEF Next, vars, tables, Deliver, ReadReceipt, EchoDrops, SenderAttempts, Attempt,
       DrainSelects, DrainAttempts, BackoffElapses, EditConfig, Retire
  <1> QED BY <1>1, <1>2, <1>3, <1>4

LEMMA AccountedInductive ==
  ASSUME IInv, Accounted, [Next]_vars
  PROVE  Accounted'
  <1>0. TypeOK /\ RowsKept BY RowsAlwaysKept DEF IInv
  <1>1. SUFFICES ASSUME NEW k \in Reports, row'[k] # NoContent
                 PROVE  \/ \E p \in Procs : Holds(p, k)'
                        \/ k \in gap' \cup offEra'
                        \/ intent'[k] # "none"
    BY DEF Accounted
  <1>2. CASE row[k] = NoContent
    BY <1>1, <1>2, ProcsSplit, HoldSteps DEF Next, vars, GatewayCrash, SenderDies, Dies, Retire,
       BackoffElapses, EditConfig, Tick, Reconcile
  <1>3. ASSUME k \in gap \cup offEra \/ intent[k] # "none"
        PROVE  k \in gap' \cup offEra' \/ intent'[k] # "none"
    BY <1>0, <1>3, AckIntents, OtherIntents
  <1>4. ASSUME NEW p \in Procs, Holds(p, k)
        PROVE  Holds(p, k)' \/ k \in gap' \cup offEra' \/ intent'[k] # "none"
    BY <1>4, HoldSteps, AckIntents
  <1> QED BY <1>2, <1>3, <1>4 DEF Accounted

\* Only a death between commit and ack, a failed registration or self-wake
\* being off costs a delivered report its intent, for any number of processes
\* racing for it.
THEOREM IntentKept == Spec => []IntentLostOnlyInGap
  <1>1. Init => Accounted BY DEF Init, Accounted
  <1>2. IInv /\ Accounted => IntentLostOnlyInGap
    <2> SUFFICES ASSUME IInv, Accounted, NEW k \in Reports,
                        receipt[k].status = "delivered", ~Busy(k), k \notin gap \cup offEra
                 PROVE  intent[k] # "none"
      BY DEF IntentLostOnlyInGap
    <2>1. row[k] # NoContent BY DEF IInv, DeliveredIsCommitted
    <2>2. \A p \in Procs : ~Holds(p, k) BY DEF Busy, Holds, Idle
    <2> QED BY <2>1, <2>2 DEF Accounted
  <1> QED BY <1>1, <1>2, AccountedInductive, Invariant, PTL DEF Spec

\* One process writes a row, so one at most is to acknowledge it as fresh; and
\* the receipt of a report that landed while self-wake was off keeps reconcile
\* from compensating it.
History ==
    /\ \A k \in Reports : \A p, q \in Procs : Holds(p, k) /\ Holds(q, k) => p = q
    /\ \A k \in offEra : /\ intent[k] = "none" /\ row[k] # NoContent
                         /\ receipt[k].status = "delivered"
                         /\ receipt[k].error # "intent-failed"
                         /\ \A p \in Procs : ~Holds(p, k)

LEMMA HistoryInductive ==
  ASSUME MaxRetired = 0, IInv, History, [Next]_vars
  PROVE  History'
  <1>0. TypeOK /\ RowsKept /\ TypeOK' BY RowsAlwaysKept, TypeInductive DEF IInv
  <1>1. ASSUME NEW p \in Procs, NEW k \in Reports, Holds(p, k) PROVE row[k] # NoContent
    BY <1>0, <1>1, TaskShape, NoRows DEF IInv, Remembered, Holds
  <1>2. ASSUME NEW k \in Reports, NEW p \in Procs, NEW q \in Procs, p # q,
               Holds(p, k)', Holds(q, k)'
        PROVE  FALSE
    <2>1. CASE Holds(p, k) /\ Holds(q, k) BY <1>2, <2>1 DEF History
    <2>2. ASSUME NEW r \in Procs, NEW t \in Procs, r # t, ~Holds(r, k),
                 Holds(r, k)', Holds(t, k)'
          PROVE  FALSE
      BY <2>2, HoldSteps, <1>1 DEF Holds
    <2> QED BY <1>2, <2>1, <2>2
  <1>3. ASSUME NEW k \in offEra', k \notin offEra
        PROVE  /\ intent'[k] = "none" /\ row'[k] # NoContent
               /\ receipt'[k].status = "delivered" /\ receipt'[k].error # "intent-failed"
               /\ \A p \in Procs : ~Holds(p, k)'
    <2>0. k \in Reports BY <1>0 DEF TypeOK
    <2>1. PICK p \in Procs : Ack(p) BY <1>0, <1>3, <2>0, OtherIntents
    <2>2. /\ intent'[k] = "none" /\ row[k] # NoContent /\ Holds(p, k)
          /\ receipt'[k].status = "delivered" /\ receipt'[k].error = "none"
      BY <1>3, <2>0, <2>1, AckIntents
    <2>3. \A q \in Procs : ~Holds(q, k)'
      <3>1. ~Holds(p, k)'
        BY <1>0, <2>1 DEF Ack, TypeOK, Holds, Idle
      <3>2. ASSUME NEW q \in Procs, q # p PROVE ~Holds(q, k)'
        BY <2>0, <2>2, <3>2, HoldSteps DEF History
      <3> QED BY <3>1, <3>2
    <2> QED BY <1>0, <2>0, <2>2, <2>3 DEF RowsKept
  <1>4. ASSUME NEW k \in offEra
        PROVE  /\ intent'[k] = "none" /\ row'[k] # NoContent
               /\ receipt'[k].status = "delivered" /\ receipt'[k].error # "intent-failed"
               /\ \A p \in Procs : ~Holds(p, k)'
    <2>0. /\ k \in Reports /\ intent[k] = "none" /\ row[k] # NoContent
          /\ receipt[k].status = "delivered" /\ receipt[k].error # "intent-failed"
          /\ \A p \in Procs : ~Holds(p, k)
      BY <1>0, <1>4 DEF History, TypeOK
    <2>1. \A p \in Procs : ~Holds(p, k)' BY <2>0, HoldSteps
    <2>2. intent'[k] = "none"
      BY <1>0, <2>0, AckIntents, OtherIntents DEF Compensable
    <2>3. receipt'[k].status = "delivered" /\ receipt'[k].error # "intent-failed"
      <3>1. ASSUME NEW p \in Procs, Ack(p)
            PROVE  receipt'[k].status = "delivered" /\ receipt'[k].error # "intent-failed"
        BY <2>0, <3>1, AckIntents, AckEffect
      <3>2. CASE Reconcile
        BY <1>0, <2>0, <3>2, ReconcileReceipts
      <3>3. ASSUME NEW q \in Reports, Retire(q) PROVE FALSE
        BY <1>0, <3>3 DEF Retire, TypeOK
      <3> QED BY <1>0, <2>0, <3>1, <3>2, <3>3, ReceiptSteps
    <2> QED BY <1>0, <2>0, <2>1, <2>2, <2>3 DEF RowsKept
  <1> QED BY <1>2, <1>3, <1>4 DEF History

\* While retention keeps their receipts, reports that landed with self-wake
\* off are never woken for later: no edit of the mode, tick, crash or
\* reconcile gives them an intent.
THEOREM OffEraIsHistory ==
  ASSUME MaxRetired = 0
  PROVE  Spec => []OffEraStaysHistory
  <1>1. Init => History BY DEF Init, History, Holds, Idle
  <1>2. IInv /\ History /\ [Next]_vars => History' BY HistoryInductive
  <1>3. History => OffEraStaysHistory BY DEF History, OffEraStaysHistory
  <1> QED BY <1>1, <1>2, <1>3, Invariant, PTL DEF Spec
=============================================================================
