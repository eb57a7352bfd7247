---------------------------- MODULE CrossProofs ----------------------------
(***************************************************************************)
(* Safety of cross-source sends (CrossOutbox) and of the streams that      *)
(* follow them (CrossFollow), for every value of the constants, and with   *)
(* them the action properties of all components of MCLinks. cf is a record *)
(* of a component's constants; the lemmas hold for any such record, and    *)
(* the theorems at the end for the records of all scenarios of MCLinks.    *)
(***************************************************************************)
EXTENDS LinkProofs

-----------------------------------------------------------------------------
(* CrossOutbox.                                                            *)

\* A set of numbers up to n has a least one.
LEMMA LeastIs ==
  ASSUME NEW n \in Nat, NEW S \in SUBSET (1..n), S # {}
  PROVE  \E k \in S : \A j \in S : k <= j
  <1> DEFINE F == {1..k : k \in S}
  <1>1. IsFiniteSet(1..n) BY FS_Interval
  <1>2. F \in SUBSET (SUBSET (1..n)) /\ F # {}
    <2>1. \A k \in S : 1..k \subseteq 1..n OBVIOUS
    <2>2. F \in SUBSET (SUBSET (1..n)) BY ONLY <2>1
    <2>3. PICK k \in S : TRUE OBVIOUS
    <2>4. 1..k \in F BY <2>3
    <2> QED BY ONLY <2>2, <2>4
  <1>3. IsWellFoundedOn(StrictSubsetOrdering(1..n), FiniteSubsetsOf(1..n))
    BY <1>1, FS_StrictSubsetOrderingWellFounded
  <1>4. F \subseteq FiniteSubsetsOf(1..n) BY <1>1, <1>2, FS_FiniteSubsetsOfFinite
  <1> HIDE DEF F
  <1>5. PICK A \in F : \A B \in F : <<B, A>> \notin StrictSubsetOrdering(1..n)
    BY <1>2, <1>3, <1>4, WFMin
  <1>6. \A B \in F : B \subseteq A => B = A
    <2> SUFFICES ASSUME NEW B \in F, B \subseteq A PROVE B = A OBVIOUS
    <2>1. <<B, A>> \notin StrictSubsetOrdering(1..n) BY <1>5
    <2>2. A \in SUBSET (1..n) /\ B \in SUBSET (1..n) BY <1>2, <1>5
    <2> QED BY <2>1, <2>2 DEF StrictSubsetOrdering
  <1>7. PICK k \in S : A = 1..k BY <1>5 DEF F
  <1>8. ASSUME NEW j \in S, j < k PROVE FALSE
    <2>1. j \in Nat /\ k \in Nat /\ k \in 1..k /\ k \notin 1..j BY <1>8
    <2>2. 1..j \in F /\ 1..j \subseteq 1..k BY <1>8 DEF F
    <2> QED BY <2>1, <2>2, <1>6, <1>7
  <1>9. k \in Nat /\ \A j \in S : j \in Nat OBVIOUS
  <1> QED BY <1>8, <1>9

Deliverers(cf) == cf.Senders \cup {"drain"}

Locking == {"check", "refused", "try", "sent", "missed", "backoff"}
Engaged == Locking \cup {"lock"}
Unsent == {"pending", "failed"}

ActorState(cf) ==
    [pc: {"idle", "ok", "error"} \cup Engaged, row: Nat, attempt: 0..cf.MaxAttempts,
     text: cf.Texts \cup {Outbox(cf)!Idle.text}]

RowState(cf) ==
    [text: cf.Texts, status: Unsent \cup {"delivered", "merged", "stale"}, created: Nat,
     updated: Nat]

OutboxTypes(cf) ==
    /\ spool \in Seq(RowState(cf)) /\ Len(spool) <= cf.MaxRows
    /\ \A r \in DOMAIN spool : /\ spool[r].created <= spool[r].updated
                               /\ spool[r].updated <= now
    /\ act \in [Deliverers(cf) -> ActorState(cf)]
    /\ drain \in [pc: {"armed", "mark", "done"}, list: SUBSET Nat, heads: Seq(Nat), at: Nat]
    /\ route \in BOOLEAN /\ now \in 0..cf.MaxTime
    /\ injected \in [1..cf.MaxRows -> Nat] /\ turned \in [1..cf.MaxRows -> Nat]
    /\ gap \in [1..cf.MaxRows -> Nat]
    /\ moved \in [1..cf.MaxRows -> {"no", "during", "before"}]

\* Who is at a row is at one that exists, and so are the drain's rows; the drain
\* delivers only once it has marked its whole snapshot, in which no time passes.
PlaceFacts(cf) ==
    /\ \A a \in Deliverers(cf) : act[a].pc # "idle" => act[a].row \in DOMAIN spool
    /\ drain.list \subseteq DOMAIN spool
    /\ \A i \in DOMAIN drain.heads : drain.heads[i] \in DOMAIN spool
    /\ drain.pc # "mark" => drain.list = {} /\ drain.heads = <<>>
    /\ drain.pc # "mark" \/ drain.list # {} => act["drain"].pc = "idle"
    /\ drain.pc = "mark" => drain.at = now

\* A row is held by one at a time, and only while it is not delivered.
LockFacts(cf) ==
    /\ \A a, b \in Deliverers(cf) :
          act[a].pc \in Locking /\ act[b].pc \in Locking /\ act[a].row = act[b].row => a = b
    /\ \A a \in Deliverers(cf) :
          act[a].pc \in Locking => spool[act[a].row].status # "delivered"

\* A text that will not become a turn was overtaken by its route.
RouteFacts(cf) ==
    /\ \A a \in Deliverers(cf) :
          /\ act[a].pc \in {"try", "missed", "backoff"} /\ ~route /\ ~cf.Blind
                => moved[act[a].row] # "no"
          /\ act[a].pc = "sent" /\ turned[act[a].row] = 0 => moved[act[a].row] # "no"
    /\ \A r \in DOMAIN spool :
          spool[r].status = "delivered" /\ turned[r] = 0 => moved[r] # "no"

\* What is being recorded, or is recorded, was injected.
SentFacts(cf) ==
    /\ \A a \in Deliverers(cf) : act[a].pc = "sent" => injected[act[a].row] > 0
    /\ \A r \in DOMAIN spool : spool[r].status = "delivered" => injected[r] > 0

\* The drain's rows are not merged or stale, and its heads are older than what
\* it has still to look at.
MergeFacts(cf) ==
    /\ \A r \in DOMAIN spool : spool[r].status = "merged" =>
          \E h \in 1..(r - 1) : spool[h].text = spool[r].text /\ spool[h].status # "merged"
    /\ \A q \in drain.list : spool[q].status \notin {"merged", "stale"}
    /\ \A i \in DOMAIN drain.heads :
          /\ spool[drain.heads[i]].status \notin {"merged", "stale"}
          /\ \A q \in drain.list : drain.heads[i] < q
    /\ act["drain"].pc \in Engaged => spool[act["drain"].row].status \notin {"merged", "stale"}

\* Constants for which no drain marks a row: rows do not grow too old, and a
\* text has one undelivered row.
Unmarked(cf) == cf.LegacyRows <= 1 /\ cf.MaxTime <= cf.MaxAge

\* Constants for which a row that is marked has nobody waiting for it.
Alone(cf) == \A p, q \in cf.Senders : p = q

OneOpenRow(cf) ==
    /\ \A r \in DOMAIN spool : spool[r].status \notin {"merged", "stale"}
    /\ \A i, j \in DOMAIN spool :
          i < j /\ spool[i].text = spool[j].text => spool[i].status = "delivered"
    /\ \A i, j \in drain.list : i # j => spool[i].text # spool[j].text
    /\ \A i \in DOMAIN drain.heads : \A q \in drain.list :
          spool[drain.heads[i]].text # spool[q].text

\* Rows i < j of one text: of one age, or the older one was too old to take the
\* message of the newer.
Apart(cf, i, j) ==
    \/ spool[i].created = spool[j].created
    \/ spool[i].created + cf.MaxAge < spool[j].created

InDrain(cf) == drain.list \cup {drain.heads[i] : i \in DOMAIN drain.heads}

Owed(cf, r) ==
    \/ spool[r].status \in Unsent
    \/ /\ spool[r].status # "delivered"
       /\ \E a \in Deliverers(cf) : act[a].pc \in Engaged /\ act[a].row = r

OneSender(cf) ==
    /\ \A i, j \in DOMAIN spool :
          i < j /\ spool[i].text = spool[j].text /\ Owed(cf, i) => Apart(cf, i, j)
    /\ \A i, j \in InDrain(cf) : i < j /\ spool[i].text = spool[j].text => Apart(cf, i, j)
    /\ \A i \in DOMAIN drain.heads : drain.at <= spool[drain.heads[i]].created + cf.MaxAge
    /\ \A p \in cf.Senders :
          act[p].pc = "lock" /\ act[p].row \in drain.list
            /\ spool[act[p].row].status = "delivered" =>
             /\ drain.at <= spool[act[p].row].created + cf.MaxAge
             /\ \A h \in InDrain(cf) :
                  h < act[p].row /\ spool[h].text = spool[act[p].row].text
                     => drain.at > spool[h].created + cf.MaxAge

\* A marked row nobody is about to deliver.
Shut(cf, r) ==
    /\ spool[r].status \in {"merged", "stale"}
    /\ \A a \in Deliverers(cf) : act[a].pc \in Engaged /\ act[a].row = r => act[a].pc = "sent"
    /\ \A i \in DOMAIN drain.heads : drain.heads[i] # r

OnceFacts(cf) ==
    /\ \A r \in 1..cf.MaxRows : injected[r] <= gap[r] + 1
    /\ \A r \in 1..cf.MaxRows : injected[r] > gap[r] =>
          /\ r \in DOMAIN spool
          /\ \/ spool[r].status = "delivered" \/ Shut(cf, r)
             \/ \E a \in Deliverers(cf) : act[a].pc = "sent" /\ act[a].row = r
    /\ \A a \in Deliverers(cf) :
          act[a].pc \in Locking /\ act[a].pc # "sent" => injected[act[a].row] <= gap[act[a].row]

OutboxInv(cf) ==
    /\ OutboxTypes(cf) /\ PlaceFacts(cf) /\ LockFacts(cf) /\ RouteFacts(cf) /\ SentFacts(cf)
    /\ MergeFacts(cf)
    /\ Unmarked(cf) => OneOpenRow(cf)
    /\ Alone(cf) => OneSender(cf)
    /\ Unmarked(cf) \/ Alone(cf) => OnceFacts(cf)

\* a alone moves, at its row, to pc.
Goes(cf, a, pc) ==
    /\ act' \in [Deliverers(cf) -> ActorState(cf)]
    /\ \A b \in Deliverers(cf) : b # a => act'[b] = act[b]
    /\ act'[a].pc = pc /\ act'[a].row = act[a].row

\* Row r alone is written, its status and the time.
Writes(cf, r, status) ==
    /\ spool' \in Seq(RowState(cf)) /\ DOMAIN spool' = DOMAIN spool /\ Len(spool') = Len(spool)
    /\ \A i \in DOMAIN spool :
          /\ spool'[i].text = spool[i].text /\ spool'[i].created = spool[i].created
          /\ i # r => spool'[i].updated = spool[i].updated /\ spool'[i].status = spool[i].status
    /\ spool'[r].updated = now /\ spool'[r].status = status

LEMMA OutboxFields ==
  ASSUME NEW cf, OutboxTypes(cf), Outbox(cf)!Shape
  PROVE  /\ \A a \in Deliverers(cf) :
               /\ act[a] \in ActorState(cf) /\ act[a].row \in Nat
               /\ act[a].pc \in {"idle", "ok", "error", "lock", "check", "refused", "try", "sent",
                                 "missed", "backoff"}
         /\ \A r \in DOMAIN spool :
               /\ spool[r] \in RowState(cf) /\ spool[r].created \in Nat /\ spool[r].updated \in Nat
               /\ spool[r].status \in {"pending", "failed", "delivered", "merged", "stale"}
         /\ DOMAIN spool = 1..Len(spool) /\ Len(spool) \in Nat /\ DOMAIN spool \subseteq 1..cf.MaxRows
         /\ now \in Nat /\ cf.MaxTime \in Nat /\ cf.MaxRows \in Nat /\ cf.MaxAge \in Nat
         /\ cf.Dedup \in Nat /\ cf.Dedup <= cf.MaxAge /\ cf.MaxAttempts \in Nat
         /\ cf.MaxAttempts >= 1 /\ cf.LegacyRows \in Nat /\ cf.LegacyRows <= cf.MaxRows
         /\ "drain" \notin cf.Senders /\ Outbox(cf)!Actors = Deliverers(cf)
         /\ Outbox(cf)!Rows = 1..cf.MaxRows
  <1>1. \A r \in DOMAIN spool : spool[r] \in RowState(cf) BY ElementOfSeq, LenProperties DEF OutboxTypes
  <1>2. /\ DOMAIN spool = 1..Len(spool) /\ Len(spool) \in Nat /\ Len(spool) <= cf.MaxRows
    BY LenProperties DEF OutboxTypes
  <1>3. /\ cf.MaxTime \in Nat /\ cf.MaxRows \in Nat /\ cf.MaxAge \in Nat
        /\ cf.Dedup \in Nat /\ cf.Dedup <= cf.MaxAge /\ cf.MaxAttempts \in Nat
        /\ cf.MaxAttempts >= 1 /\ cf.LegacyRows \in Nat /\ cf.LegacyRows <= cf.MaxRows
        /\ "drain" \notin cf.Senders
    BY DEF Outbox!Shape, Outbox!Drainer
  <1>4. now \in Nat /\ \A a \in Deliverers(cf) : act[a] \in ActorState(cf) BY <1>3 DEF OutboxTypes
  <1>5. \A a \in Deliverers(cf) :
           /\ act[a].row \in Nat
           /\ act[a].pc \in {"idle", "ok", "error", "lock", "check", "refused", "try", "sent",
                             "missed", "backoff"}
    BY ONLY <1>4 DEF ActorState, Engaged, Locking
  <1>6. \A r \in DOMAIN spool :
           /\ spool[r].created \in Nat /\ spool[r].updated \in Nat
           /\ spool[r].status \in {"pending", "failed", "delivered", "merged", "stale"}
    BY ONLY <1>1 DEF RowState, Unsent
  <1>7. Outbox(cf)!Actors = Deliverers(cf) /\ Outbox(cf)!Rows = 1..cf.MaxRows
    BY DEF Deliverers, Outbox!Actors, Outbox!Drainer, Outbox!Rows
  <1> QED BY <1>1, <1>2, <1>3, <1>4, <1>5, <1>6, <1>7

\* Who moves at its row: its record.
LEMMA GoesIs ==
  ASSUME NEW cf, OutboxTypes(cf), Outbox(cf)!Shape, NEW a \in Deliverers(cf),
         NEW pc \in {"idle", "ok", "error"} \cup Engaged,
         \/ act' = [act EXCEPT ![a].pc = pc]
         \/ \E k \in 0..cf.MaxAttempts : act' = [act EXCEPT ![a].pc = pc, ![a].attempt = k]
  PROVE  Goes(cf, a, pc)
  <1>1. act \in [Deliverers(cf) -> ActorState(cf)] BY DEF OutboxTypes
  <1>2. \A x \in ActorState(cf) :
           /\ [x EXCEPT !.pc = pc] \in ActorState(cf)
           /\ \A k \in 0..cf.MaxAttempts : [x EXCEPT !.pc = pc, !.attempt = k] \in ActorState(cf)
    BY DEF ActorState
  <1>3. \A x \in ActorState(cf) :
           /\ [x EXCEPT !.pc = pc].pc = pc /\ [x EXCEPT !.pc = pc].row = x.row
           /\ \A k \in 0..cf.MaxAttempts :
                 /\ [x EXCEPT !.pc = pc, !.attempt = k].pc = pc
                 /\ [x EXCEPT !.pc = pc, !.attempt = k].row = x.row
    BY ONLY TRUE DEF ActorState
  <1>4. PICK v \in ActorState(cf) : act' = [act EXCEPT ![a] = v] /\ v.pc = pc /\ v.row = act[a].row
    <2>1. CASE act' = [act EXCEPT ![a].pc = pc]
      BY <1>1, <2>1, <1>2, <1>3, a \in Deliverers(cf)
    <2>2. ASSUME NEW k \in 0..cf.MaxAttempts, act' = [act EXCEPT ![a].pc = pc, ![a].attempt = k]
          PROVE  \E v \in ActorState(cf) :
                    act' = [act EXCEPT ![a] = v] /\ v.pc = pc /\ v.row = act[a].row
      <3>1. act' = [act EXCEPT ![a] = [act[a] EXCEPT !.pc = pc, !.attempt = k]] BY <1>1, <2>2
      <3> QED BY ONLY <1>1, <1>2, <1>3, <3>1, a \in Deliverers(cf), k \in 0..cf.MaxAttempts
    <2> QED BY <2>1, <2>2
  <1> QED BY ONLY <1>1, <1>4, a \in Deliverers(cf) DEF Goes

\* A row that is recorded.
LEMMA WritesIs ==
  ASSUME NEW cf, OutboxTypes(cf), Outbox(cf)!Shape, NEW r \in DOMAIN spool,
         NEW status \in Unsent \cup {"delivered", "merged", "stale"},
         Outbox(cf)!Record(r, status)
  PROVE  Writes(cf, r, status)
  <1> DEFINE v == [spool[r] EXCEPT !.status = status, !.updated = now]
  <1>1. /\ \A i \in DOMAIN spool : spool[i] \in RowState(cf)
        /\ DOMAIN spool = 1..Len(spool) /\ Len(spool) \in Nat /\ now \in Nat
    BY OutboxFields
  <1>2. spool' = [spool EXCEPT ![r] = v] BY DEF Outbox!Record
  <1>3. /\ v \in RowState(cf) /\ v.status = status /\ v.updated = now /\ v.text = spool[r].text
        /\ v.created = spool[r].created
    BY <1>1 DEF RowState
  <1> HIDE DEF v
  <1>4. spool \in Seq(RowState(cf)) BY DEF OutboxTypes
  <1>5. /\ spool' \in Seq(RowState(cf)) /\ Len(spool') = Len(spool)
        /\ \A i \in 1..Len(spool) : spool'[i] = IF i = r THEN v ELSE spool[i]
    BY <1>1, <1>2, <1>3, <1>4, ExceptSeq
  <1>6. DOMAIN spool' = DOMAIN spool BY <1>1, <1>2
  <1> QED BY ONLY <1>1, <1>3, <1>5, <1>6, r \in DOMAIN spool DEF Writes

\* What an actor does at its row, other than to take it.
DeliveryStep(cf, a) ==
    \/ /\ act[a].pc = "lock" /\ \A b \in Deliverers(cf) : ~(act[b].pc \in Locking /\ act[b].row = act[a].row)
       /\ Goes(cf, a, IF spool[act[a].row].status = "delivered" THEN "ok" ELSE "check")
       /\ UNCHANGED <<spool, injected, turned, moved>>
    \/ /\ act[a].pc = "check"
       /\ Goes(cf, a, "refused") \/ (Goes(cf, a, "try") /\ (route \/ cf.Blind))
       /\ moved' = [moved EXCEPT ![act[a].row] = "no"]
       /\ UNCHANGED <<spool, injected, turned>>
    \/ /\ act[a].pc = "refused" /\ Goes(cf, a, "error") /\ Writes(cf, act[a].row, "failed")
       /\ UNCHANGED <<injected, turned, moved>>
    \/ /\ act[a].pc = "try" /\ Goes(cf, a, "sent")
       /\ injected' = [injected EXCEPT ![act[a].row] = @ + 1]
       /\ turned' = [turned EXCEPT ![act[a].row] = @ + (IF route \/ cf.Blind THEN 1 ELSE 0)]
       /\ UNCHANGED <<spool, moved>>
    \/ /\ act[a].pc = "try" /\ Goes(cf, a, "missed")
       /\ UNCHANGED <<spool, injected, turned, moved>>
    \/ /\ act[a].pc = "sent" /\ Goes(cf, a, "ok") /\ Writes(cf, act[a].row, "delivered")
       /\ UNCHANGED <<injected, turned, moved>>
    \/ /\ act[a].pc = "missed" /\ UNCHANGED <<injected, turned, moved>>
       /\ \/ Goes(cf, a, "error") /\ Writes(cf, act[a].row, "failed")
          \/ Goes(cf, a, "backoff") /\ Writes(cf, act[a].row, "pending")
    \/ /\ act[a].pc = "backoff" /\ Goes(cf, a, "try")
       /\ moved' = [moved EXCEPT ![act[a].row] = IF @ = "no" THEN @ ELSE "before"]
       /\ UNCHANGED <<spool, injected, turned>>

LEMMA DeliveryIs ==
  ASSUME NEW cf, OutboxTypes(cf), Outbox(cf)!Shape, PlaceFacts(cf), NEW a \in Deliverers(cf),
         Outbox(cf)!Delivery(a)
  PROVE  DeliveryStep(cf, a) /\ UNCHANGED <<drain, route, now, gap>> /\ act[a].row \in DOMAIN spool
  <1>1. /\ act[a] \in ActorState(cf) /\ act[a].attempt \in 0..cf.MaxAttempts
        /\ cf.MaxAttempts \in Nat /\ cf.MaxAttempts >= 1 /\ Outbox(cf)!Actors = Deliverers(cf)
        /\ 1 \in 0..cf.MaxAttempts
    BY OutboxFields DEF ActorState
  <1>2. act[a].pc # "idle" => act[a].row \in DOMAIN spool BY DEF PlaceFacts
  <1>3. act[a].pc # "idle"
    BY DEF Outbox!Delivery, Outbox!Acquire, Outbox!Check, Outbox!RecordRefused, Outbox!Inject,
           Outbox!Miss, Outbox!RecordSent, Outbox!RecordMissed, Outbox!Retry
  <1>4. \A pc \in {"idle", "ok", "error"} \cup Engaged : Outbox(cf)!Goto(a, pc) => Goes(cf, a, pc)
    BY GoesIs DEF Outbox!Goto
  <1>5. {"ok", "error", "lock", "check", "refused", "try", "sent", "missed", "backoff"}
            \subseteq {"idle", "ok", "error"} \cup Engaged
    BY DEF Engaged, Locking
  <1>6. \A status \in {"failed", "pending", "delivered"} :
           Outbox(cf)!Record(act[a].row, status) => Writes(cf, act[a].row, status)
    BY <1>2, <1>3, WritesIs DEF Unsent
  <1>7. CASE Outbox(cf)!Acquire(a)
    BY <1>1, <1>7, <1>4, <1>5, <1>2, <1>3 DEF Outbox!Acquire, Outbox!Free, Outbox!Settled,
       Outbox!Inside, Locking, DeliveryStep
  <1>8. CASE Outbox(cf)!Check(a)
    <2>1. /\ act[a].pc = "check" /\ UNCHANGED <<spool, injected, turned, drain, route, now, gap>>
          /\ moved' = [moved EXCEPT ![act[a].row] = "no"]
          /\ act' = [act EXCEPT ![a].pc = IF Outbox(cf)!Refusal THEN "refused" ELSE "try",
                                ![a].attempt = 1]
      BY ONLY <1>8 DEF Outbox!Check
    <2>2. CASE Outbox(cf)!Refusal
      BY <2>1, <2>2, <1>1, <1>5, GoesIs, <1>2, <1>3 DEF DeliveryStep
    <2>3. CASE ~Outbox(cf)!Refusal
      BY <2>1, <2>3, <1>1, <1>5, GoesIs, <1>2, <1>3 DEF Outbox!Refusal, DeliveryStep
    <2> QED BY <2>2, <2>3
  <1>9. CASE Outbox(cf)!RecordRefused(a)
    BY ONLY <1>2, <1>3, <1>4, <1>5, <1>6, <1>9 DEF Outbox!RecordRefused, DeliveryStep
  <1>10. CASE Outbox(cf)!Inject(a)
    BY <1>10, <1>2, <1>3, <1>4, <1>5 DEF Outbox!Inject, DeliveryStep
  <1>11. CASE Outbox(cf)!Miss(a)
    BY ONLY <1>2, <1>3, <1>4, <1>5, <1>11 DEF Outbox!Miss, DeliveryStep
  <1>12. CASE Outbox(cf)!RecordSent(a)
    BY ONLY <1>2, <1>3, <1>4, <1>5, <1>6, <1>12 DEF Outbox!RecordSent, DeliveryStep
  <1>13. CASE Outbox(cf)!RecordMissed(a)
    BY <1>13, <1>2, <1>3, <1>4, <1>5, <1>6 DEF Outbox!RecordMissed, DeliveryStep
  <1>14. CASE Outbox(cf)!Retry(a)
    <2>1. /\ act[a].pc = "backoff" /\ UNCHANGED <<spool, drain, route, now, gap, injected, turned>>
          /\ moved' = [moved EXCEPT ![act[a].row] = IF @ = "no" THEN @ ELSE "before"]
          /\ act' = [act EXCEPT ![a].pc = "try", ![a].attempt = (@ % cf.MaxAttempts) + 1]
      BY ONLY <1>14 DEF Outbox!Retry
    <2> DEFINE k == (act[a].attempt % cf.MaxAttempts) + 1
    <2>2. k \in 0..cf.MaxAttempts BY ONLY <1>1
    <2>3. act' = [act EXCEPT ![a].pc = "try", ![a].attempt = k] BY ONLY <2>1
    <2> HIDE DEF k
    <2>4. Goes(cf, a, "try") BY <2>2, <2>3, <1>5, GoesIs
    <2> QED BY ONLY <1>2, <1>3, <2>1, <2>4 DEF DeliveryStep
  <1> QED
    BY <1>7, <1>8, <1>9, <1>10, <1>11, <1>12, <1>13, <1>14 DEF Outbox!Delivery

\* The same, point by point: r is the row, s and s1 its status, j, t and m what
\* is counted and known of it.
DeliveryTable(cf, a, r, p, p1, s, s1, j, j1, t, t1, m, m1) ==
    \/ /\ p = "lock" /\ p1 = "ok" /\ s = "delivered" /\ s1 = s /\ j1 = j /\ t1 = t /\ m1 = m
    \/ /\ p = "lock" /\ p1 = "check" /\ s # "delivered" /\ s1 = s /\ j1 = j /\ t1 = t /\ m1 = m
       /\ \A b \in Deliverers(cf) : ~(act[b].pc \in Locking /\ act[b].row = r)
    \/ /\ p = "check" /\ p1 = "refused" /\ s1 = s /\ j1 = j /\ t1 = t /\ m1 = "no"
    \/ /\ p = "check" /\ p1 = "try" /\ (route \/ cf.Blind) /\ s1 = s /\ j1 = j /\ t1 = t /\ m1 = "no"
    \/ /\ p = "refused" /\ p1 = "error" /\ s1 = "failed" /\ j1 = j /\ t1 = t /\ m1 = m
    \/ /\ p = "try" /\ p1 = "sent" /\ s1 = s /\ j1 = j + 1 /\ m1 = m
       /\ t1 >= t /\ (route \/ cf.Blind => t1 > t)
    \/ /\ p = "try" /\ p1 = "missed" /\ s1 = s /\ j1 = j /\ t1 = t /\ m1 = m
    \/ /\ p = "sent" /\ p1 = "ok" /\ s1 = "delivered" /\ j1 = j /\ t1 = t /\ m1 = m
    \/ /\ p = "missed" /\ p1 = "error" /\ s1 = "failed" /\ j1 = j /\ t1 = t /\ m1 = m
    \/ /\ p = "missed" /\ p1 = "backoff" /\ s1 = "pending" /\ j1 = j /\ t1 = t /\ m1 = m
    \/ /\ p = "backoff" /\ p1 = "try" /\ s1 = s /\ j1 = j /\ t1 = t /\ (m # "no" => m1 # "no")

DeliveryPoints(cf, a, r) ==
    /\ r \in DOMAIN spool /\ r = act[a].row
    /\ act' \in [Deliverers(cf) -> ActorState(cf)] /\ act'[a].row = r
    /\ \A b \in Deliverers(cf) : b # a => act'[b] = act[b]
    /\ spool' \in Seq(RowState(cf)) /\ DOMAIN spool' = DOMAIN spool /\ Len(spool') = Len(spool)
    /\ \A i \in DOMAIN spool :
          /\ spool'[i].text = spool[i].text /\ spool'[i].created = spool[i].created
          /\ spool'[i].updated \in {spool[i].updated, now}
          /\ i # r => spool'[i].status = spool[i].status
    /\ injected' \in [1..cf.MaxRows -> Nat] /\ turned' \in [1..cf.MaxRows -> Nat]
    /\ moved' \in [1..cf.MaxRows -> {"no", "during", "before"}]
    /\ \A i \in 1..cf.MaxRows : i # r =>
          injected'[i] = injected[i] /\ turned'[i] = turned[i] /\ moved'[i] = moved[i]
    /\ DeliveryTable(cf, a, r, act[a].pc, act'[a].pc, spool[r].status, spool'[r].status,
                     injected[r], injected'[r], turned[r], turned'[r], moved[r], moved'[r])

LEMMA DeliveryPointsHold ==
  ASSUME NEW cf, OutboxTypes(cf), Outbox(cf)!Shape, NEW a \in Deliverers(cf),
         act[a].row \in DOMAIN spool, DeliveryStep(cf, a)
  PROVE  DeliveryPoints(cf, a, act[a].row)
  <1> DEFINE r == act[a].row
  <1>1. r \in DOMAIN spool /\ r \in 1..cf.MaxRows BY OutboxFields
  <1>2. /\ injected \in [1..cf.MaxRows -> Nat] /\ turned \in [1..cf.MaxRows -> Nat]
        /\ moved \in [1..cf.MaxRows -> {"no", "during", "before"}]
        /\ spool \in Seq(RowState(cf))
    BY DEF OutboxTypes
  <1>3. PICK pc : Goes(cf, a, pc) BY DEF DeliveryStep
  <1>4. /\ act' \in [Deliverers(cf) -> ActorState(cf)] /\ act'[a].row = r /\ act'[a].pc = pc
        /\ \A b \in Deliverers(cf) : b # a => act'[b] = act[b]
    BY ONLY <1>3 DEF Goes, r
  <1>5. /\ spool' \in Seq(RowState(cf)) /\ DOMAIN spool' = DOMAIN spool /\ Len(spool') = Len(spool)
        /\ \A i \in DOMAIN spool :
              /\ spool'[i].text = spool[i].text /\ spool'[i].created = spool[i].created
              /\ spool'[i].updated \in {spool[i].updated, now}
              /\ i # r => spool'[i].status = spool[i].status
    <2>1. UNCHANGED spool \/ \E s : Writes(cf, r, s) BY DEF DeliveryStep
    <2>2. CASE UNCHANGED spool BY ONLY <1>2, <2>2
    <2>3. ASSUME NEW s, Writes(cf, r, s)
          PROVE  /\ spool' \in Seq(RowState(cf)) /\ DOMAIN spool' = DOMAIN spool /\ Len(spool') = Len(spool)
                 /\ \A i \in DOMAIN spool :
                       /\ spool'[i].text = spool[i].text /\ spool'[i].created = spool[i].created
                       /\ spool'[i].updated \in {spool[i].updated, now}
                       /\ i # r => spool'[i].status = spool[i].status
      BY ONLY <2>3, <1>1 DEF Writes
    <2> QED BY ONLY <2>1, <2>2, <2>3
  <1>6. /\ injected' \in [1..cf.MaxRows -> Nat] /\ turned' \in [1..cf.MaxRows -> Nat]
        /\ moved' \in [1..cf.MaxRows -> {"no", "during", "before"}]
        /\ \A i \in 1..cf.MaxRows : i # r =>
              injected'[i] = injected[i] /\ turned'[i] = turned[i] /\ moved'[i] = moved[i]
    <2>1. /\ injected' \in {injected, [injected EXCEPT ![r] = @ + 1]}
          /\ \E n \in {0, 1} : turned' \in {turned, [turned EXCEPT ![r] = @ + n]}
          /\ moved' \in {moved, [moved EXCEPT ![r] = "no"], [moved EXCEPT ![r] = "before"]}
      BY <1>1, <1>2 DEF DeliveryStep
    <2> HIDE DEF r
    <2>2. injected' \in [1..cf.MaxRows -> Nat] /\ \A i \in 1..cf.MaxRows : i # r => injected'[i] = injected[i]
      <3>1. injected' = injected \/ injected' = [injected EXCEPT ![r] = injected[r] + 1]
        BY ONLY <1>1, <1>2, <2>1
      <3>2. injected[r] + 1 \in Nat BY ONLY <1>1, <1>2
      <3> QED BY ONLY <1>1, <1>2, <3>1, <3>2
    <2>3. turned' \in [1..cf.MaxRows -> Nat] /\ \A i \in 1..cf.MaxRows : i # r => turned'[i] = turned[i]
      <3>1. PICK n \in {0, 1} : turned' \in {turned, [turned EXCEPT ![r] = @ + n]} BY <2>1
      <3>2. n \in Nat OBVIOUS
      <3>3. turned' = turned \/ turned' = [turned EXCEPT ![r] = turned[r] + n]
        BY ONLY <1>1, <1>2, <3>1
      <3>4. turned[r] + n \in Nat BY ONLY <1>1, <1>2, <3>2
      <3> QED BY ONLY <1>1, <1>2, <3>3, <3>4
    <2>4. /\ moved' \in [1..cf.MaxRows -> {"no", "during", "before"}]
          /\ \A i \in 1..cf.MaxRows : i # r => moved'[i] = moved[i]
      BY <2>1, <1>1, <1>2
    <2> QED BY <2>2, <2>3, <2>4
  <1>7. DeliveryTable(cf, a, r, act[a].pc, act'[a].pc, spool[r].status, spool'[r].status,
                      injected[r], injected'[r], turned[r], turned'[r], moved[r], moved'[r])
    <2>1. \A pc1 : Goes(cf, a, pc1) => act'[a].pc = pc1 BY DEF Goes
    <2>2. \A s : Writes(cf, r, s) => spool'[r].status = s BY DEF Writes
    <2>3. DeliveryStep(cf, a) OBVIOUS
    <2>4. r = act[a].row OBVIOUS
    <2>5. injected' = [injected EXCEPT ![r] = @ + 1] => injected'[r] = injected[r] + 1
      BY ONLY <1>1, <1>2
    <2>6. turned' = [turned EXCEPT ![r] = @ + (IF route \/ cf.Blind THEN 1 ELSE 0)] =>
             turned'[r] >= turned[r] /\ (route \/ cf.Blind => turned'[r] > turned[r])
      BY ONLY <1>1, <1>2
    <2>7. /\ moved' = [moved EXCEPT ![r] = "no"] => moved'[r] = "no"
          /\ moved' = [moved EXCEPT ![r] = IF @ = "no" THEN @ ELSE "before"] =>
                (moved[r] # "no" => moved'[r] # "no")
      BY ONLY <1>1, <1>2
    <2> HIDE DEF r
    <2>8. CASE act[a].pc = "lock"
      BY ONLY <1>1, <2>1, <2>2, <2>3, <2>4, <2>8 DEF DeliveryStep, DeliveryTable
    <2>9. CASE act[a].pc = "check"
      BY ONLY <1>1, <2>1, <2>2, <2>3, <2>4, <2>7, <2>9 DEF DeliveryStep, DeliveryTable
    <2>10. CASE act[a].pc = "refused"
      BY ONLY <1>1, <2>1, <2>2, <2>3, <2>4, <2>10 DEF DeliveryStep, DeliveryTable
    <2>11. CASE act[a].pc = "try"
      BY ONLY <1>1, <2>1, <2>2, <2>3, <2>4, <2>5, <2>6, <2>11 DEF DeliveryStep, DeliveryTable
    <2>12. CASE act[a].pc = "sent"
      BY ONLY <1>1, <2>1, <2>2, <2>3, <2>4, <2>12 DEF DeliveryStep, DeliveryTable
    <2>13. CASE act[a].pc = "missed"
      BY ONLY <1>1, <2>1, <2>2, <2>3, <2>4, <2>13 DEF DeliveryStep, DeliveryTable
    <2>14. CASE act[a].pc = "backoff"
      BY ONLY <1>1, <2>1, <2>2, <2>3, <2>4, <2>7, <2>14 DEF DeliveryStep, DeliveryTable
    <2>15. act[a].pc \in {"lock", "check", "refused", "try", "sent", "missed", "backoff"}
      BY ONLY <2>3 DEF DeliveryStep
    <2> QED BY ONLY <2>8, <2>9, <2>10, <2>11, <2>12, <2>13, <2>14, <2>15
  <1> QED BY ONLY <1>1, <1>4, <1>5, <1>6, <1>7 DEF DeliveryPoints, r

\* A delivery keeps every part of the invariant.
LEMMA DeliveryKeepsPlaces ==
  ASSUME NEW cf, OutboxTypes(cf), Outbox(cf)!Shape, PlaceFacts(cf), LockFacts(cf),
         NEW a \in Deliverers(cf), NEW r, DeliveryPoints(cf, a, r),
         UNCHANGED <<drain, route, now, gap>>
  PROVE  OutboxTypes(cf)' /\ PlaceFacts(cf)' /\ LockFacts(cf)'
  <1>1. OutboxTypes(cf)'
    <2>1. /\ \A i \in DOMAIN spool : spool[i].created \in Nat /\ spool[i].updated \in Nat
          /\ now \in Nat
      BY OutboxFields
    <2>2. /\ spool' \in Seq(RowState(cf)) /\ Len(spool') = Len(spool)
          /\ act' \in [Deliverers(cf) -> ActorState(cf)]
          /\ injected' \in [1..cf.MaxRows -> Nat] /\ turned' \in [1..cf.MaxRows -> Nat]
          /\ moved' \in [1..cf.MaxRows -> {"no", "during", "before"}]
      BY DEF DeliveryPoints
    <2>3. \A i \in DOMAIN spool' : /\ spool'[i].created <= spool'[i].updated
                                   /\ spool'[i].updated <= now
      <3>1. /\ DOMAIN spool' = DOMAIN spool
            /\ \A i \in DOMAIN spool : /\ spool'[i].created = spool[i].created
                                       /\ spool'[i].updated \in {spool[i].updated, now}
        BY DEF DeliveryPoints
      <3>2. \A i \in DOMAIN spool : spool[i].created <= spool[i].updated /\ spool[i].updated <= now
        BY DEF OutboxTypes
      <3> QED BY ONLY <2>1, <3>1, <3>2
    <2>4. /\ drain \in [pc: {"armed", "mark", "done"}, list: SUBSET Nat, heads: Seq(Nat), at: Nat]
          /\ route \in BOOLEAN /\ now \in 0..cf.MaxTime /\ gap \in [1..cf.MaxRows -> Nat]
          /\ Len(spool) <= cf.MaxRows /\ UNCHANGED <<drain, route, now, gap>>
      BY DEF OutboxTypes
    <2> QED BY ONLY <2>2, <2>3, <2>4 DEF OutboxTypes
  <1>2. PlaceFacts(cf)'
    BY UNCHANGED <<drain, now>> DEF DeliveryPoints, DeliveryTable, Engaged, Locking, PlaceFacts,
       Deliverers
  <1>3. LockFacts(cf)'
    <2>1. \A b \in Deliverers(cf) : b # a /\ act'[b].pc \in Locking /\ act'[a].pc \in Locking => act[b].row # r
      BY ONLY LockFacts(cf), DeliveryPoints(cf, a, r), a \in Deliverers(cf)
         DEF LockFacts, DeliveryPoints, DeliveryTable, Locking
    <2>2. act'[a].row = r /\ \A b \in Deliverers(cf) : b # a => act'[b] = act[b]
      BY DEF DeliveryPoints
    <2>3. \A b1, b2 \in Deliverers(cf) :
             act'[b1].pc \in Locking /\ act'[b2].pc \in Locking /\ act'[b1].row = act'[b2].row => b1 = b2
      BY ONLY LockFacts(cf), <2>1, <2>2 DEF LockFacts
    <2>4. \A b \in Deliverers(cf) : act'[b].pc \in Locking => spool'[act'[b].row].status # "delivered"
      <3>1. act'[a].pc \in Locking => spool'[r].status # "delivered"
        BY ONLY LockFacts(cf), DeliveryPoints(cf, a, r), a \in Deliverers(cf)
           DEF LockFacts, DeliveryPoints, DeliveryTable, Locking
      <3>2. ASSUME NEW b \in Deliverers(cf), b # a, act[b].pc \in Locking
            PROVE  spool'[act[b].row].status # "delivered"
        BY <3>2, DeliveryPoints(cf, a, r) DEF LockFacts, PlaceFacts, Locking, DeliveryPoints,
           DeliveryTable
      <3> QED BY ONLY <2>2, <3>1, <3>2
    <2> QED BY ONLY <2>3, <2>4 DEF LockFacts
  <1> QED BY <1>1, <1>2, <1>3

LEMMA DeliveryKeepsRoute ==
  ASSUME NEW cf, OutboxTypes(cf), Outbox(cf)!Shape, PlaceFacts(cf), LockFacts(cf), RouteFacts(cf),
         SentFacts(cf), NEW a \in Deliverers(cf), NEW r, DeliveryPoints(cf, a, r),
         UNCHANGED <<drain, route, now, gap>>
  PROVE  RouteFacts(cf)' /\ SentFacts(cf)'
  <1>1. /\ \A b \in Deliverers(cf) : act[b].pc # "idle" => act[b].row \in DOMAIN spool
        /\ DOMAIN spool \subseteq 1..cf.MaxRows
        /\ \A i \in 1..cf.MaxRows : injected[i] \in Nat /\ turned[i] \in Nat
        /\ route \in BOOLEAN
    BY OutboxFields DEF OutboxTypes, PlaceFacts
  <1>2. /\ \A b \in Deliverers(cf) : b # a => act'[b] = act[b]
        /\ act'[a].row = r /\ act[a].row = r /\ r \in DOMAIN spool /\ DOMAIN spool' = DOMAIN spool
        /\ \A i \in DOMAIN spool : i # r => spool'[i].status = spool[i].status
        /\ \A i \in 1..cf.MaxRows : i # r =>
              injected'[i] = injected[i] /\ turned'[i] = turned[i] /\ moved'[i] = moved[i]
        /\ \A i \in 1..cf.MaxRows : injected'[i] \in Nat /\ turned'[i] \in Nat
    BY DEF DeliveryPoints
  <1>3. DeliveryTable(cf, a, r, act[a].pc, act'[a].pc, spool[r].status, spool'[r].status,
                      injected[r], injected'[r], turned[r], turned'[r], moved[r], moved'[r])
    BY DEF DeliveryPoints
  <1>4. \A b \in Deliverers(cf) :
           act[b].pc \in Locking /\ act[a].pc \in Locking /\ act[b].row = r => b = a
    BY <1>2 DEF LockFacts
  <1>5. act[a].pc \in Locking => spool[r].status # "delivered" BY <1>2 DEF LockFacts
  <1>6. /\ act'[a].pc \in {"try", "missed", "backoff"} /\ ~route /\ ~cf.Blind => moved'[r] # "no"
        /\ act'[a].pc = "sent" /\ turned'[r] = 0 => moved'[r] # "no"
        /\ act'[a].pc = "sent" => injected'[r] > 0
        /\ spool'[r].status = "delivered" => injected'[r] > 0
        /\ spool'[r].status = "delivered" /\ turned'[r] = 0 => moved'[r] # "no"
    BY <1>2, <1>1, <1>3, <1>5 DEF RouteFacts, SentFacts, DeliveryTable, Locking
  <1>7. ASSUME NEW b \in Deliverers(cf), b # a
        PROVE  /\ act[b].pc \in {"try", "missed", "backoff"} /\ ~route /\ ~cf.Blind => moved'[act[b].row] # "no"
               /\ act[b].pc = "sent" /\ turned'[act[b].row] = 0 => moved'[act[b].row] # "no"
               /\ act[b].pc = "sent" => injected'[act[b].row] > 0
    BY <1>3, <1>4, <1>7, b \in Deliverers(cf), <1>1, <1>2 DEF RouteFacts, SentFacts, DeliveryTable,
       Locking
  <1>8. \A i \in DOMAIN spool : i # r =>
           /\ spool'[i].status = "delivered" => injected'[i] > 0
           /\ spool'[i].status = "delivered" /\ turned'[i] = 0 => moved'[i] # "no"
    BY ONLY <1>1, <1>2, RouteFacts(cf), SentFacts(cf) DEF RouteFacts, SentFacts
  <1>9. SentFacts(cf)' BY ONLY <1>2, <1>6, <1>7, <1>8 DEF SentFacts
  <1>10. RouteFacts(cf)' BY ONLY <1>2, <1>6, <1>7, <1>8, UNCHANGED route DEF RouteFacts
  <1> QED BY <1>9, <1>10

LEMMA DeliveryKeepsMerged ==
  ASSUME NEW cf, OutboxTypes(cf), Outbox(cf)!Shape, PlaceFacts(cf), LockFacts(cf),
         MergeFacts(cf), NEW a \in Deliverers(cf), NEW r, DeliveryPoints(cf, a, r),
         UNCHANGED <<drain, route, now, gap>>
  PROVE  /\ MergeFacts(cf)'
         /\ Unmarked(cf) /\ OneOpenRow(cf) => OneOpenRow(cf)'
         /\ Alone(cf) /\ OneSender(cf) => OneSender(cf)'
  <1>1. /\ \A b \in Deliverers(cf) : b # a => act'[b] = act[b]
        /\ act'[a].row = r /\ act[a].row = r /\ r \in DOMAIN spool /\ DOMAIN spool' = DOMAIN spool
        /\ \A i \in DOMAIN spool : i # r => spool'[i].status = spool[i].status
        /\ \A i \in DOMAIN spool : spool'[i].text = spool[i].text /\ spool'[i].created = spool[i].created
    BY DEF DeliveryPoints
  <1>2. DeliveryTable(cf, a, r, act[a].pc, act'[a].pc, spool[r].status, spool'[r].status,
                      injected[r], injected'[r], turned[r], turned'[r], moved[r], moved'[r])
    BY DEF DeliveryPoints
  <1>3. \A i \in DOMAIN spool : \/ spool'[i].status = spool[i].status
                                \/ spool'[i].status \in {"pending", "failed", "delivered"}
    BY ONLY <1>1, <1>2 DEF DeliveryTable
  <1>4. act[a].pc \in Locking => spool[r].status # "delivered" BY <1>1 DEF LockFacts
  <1>5. spool[r].status = "delivered" => spool'[r].status = "delivered"
    BY ONLY <1>2, <1>4 DEF DeliveryTable, Locking
  <1>6. /\ act[a].pc \in Engaged /\ act'[a].pc # "lock"
        /\ spool'[r].status # spool[r].status => act[a].pc \in Locking
        /\ spool'[r].status = "delivered" => spool[r].status = "delivered" \/ act[a].pc = "sent"
    BY ONLY <1>2 DEF DeliveryTable, Engaged, Locking
  <1>7. /\ DOMAIN spool = 1..Len(spool) /\ drain.list \subseteq DOMAIN spool
        /\ \A i \in DOMAIN drain.heads : drain.heads[i] \in DOMAIN spool
        /\ \A b \in Deliverers(cf) : act[b].pc # "idle" => act[b].row \in DOMAIN spool
        /\ Len(spool) \in Nat
    BY OutboxFields DEF PlaceFacts
  <1>8. UNCHANGED drain /\ UNCHANGED now OBVIOUS
  <1>9. MergeFacts(cf)'
    <2>1. ASSUME NEW i \in DOMAIN spool, spool'[i].status = "merged"
          PROVE  \E h \in 1..(i - 1) : spool'[h].text = spool'[i].text /\ spool'[h].status # "merged"
      <3>1. spool[i].status = "merged" BY <1>3, <2>1
      <3>2. PICK h \in 1..(i - 1) : spool[h].text = spool[i].text /\ spool[h].status # "merged"
        BY <3>1 DEF MergeFacts
      <3>3. h \in DOMAIN spool BY ONLY <1>7, <3>2, i \in DOMAIN spool
      <3>4. spool'[h].status # "merged" BY ONLY <1>3, <3>2, <3>3
      <3> QED BY ONLY <1>1, <3>2, <3>3, <3>4
    <2>2. \A q \in drain.list : spool'[q].status \notin {"merged", "stale"}
      BY ONLY <1>3, <1>7, MergeFacts(cf) DEF MergeFacts
    <2>3. \A i \in DOMAIN drain.heads :
             /\ spool'[drain.heads[i]].status \notin {"merged", "stale"}
             /\ \A q \in drain.list : drain.heads[i] < q
      BY ONLY <1>3, <1>7, MergeFacts(cf) DEF MergeFacts
    <2>4. act'["drain"].pc \in Engaged => spool'[act'["drain"].row].status \notin {"merged", "stale"}
      BY <1>7, <1>1, <1>6, <1>3 DEF Deliverers, MergeFacts, Engaged, Locking
    <2> QED BY ONLY <1>1, <1>8, <2>1, <2>2, <2>3, <2>4 DEF MergeFacts
  <1>10. ASSUME OneOpenRow(cf) PROVE OneOpenRow(cf)'
    <2>1. \A i \in DOMAIN spool : spool'[i].status \notin {"merged", "stale"}
      BY ONLY <1>3, <1>10 DEF OneOpenRow
    <2>2. \A i \in DOMAIN spool : spool[i].status = "delivered" => spool'[i].status = "delivered"
      BY ONLY <1>1, <1>5
    <2> QED BY ONLY <1>1, <1>7, <1>8, <1>10, <2>1, <2>2 DEF OneOpenRow
  <1>11. ASSUME Alone(cf), OneSender(cf) PROVE OneSender(cf)'
    <2>1. InDrain(cf)' = InDrain(cf) /\ InDrain(cf) \subseteq DOMAIN spool BY <1>7, <1>8 DEF InDrain
    <2>2. \A i, j \in DOMAIN spool : Apart(cf, i, j) => Apart(cf, i, j)' BY ONLY <1>1 DEF Apart
    <2>3. ASSUME NEW i \in DOMAIN spool, Owed(cf, i)' PROVE Owed(cf, i)
      BY <1>1, <2>3, a \in Deliverers(cf), i \in DOMAIN spool, <1>6, <1>5 DEF Owed, Unsent
    <2>4. ASSUME NEW i \in DOMAIN spool, NEW j \in DOMAIN spool, i < j,
                 spool'[i].text = spool'[j].text, Owed(cf, i)'
          PROVE  Apart(cf, i, j)'
      BY <1>1, <2>3, <2>4, <1>11, <2>2 DEF OneSender
    <2>5. \A i, j \in InDrain(cf) : i < j /\ spool'[i].text = spool'[j].text => Apart(cf, i, j)'
      <3> SUFFICES ASSUME NEW i \in InDrain(cf), NEW j \in InDrain(cf), i < j,
                          spool'[i].text = spool'[j].text
                   PROVE  Apart(cf, i, j)'
        OBVIOUS
      <3>1. i \in DOMAIN spool /\ j \in DOMAIN spool /\ spool[i].text = spool[j].text
        BY ONLY <1>1, <2>1, i \in InDrain(cf), j \in InDrain(cf), spool'[i].text = spool'[j].text
      <3>2. Apart(cf, i, j)
        BY ONLY <3>1, <1>11, i < j, i \in InDrain(cf), j \in InDrain(cf) DEF OneSender
      <3> QED BY ONLY <2>2, <3>1, <3>2
    <2>6. \A i \in DOMAIN drain.heads : drain.at <= spool'[drain.heads[i]].created + cf.MaxAge
      BY ONLY <1>1, <1>7, <1>11 DEF OneSender
    <2>7. ASSUME NEW p \in cf.Senders, act'[p].pc = "lock", act'[p].row \in drain.list,
                 spool'[act'[p].row].status = "delivered"
          PROVE  /\ drain.at <= spool'[act'[p].row].created + cf.MaxAge
                 /\ \A h \in InDrain(cf) : h < act'[p].row /\ spool'[h].text = spool'[act'[p].row].text
                       => drain.at > spool'[h].created + cf.MaxAge
      <3>1. p \in Deliverers(cf) /\ p # a BY <1>6, <2>7 DEF Deliverers
      <3>2. act'[p] = act[p] /\ act[p].row \in DOMAIN spool BY ONLY <1>1, <1>7, <2>7, <3>1
      <3>3. spool[act[p].row].status = "delivered"
        BY <1>6, <1>8, <2>7, <3>2, <1>11, <3>1 DEF PlaceFacts, Engaged, Locking, Deliverers, Alone
      <3>4. /\ drain.at <= spool[act[p].row].created + cf.MaxAge
            /\ \A h \in InDrain(cf) : h < act[p].row /\ spool[h].text = spool[act[p].row].text
                  => drain.at > spool[h].created + cf.MaxAge
        BY ONLY <1>11, <2>7, <3>2, <3>3 DEF OneSender
      <3> QED BY ONLY <1>1, <2>1, <3>2, <3>4
    <2> QED BY ONLY <1>1, <1>8, <2>1, <2>4, <2>5, <2>6, <2>7 DEF OneSender
  <1> QED BY <1>9, <1>10, <1>11

LEMMA DeliveryKeepsOnce ==
  ASSUME NEW cf, OutboxTypes(cf), Outbox(cf)!Shape, PlaceFacts(cf), LockFacts(cf),
         OnceFacts(cf), NEW a \in Deliverers(cf), NEW r, DeliveryPoints(cf, a, r),
         UNCHANGED <<drain, route, now, gap>>
  PROVE  OnceFacts(cf)'
  <1>1. /\ \A b \in Deliverers(cf) : b # a => act'[b] = act[b]
        /\ act'[a].row = r /\ act[a].row = r /\ r \in DOMAIN spool /\ DOMAIN spool' = DOMAIN spool
        /\ \A i \in DOMAIN spool : i # r => spool'[i].status = spool[i].status
        /\ \A i \in 1..cf.MaxRows : i # r => injected'[i] = injected[i]
    BY DEF DeliveryPoints
  <1>2. DeliveryTable(cf, a, r, act[a].pc, act'[a].pc, spool[r].status, spool'[r].status,
                      injected[r], injected'[r], turned[r], turned'[r], moved[r], moved'[r])
    BY DEF DeliveryPoints
  <1>3. /\ DOMAIN spool \subseteq 1..cf.MaxRows /\ r \in 1..cf.MaxRows
        /\ \A i \in 1..cf.MaxRows : injected[i] \in Nat /\ gap[i] \in Nat
        /\ \A b \in Deliverers(cf) : act[b].pc # "idle" => act[b].row \in DOMAIN spool
    BY <1>1, OutboxFields DEF OutboxTypes, PlaceFacts
  <1>4. \A b \in Deliverers(cf) :
           act[b].pc \in Locking /\ act[a].pc \in Locking /\ act[b].row = r => b = a
    BY <1>1 DEF LockFacts
  <1>5. /\ injected[r] <= gap[r] + 1
        /\ injected[r] > gap[r] =>
              \/ spool[r].status = "delivered" \/ Shut(cf, r)
              \/ \E b \in Deliverers(cf) : act[b].pc = "sent" /\ act[b].row = r
        /\ act[a].pc \in Locking /\ act[a].pc # "sent" => injected[r] <= gap[r]
    BY <1>1, <1>3 DEF OnceFacts
  <1>6. act[a].pc = "lock" /\ act'[a].pc = "check" => injected[r] <= gap[r]
    <2>1. ASSUME act[a].pc = "lock", act'[a].pc = "check", injected[r] > gap[r] PROVE FALSE
      BY <1>2, <2>1, <1>5, <1>1, a \in Deliverers(cf) DEF DeliveryTable, Locking, Shut, Engaged
    <2> QED BY <2>1, <1>3
  <1>7. /\ injected'[r] <= gap[r] + 1
        /\ injected'[r] > gap[r] => spool'[r].status = "delivered" \/ act'[a].pc = "sent"
                                    \/ (Shut(cf, r) /\ act'[a].pc = act[a].pc)
        /\ act'[a].pc \in Locking /\ act'[a].pc # "sent" => injected'[r] <= gap[r]
    BY <1>3, <1>2, <1>5, <1>6 DEF DeliveryTable, Locking
  <1>8. ASSUME NEW b \in Deliverers(cf), b # a, act[b].pc \in Locking, act[b].pc # "sent"
        PROVE  injected'[act[b].row] <= gap[act[b].row]
    BY <1>3, <1>8, <1>2, <1>4, b \in Deliverers(cf), <1>1 DEF OnceFacts, Locking, DeliveryTable
  <1>9. ASSUME NEW i \in 1..cf.MaxRows, i # r, injected'[i] > gap[i]
        PROVE  /\ i \in DOMAIN spool
               /\ \/ spool'[i].status = "delivered" \/ Shut(cf, i)'
                  \/ \E b \in Deliverers(cf) : act'[b].pc = "sent" /\ act'[b].row = i
    BY <1>1, <1>9, a \in Deliverers(cf), UNCHANGED drain DEF OnceFacts, Shut
  <1>10. act'[a].pc # act[a].pc BY ONLY <1>2 DEF DeliveryTable
  <1>11. UNCHANGED gap OBVIOUS
  <1>12. \A i \in 1..cf.MaxRows : injected'[i] <= gap[i] + 1
    BY <1>1, <1>7 DEF OnceFacts
  <1> QED BY ONLY <1>1, <1>3, <1>7, <1>8, <1>9, <1>10, <1>11, <1>12, a \in Deliverers(cf)
          DEF OnceFacts

LEMMA OldestIs ==
  ASSUME NEW cf, NEW n \in Nat, NEW S \in SUBSET (1..n), S # {}
  PROVE  Outbox(cf)!Oldest(S) \in S /\ \A q \in S : Outbox(cf)!Oldest(S) <= q
  BY LeastIs DEF Outbox!Oldest

\* An actor that leaves, its answer given, cancelled or its drain over.
LEMMA LeavesKept ==
  ASSUME NEW cf, Outbox(cf)!Shape, OutboxInv(cf), NEW a \in Deliverers(cf), act[a].pc # "sent",
         act' = [act EXCEPT ![a] = Outbox(cf)!Idle],
         UNCHANGED <<spool, route, now, injected, turned, gap, moved>>,
         \/ UNCHANGED drain
         \/ /\ a = "drain" /\ drain' = [drain EXCEPT !.pc = "done"]
            /\ drain.list = {} /\ drain.heads = <<>>
  PROVE  OutboxInv(cf)'
  <1> USE DEF OutboxInv
  <1>1. act \in [Deliverers(cf) -> ActorState(cf)] BY DEF OutboxTypes
  <1>2. Outbox(cf)!Idle \in ActorState(cf)
    BY OutboxFields DEF Outbox!Idle, ActorState
  <1>3. Outbox(cf)!Idle.pc = "idle" BY DEF Outbox!Idle
  <1>4. /\ act' \in [Deliverers(cf) -> ActorState(cf)] /\ act'[a].pc = "idle"
        /\ \A b \in Deliverers(cf) : b # a => act'[b] = act[b]
    BY ONLY <1>1, <1>2, <1>3, a \in Deliverers(cf), act' = [act EXCEPT ![a] = Outbox(cf)!Idle]
  <1>5. drain \in [pc: {"armed", "mark", "done"}, list: SUBSET Nat, heads: Seq(Nat), at: Nat]
    BY DEF OutboxTypes
  <1>6. /\ drain' \in [pc: {"armed", "mark", "done"}, list: SUBSET Nat, heads: Seq(Nat), at: Nat]
        /\ drain'.list = drain.list /\ drain'.heads = drain.heads /\ drain'.at = drain.at
        /\ \/ UNCHANGED drain
           \/ a = "drain" /\ drain'.pc = "done" /\ drain.list = {} /\ drain.heads = <<>>
    BY <1>5
  <1>7. OutboxTypes(cf)'
    BY ONLY <1>4, <1>6, OutboxTypes(cf), UNCHANGED <<spool, route, now, injected, turned, gap, moved>>
       DEF OutboxTypes
  <1>8. PlaceFacts(cf)'
    <2>1. drain'.pc # "mark" \/ drain'.list # {} => act'["drain"].pc = "idle"
      BY <1>4, PlaceFacts(cf), <1>6 DEF Deliverers, PlaceFacts
    <2> QED BY ONLY <1>4, <1>6, <2>1, PlaceFacts(cf), UNCHANGED <<spool, now>> DEF PlaceFacts
  <1>9. LockFacts(cf)' BY ONLY <1>4, LockFacts(cf), UNCHANGED spool DEF LockFacts, Locking
  <1>10. RouteFacts(cf)'
    BY ONLY <1>4, RouteFacts(cf), UNCHANGED <<spool, route, turned, moved>> DEF RouteFacts
  <1>11. SentFacts(cf)' BY ONLY <1>4, SentFacts(cf), UNCHANGED <<spool, injected>> DEF SentFacts
  <1>12. MergeFacts(cf)'
    BY <1>4, <1>6, MergeFacts(cf), UNCHANGED spool DEF Deliverers, MergeFacts, Engaged, Locking
  <1>13. OneOpenRow(cf) => OneOpenRow(cf)' BY ONLY <1>6, UNCHANGED spool DEF OneOpenRow
  <1>14. ASSUME OneSender(cf) PROVE OneSender(cf)'
    <2>1. \A i : Owed(cf, i)' => Owed(cf, i)
      BY ONLY <1>4, UNCHANGED spool DEF Owed, Engaged, Locking
    <2>2. InDrain(cf)' = InDrain(cf) BY <1>6 DEF InDrain
    <2>3. \A i, j : Apart(cf, i, j)' = Apart(cf, i, j) BY ONLY UNCHANGED spool DEF Apart
    <2>4. \A p \in cf.Senders : p \in Deliverers(cf) BY DEF Deliverers
    <2> QED BY ONLY <1>4, <1>6, <1>14, <2>1, <2>2, <2>3, <2>4, UNCHANGED spool, SMTT(30)
           DEF OneSender
  <1>15. ASSUME OnceFacts(cf) PROVE OnceFacts(cf)'
    BY <1>4, <1>6, UNCHANGED spool, <1>15, act[a].pc # "sent", UNCHANGED <<spool, injected, gap>>
       DEF Shut, Engaged, Locking, OnceFacts
  <1> QED BY ONLY <1>7, <1>8, <1>9, <1>10, <1>11, <1>12, <1>13, <1>14, <1>15, OutboxInv(cf) DEF OutboxInv

\* The clock and the route.
LEMMA TimePassesKept ==
  ASSUME NEW cf, Outbox(cf)!Shape, OutboxInv(cf), Outbox(cf)!Tick
  PROVE  OutboxInv(cf)'
  <1> USE DEF OutboxInv
  <1>1. /\ UNCHANGED <<spool, act, drain, route, injected, turned, gap, moved>>
        /\ now < cf.MaxTime /\ now' = now + 1 /\ drain.pc # "mark"
    BY DEF Outbox!Tick
  <1>2. /\ now \in Nat /\ cf.MaxTime \in Nat
        /\ \A r \in DOMAIN spool : spool[r].created \in Nat /\ spool[r].updated \in Nat
    BY OutboxFields
  <1>3. OutboxTypes(cf)'
    BY <1>1, <1>2, OutboxTypes(cf) DEF OutboxTypes
  <1>4. PlaceFacts(cf)' BY ONLY <1>1, PlaceFacts(cf) DEF PlaceFacts
  <1>5. LockFacts(cf)' /\ RouteFacts(cf)' /\ SentFacts(cf)' /\ MergeFacts(cf)'
    BY ONLY <1>1, OutboxInv(cf) DEF LockFacts, RouteFacts, SentFacts, MergeFacts
  <1>6. OneOpenRow(cf)' = OneOpenRow(cf) BY ONLY <1>1 DEF OneOpenRow
  <1>7. OneSender(cf)' = OneSender(cf) BY ONLY <1>1 DEF OneSender, Apart, InDrain, Owed
  <1>8. OnceFacts(cf)' = OnceFacts(cf) BY ONLY <1>1 DEF OnceFacts, Shut
  <1> QED BY ONLY <1>3, <1>4, <1>5, <1>6, <1>7, <1>8, OutboxInv(cf) DEF OutboxInv

LEMMA RouteMovesKept ==
  ASSUME NEW cf, Outbox(cf)!Shape, OutboxInv(cf), Outbox(cf)!RouteCloses \/ Outbox(cf)!RouteOpens
  PROVE  OutboxInv(cf)'
  <1> USE DEF OutboxInv
  <1>1. UNCHANGED <<spool, act, drain, now, injected, turned, gap>>
    BY DEF Outbox!RouteCloses, Outbox!RouteOpens
  <1>2. PlaceFacts(cf)' /\ LockFacts(cf)' /\ SentFacts(cf)' /\ MergeFacts(cf)'
    BY ONLY <1>1, OutboxInv(cf) DEF PlaceFacts, LockFacts, SentFacts, MergeFacts
  <1>3. OneOpenRow(cf)' = OneOpenRow(cf) BY ONLY <1>1 DEF OneOpenRow
  <1>4. OneSender(cf)' = OneSender(cf) BY ONLY <1>1 DEF OneSender, Apart, InDrain, Owed
  <1>5. OnceFacts(cf)' = OnceFacts(cf) BY ONLY <1>1 DEF OnceFacts, Shut
  <1>6. OutboxTypes(cf)' /\ RouteFacts(cf)'
    <2>1. CASE Outbox(cf)!RouteOpens
      BY <2>1, <1>1, OutboxTypes(cf), RouteFacts(cf) DEF Outbox!RouteOpens, OutboxTypes, RouteFacts
    <2>2. CASE Outbox(cf)!RouteCloses
      <3> DEFINE Near(r, S) == \E a \in Deliverers(cf) : act[a].row = r /\ act[a].pc \in S
      <3>1. /\ route' = FALSE /\ Outbox(cf)!Actors = Deliverers(cf) /\ Outbox(cf)!Rows = 1..cf.MaxRows
            /\ moved' = [r \in Outbox(cf)!Rows |->
                   IF \E a \in Outbox(cf)!Actors : act[a].row = r /\ act[a].pc = "try" THEN "during"
                   ELSE IF \E a \in Outbox(cf)!Actors : act[a].row = r /\ act[a].pc \in {"missed", "backoff"} THEN "before"
                   ELSE moved[r]]
        BY <2>2, OutboxFields DEF Outbox!RouteCloses
      <3>2. moved' = [r \in 1..cf.MaxRows |-> IF Near(r, {"try"}) THEN "during"
                                              ELSE IF Near(r, {"missed", "backoff"}) THEN "before"
                                              ELSE moved[r]]
        BY ONLY <3>1
      <3> HIDE DEF Near
      <3>3. \A r \in 1..cf.MaxRows : moved[r] \in {"no", "during", "before"} BY DEF OutboxTypes
      <3>4. /\ moved' \in [1..cf.MaxRows -> {"no", "during", "before"}]
            /\ \A r \in 1..cf.MaxRows :
                  /\ moved[r] # "no" => moved'[r] # "no"
                  /\ Near(r, {"try"}) \/ Near(r, {"missed", "backoff"}) => moved'[r] # "no"
        BY ONLY <3>2, <3>3
      <3>5. OutboxTypes(cf)' BY ONLY <1>1, <3>1, <3>4, OutboxTypes(cf) DEF OutboxTypes
      <3>6. /\ DOMAIN spool \subseteq 1..cf.MaxRows
            /\ \A a \in Deliverers(cf) : act[a].pc # "idle" => act[a].row \in 1..cf.MaxRows
        BY OutboxFields DEF PlaceFacts
      <3>7. \A a \in Deliverers(cf) : act[a].pc \in {"try", "missed", "backoff"} =>
               moved'[act[a].row] # "no"
        <4> SUFFICES ASSUME NEW a \in Deliverers(cf), act[a].pc \in {"try", "missed", "backoff"}
                     PROVE  moved'[act[a].row] # "no"
          OBVIOUS
        <4>1. Near(act[a].row, {"try"}) \/ Near(act[a].row, {"missed", "backoff"}) BY DEF Near
        <4> QED BY <3>4, <3>6, <4>1
      <3>8. RouteFacts(cf)'
        BY ONLY <1>1, <3>4, <3>6, <3>7, RouteFacts(cf) DEF RouteFacts
      <3> QED BY <3>5, <3>8
    <2> QED BY <2>1, <2>2
  <1> QED BY ONLY <1>2, <1>3, <1>4, <1>5, <1>6, OutboxInv(cf) DEF OutboxInv

\* A restart: tasks and snapshot are gone, and what was sent has no record.
LEMMA OutboxCrashKept ==
  ASSUME NEW cf, Outbox(cf)!Shape, OutboxInv(cf), Outbox(cf)!Crash
  PROVE  OutboxInv(cf)'
  <1> USE DEF OutboxInv
  <1> DEFINE At(r) == {a \in Deliverers(cf) : act[a].pc = "sent" /\ act[a].row = r}
             Card(r) == Outbox(cf)!Cardinality(At(r))
  <1>1. /\ UNCHANGED <<spool, route, now, injected, turned, moved>>
        /\ act' = [a \in Deliverers(cf) |-> Outbox(cf)!Idle]
        /\ drain' = [pc |-> "armed", list |-> {}, heads |-> <<>>, at |-> 0]
        /\ gap' = [r \in 1..cf.MaxRows |-> gap[r] + Card(r)]
    BY OutboxFields DEF Outbox!Crash, Outbox!Asleep
  <1>2. \A a \in Deliverers(cf) : act'[a].pc = "idle"
    BY ONLY <1>1 DEF Outbox!Idle
  <1>3. /\ drain'.pc = "armed" /\ drain'.list = {} /\ drain'.heads = <<>>
        /\ DOMAIN drain'.heads = {}
        /\ drain' \in [pc: {"armed", "mark", "done"}, list: SUBSET Nat, heads: Seq(Nat), at: Nat]
    BY ONLY <1>1
  <1>4. \A r \in 1..cf.MaxRows : Card(r) \in {0, 1} /\ (At(r) # {} => Card(r) = 1)
    <2> SUFFICES ASSUME NEW r \in 1..cf.MaxRows PROVE Card(r) \in {0, 1} /\ (At(r) # {} => Card(r) = 1)
      OBVIOUS
    <2>1. Card(r) = Cardinality(At(r)) BY DEF Outbox!Cardinality, Cardinality, Outbox!IsFiniteSet, IsFiniteSet
    <2>2. CASE At(r) = {} BY <2>1, <2>2, FS_EmptySet
    <2>3. ASSUME NEW a \in At(r) PROVE Card(r) = 1
      <3>1. At(r) = {a}
        BY LockFacts(cf), a \in At(r) DEF LockFacts, Locking
      <3> HIDE DEF At
      <3> QED BY <2>1, <3>1, FS_Singleton
    <2> HIDE DEF At, Card
    <2> QED BY ONLY <2>2, <2>3
  <1>5. /\ gap' \in [1..cf.MaxRows -> Nat]
        /\ \A r \in 1..cf.MaxRows : gap'[r] >= gap[r] /\ (At(r) # {} => gap'[r] = gap[r] + 1)
    <2>1. \A r \in 1..cf.MaxRows : gap[r] \in Nat BY DEF OutboxTypes
    <2> HIDE DEF At, Card
    <2> QED BY ONLY <1>1, <1>4, <2>1
  <1>6. OutboxTypes(cf)'
    <2>1. Outbox(cf)!Idle \in ActorState(cf)
      BY OutboxFields DEF Outbox!Idle, ActorState
    <2>2. act' \in [Deliverers(cf) -> ActorState(cf)] BY ONLY <1>1, <2>1
    <2> QED BY ONLY <1>1, <1>3, <1>5, <2>2, OutboxTypes(cf) DEF OutboxTypes
  <1>7. "drain" \in Deliverers(cf) BY DEF Deliverers
  <1>8. PlaceFacts(cf)' /\ LockFacts(cf)' /\ RouteFacts(cf)' /\ SentFacts(cf)' /\ MergeFacts(cf)'
    BY <1>2, <1>3, <1>7, <1>1, RouteFacts(cf), SentFacts(cf), MergeFacts(cf) DEF PlaceFacts, LockFacts,
       Locking, RouteFacts, SentFacts, MergeFacts, Engaged
  <1>9. OneOpenRow(cf) => OneOpenRow(cf)' BY ONLY <1>1, <1>3 DEF OneOpenRow
  <1>10. ASSUME OneSender(cf) PROVE OneSender(cf)'
    BY <1>1, <1>2, <1>3, <1>10 DEF Owed, Engaged, Locking, InDrain, Apart, OneSender
  <1>11. ASSUME OnceFacts(cf) PROVE OnceFacts(cf)'
    <2>1. \A r \in 1..cf.MaxRows : injected[r] \in Nat /\ gap[r] \in Nat /\ gap'[r] \in Nat
      BY <1>5 DEF OutboxTypes
    <2>2. \A r \in 1..cf.MaxRows : injected[r] <= gap'[r] + 1 /\ (injected[r] > gap'[r] => injected[r] > gap[r])
      <3>1. \A r \in 1..cf.MaxRows : injected[r] <= gap[r] + 1 BY <1>11 DEF OnceFacts
      <3> HIDE DEF At
      <3> QED BY ONLY <1>5, <2>1, <3>1
    <2>3. ASSUME NEW r \in 1..cf.MaxRows, injected[r] > gap'[r]
          PROVE  r \in DOMAIN spool /\ (spool[r].status = "delivered" \/ Shut(cf, r))
      <3>1. At(r) = {}
        <4>1. injected[r] <= gap[r] + 1 BY <1>11 DEF OnceFacts
        <4> HIDE DEF At
        <4> QED BY ONLY <1>5, <2>1, <2>3, <4>1
      <3>2. injected[r] > gap[r] BY <2>2, <2>3
      <3> QED BY <1>11, <3>1, <3>2 DEF OnceFacts
    <2>4. \A r : Shut(cf, r) => Shut(cf, r)'
      BY ONLY <1>1, <1>2, <1>3 DEF Shut, Engaged, Locking
    <2> QED BY ONLY <1>1, <1>2, <2>2, <2>3, <2>4 DEF OnceFacts, Locking
  <1> QED BY ONLY <1>6, <1>8, <1>9, <1>10, <1>11, OutboxInv(cf) DEF OutboxInv

\* The drain takes its snapshot.
LEMMA DrainReadsKept ==
  ASSUME NEW cf, Outbox(cf)!Shape, OutboxInv(cf), Outbox(cf)!DrainReads
  PROVE  OutboxInv(cf)'
  <1> USE DEF OutboxInv
  <1>1. /\ UNCHANGED <<spool, act, route, now, injected, turned, gap, moved>>
        /\ drain.pc = "armed"
        /\ drain' = [pc |-> "mark", heads |-> <<>>, at |-> now,
                     list |-> {r \in DOMAIN spool : spool[r].status \in Unsent}]
    BY DEF Outbox!DrainReads, Outbox!Undelivered, Unsent
  <1>2. /\ drain'.pc = "mark" /\ drain'.heads = <<>> /\ drain'.at = now /\ DOMAIN drain'.heads = {}
        /\ drain'.list = {r \in DOMAIN spool : spool[r].status \in Unsent}
    BY ONLY <1>1
  <1>3. DOMAIN spool = 1..Len(spool) /\ Len(spool) \in Nat /\ now \in Nat BY OutboxFields
  <1>4. OutboxTypes(cf)'
    <2>1. drain' \in [pc: {"armed", "mark", "done"}, list: SUBSET Nat, heads: Seq(Nat), at: Nat]
      BY <1>3, <1>1
    <2> QED BY ONLY <1>1, <2>1, OutboxTypes(cf) DEF OutboxTypes
  <1>5. act["drain"].pc = "idle" /\ "drain" \in Deliverers(cf) BY <1>1 DEF PlaceFacts, Deliverers
  <1>6. PlaceFacts(cf)' BY ONLY <1>1, <1>2, <1>5, PlaceFacts(cf) DEF PlaceFacts
  <1>7. LockFacts(cf)' /\ RouteFacts(cf)' /\ SentFacts(cf)'
    BY ONLY <1>1, OutboxInv(cf) DEF LockFacts, RouteFacts, SentFacts
  <1>8. MergeFacts(cf)' BY ONLY <1>1, <1>2, <1>5, MergeFacts(cf) DEF MergeFacts, Unsent
  <1>9. ASSUME OneOpenRow(cf) PROVE OneOpenRow(cf)'
    <2>1. \A i, j \in drain'.list : i # j => spool[i].text # spool[j].text
      <3> SUFFICES ASSUME NEW i \in drain'.list, NEW j \in drain'.list, i # j,
                          spool[i].text = spool[j].text
                   PROVE  FALSE
        OBVIOUS
      <3>1. i \in DOMAIN spool /\ j \in DOMAIN spool /\ (i < j \/ j < i) BY <1>2, <1>3
      <3>2. spool[i].status # "delivered" /\ spool[j].status # "delivered" BY <1>2 DEF Unsent
      <3> QED BY <1>9, <3>1, <3>2 DEF OneOpenRow
    <2> QED BY ONLY <1>1, <1>2, <1>9, <2>1 DEF OneOpenRow
  <1>10. ASSUME OneSender(cf) PROVE OneSender(cf)'
    BY <1>1, <1>2, <1>10 DEF Owed, InDrain, Apart, Unsent, OneSender
  <1>11. ASSUME OnceFacts(cf) PROVE OnceFacts(cf)'
    BY <1>1, <1>2, <1>11 DEF Shut, OnceFacts
  <1> QED BY ONLY <1>4, <1>6, <1>7, <1>8, <1>9, <1>10, <1>11, OutboxInv(cf) DEF OutboxInv

\* The drain turns to the first of its heads.
LEMMA DrainRunsKept ==
  ASSUME NEW cf, Outbox(cf)!Shape, OutboxInv(cf), Outbox(cf)!DrainRuns
  PROVE  OutboxInv(cf)'
  <1> USE DEF OutboxInv
  <1> DEFINE h == Head(drain.heads)
  <1>1. /\ UNCHANGED <<spool, route, now, injected, turned, gap, moved>>
        /\ drain.pc = "mark" /\ drain.list = {} /\ drain.heads # <<>>
        /\ act["drain"].pc \in {"idle", "ok", "error"}
        /\ act' = [act EXCEPT !["drain"].pc = "lock", !["drain"].row = h]
        /\ drain' = [drain EXCEPT !.heads = Tail(@)]
    BY DEF Outbox!DrainRuns, Outbox!Drainer
  <1>2. drain \in [pc: {"armed", "mark", "done"}, list: SUBSET Nat, heads: Seq(Nat), at: Nat]
    BY DEF OutboxTypes
  <1>3. /\ h = drain.heads[1] /\ 1 \in DOMAIN drain.heads /\ h \in Nat /\ Tail(drain.heads) \in Seq(Nat)
        /\ \A i \in DOMAIN Tail(drain.heads) :
              Tail(drain.heads)[i] = drain.heads[i + 1] /\ i + 1 \in DOMAIN drain.heads
    BY <1>2, <1>1, HeadTailIs
  <1>4. /\ drain' \in [pc: {"armed", "mark", "done"}, list: SUBSET Nat, heads: Seq(Nat), at: Nat]
        /\ drain'.pc = "mark" /\ drain'.list = {} /\ drain'.at = drain.at
        /\ drain'.heads = Tail(drain.heads)
    BY ONLY <1>1, <1>2, <1>3
  <1>5. \A i \in DOMAIN drain'.heads : \E k \in DOMAIN drain.heads : drain'.heads[i] = drain.heads[k]
    BY ONLY <1>3, <1>4
  <1>6. h \in DOMAIN spool /\ spool[h].status \notin {"merged", "stale"}
    BY ONLY <1>3, OutboxInv(cf) DEF OutboxInv, PlaceFacts, MergeFacts
  <1> HIDE DEF h
  <1>7. "drain" \in Deliverers(cf) BY DEF Deliverers
  <1>8. /\ act' \in [Deliverers(cf) -> ActorState(cf)]
        /\ act'["drain"].pc = "lock" /\ act'["drain"].row = h
        /\ \A b \in Deliverers(cf) : b # "drain" => act'[b] = act[b]
    <2> DEFINE v == [act["drain"] EXCEPT !.pc = "lock", !.row = h]
    <2>1. act \in [Deliverers(cf) -> ActorState(cf)] BY DEF OutboxTypes
    <2>2. act' = [act EXCEPT !["drain"] = v] BY ONLY <1>1, <1>7, <2>1
    <2>3. v \in ActorState(cf) /\ v.pc = "lock" /\ v.row = h
      BY ONLY <1>3, <1>7, <2>1 DEF ActorState, Engaged
    <2> HIDE DEF v
    <2> QED BY ONLY <1>7, <2>1, <2>2, <2>3
  <1>9. OutboxTypes(cf)' BY ONLY <1>1, <1>4, <1>8, OutboxTypes(cf) DEF OutboxTypes
  <1>10. PlaceFacts(cf)' BY ONLY <1>1, <1>4, <1>5, <1>6, <1>8, PlaceFacts(cf) DEF PlaceFacts
  <1>11. LockFacts(cf)' BY ONLY <1>1, <1>8, LockFacts(cf) DEF LockFacts, Locking
  <1>12. RouteFacts(cf)' BY ONLY <1>1, <1>8, RouteFacts(cf) DEF RouteFacts
  <1>13. SentFacts(cf)' BY ONLY <1>1, <1>8, SentFacts(cf) DEF SentFacts
  <1>14. MergeFacts(cf)' BY ONLY <1>1, <1>4, <1>5, <1>6, <1>8, MergeFacts(cf) DEF MergeFacts
  <1>15. OneOpenRow(cf) => OneOpenRow(cf)' BY ONLY <1>1, <1>4 DEF OneOpenRow
  <1>16. ASSUME OneSender(cf) PROVE OneSender(cf)'
    <2>1. ASSUME NEW i \in DOMAIN spool, Owed(cf, i)' PROVE Owed(cf, i)
      <3>1. CASE i = h
        BY <1>6, OutboxFields, <1>1, <2>1, <3>1 DEF Owed, Unsent
      <3>2. CASE i # h BY ONLY <1>1, <1>7, <1>8, <2>1, <3>2 DEF Owed
      <3> QED BY <3>1, <3>2
    <2>2. InDrain(cf)' \subseteq InDrain(cf) BY ONLY <1>4, <1>5 DEF InDrain
    <2>3. \A i, j : Apart(cf, i, j)' = Apart(cf, i, j) BY ONLY <1>1 DEF Apart
    <2> QED BY ONLY <1>1, <1>4, <1>5, <1>16, <2>1, <2>2, <2>3 DEF OneSender
  <1>17. ASSUME OnceFacts(cf) PROVE OnceFacts(cf)'
    <2>1. \A i : Shut(cf, i) => Shut(cf, i)'
      <3> SUFFICES ASSUME NEW i, Shut(cf, i) PROVE Shut(cf, i)' OBVIOUS
      <3>1. h # i BY <1>3 DEF Shut, h
      <3> QED BY ONLY <1>1, <1>5, <1>8, <3>1, Shut(cf, i) DEF Shut
    <2> QED BY ONLY <1>1, <1>7, <1>8, <1>17, <2>1 DEF OnceFacts, Locking
  <1> QED BY ONLY <1>9, <1>10, <1>11, <1>12, <1>13, <1>14, <1>15, <1>16, <1>17, OutboxInv(cf) DEF OutboxInv

\* The oldest row of the snapshot is marked, or becomes a head.
MarkStep(cf, r) ==
    /\ r \in drain.list /\ \A q \in drain.list : r <= q
    /\ UNCHANGED <<act, route, now, injected, turned, gap, moved>>
    /\ drain'.pc = "mark" /\ drain'.at = drain.at /\ drain'.list = drain.list \ {r}
    /\ drain' \in [pc: {"armed", "mark", "done"}, list: SUBSET Nat, heads: Seq(Nat), at: Nat]
    /\ \/ /\ Outbox(cf)!Stale(r) /\ Writes(cf, r, "stale") /\ drain'.heads = drain.heads
       \/ /\ \E i \in DOMAIN drain.heads : spool[drain.heads[i]].text = spool[r].text
          /\ Writes(cf, r, "merged") /\ drain'.heads = drain.heads
       \/ /\ ~Outbox(cf)!Stale(r) /\ spool' = spool
          /\ \A i \in DOMAIN drain.heads : spool[drain.heads[i]].text # spool[r].text
          /\ DOMAIN drain'.heads = 1..(Len(drain.heads) + 1)
          /\ \A i \in DOMAIN drain.heads : drain'.heads[i] = drain.heads[i]
          /\ drain'.heads[Len(drain.heads) + 1] = r

LEMMA MarkIs ==
  ASSUME NEW cf, Outbox(cf)!Shape, OutboxInv(cf), Outbox(cf)!DrainMarks
  PROVE  \E r \in DOMAIN spool : MarkStep(cf, r) /\ drain.pc = "mark"
  <1> USE DEF OutboxInv
  <1> DEFINE r == Outbox(cf)!Oldest(drain.list)
             stale == Outbox(cf)!Stale(r)
             merged == Outbox(cf)!HeadOf(r) # {}
  <1>1. /\ UNCHANGED <<act, route, now, injected, turned, gap, moved>>
        /\ drain.pc = "mark" /\ drain.list # {}
        /\ IF stale THEN Outbox(cf)!Record(r, "stale")
           ELSE IF merged THEN Outbox(cf)!Record(r, "merged")
           ELSE UNCHANGED spool
        /\ drain' = [drain EXCEPT !.list = @ \ {r},
                                  !.heads = IF stale \/ merged THEN @ ELSE Append(@, r)]
    BY DEF Outbox!DrainMarks
  <1>2. DOMAIN spool = 1..Len(spool) /\ Len(spool) \in Nat /\ drain.list \in SUBSET (DOMAIN spool)
    BY OutboxFields DEF PlaceFacts
  <1>3. r \in drain.list /\ \A q \in drain.list : r <= q BY <1>1, <1>2, OldestIs
  <1>4. r \in DOMAIN spool /\ r \in Nat BY ONLY <1>2, <1>3
  <1>5. merged <=> \E i \in DOMAIN drain.heads : spool[drain.heads[i]].text = spool[r].text
    BY DEF Outbox!HeadOf
  <1> HIDE DEF r, stale, merged
  <1>6. drain \in [pc: {"armed", "mark", "done"}, list: SUBSET Nat, heads: Seq(Nat), at: Nat]
    BY DEF OutboxTypes
  <1>7. drain.heads \in Seq(Nat) BY ONLY <1>6
  <1>8. /\ Append(drain.heads, r) \in Seq(Nat) /\ DOMAIN drain.heads = 1..Len(drain.heads)
        /\ DOMAIN Append(drain.heads, r) = 1..(Len(drain.heads) + 1)
        /\ \A i \in 1..Len(drain.heads) : Append(drain.heads, r)[i] = drain.heads[i]
        /\ Append(drain.heads, r)[Len(drain.heads) + 1] = r
    BY <1>4, <1>7, AppendIs
  <1>9. /\ drain'.pc = drain.pc /\ drain'.at = drain.at /\ drain'.list = drain.list \ {r}
        /\ drain'.heads = IF stale \/ merged THEN drain.heads ELSE Append(drain.heads, r)
    BY ONLY <1>1, <1>6
  <1>10. drain' \in [pc: {"armed", "mark", "done"}, list: SUBSET Nat, heads: Seq(Nat), at: Nat]
    <2> DEFINE hs == IF stale \/ merged THEN drain.heads ELSE Append(drain.heads, r)
    <2>1. hs \in Seq(Nat) BY ONLY <1>7, <1>8
    <2>2. drain' = [drain EXCEPT !.list = @ \ {r}, !.heads = hs] BY ONLY <1>1, <1>6
    <2> HIDE DEF hs
    <2> QED BY ONLY <1>6, <2>1, <2>2
  <1>11. /\ Outbox(cf)!Record(r, "stale") => Writes(cf, r, "stale")
         /\ Outbox(cf)!Record(r, "merged") => Writes(cf, r, "merged")
    BY <1>4, WritesIs
  <1>12. MarkStep(cf, r)
    BY <1>1, <1>3, <1>9, <1>10, <1>11, <1>5, <1>8 DEF MarkStep, stale
  <1> QED BY <1>1, <1>4, <1>12

LEMMA MarkKeepsPlaces ==
  ASSUME NEW cf, Outbox(cf)!Shape, OutboxInv(cf), NEW r \in DOMAIN spool, drain.pc = "mark",
         MarkStep(cf, r)
  PROVE  /\ OutboxTypes(cf)' /\ PlaceFacts(cf)' /\ LockFacts(cf)' /\ RouteFacts(cf)'
         /\ SentFacts(cf)' /\ MergeFacts(cf)'
  <1> USE DEF OutboxInv
  <1>1. /\ UNCHANGED <<act, route, now, injected, turned, gap, moved>>
        /\ r \in drain.list /\ \A q \in drain.list : r <= q
        /\ drain'.pc = "mark" /\ drain'.at = drain.at /\ drain'.list = drain.list \ {r}
        /\ drain' \in [pc: {"armed", "mark", "done"}, list: SUBSET Nat, heads: Seq(Nat), at: Nat]
    BY DEF MarkStep
  <1>2. /\ spool' \in Seq(RowState(cf)) /\ DOMAIN spool' = DOMAIN spool /\ Len(spool') = Len(spool)
        /\ \A i \in DOMAIN spool :
              /\ spool'[i].text = spool[i].text /\ spool'[i].created = spool[i].created
              /\ spool'[i].updated \in {spool[i].updated, now}
              /\ i # r => spool'[i].status = spool[i].status
        /\ spool'[r].status \in {spool[r].status, "merged", "stale"}
    <2>1. CASE Writes(cf, r, "stale") \/ Writes(cf, r, "merged") BY ONLY <2>1 DEF Writes
    <2>2. CASE UNCHANGED spool
      BY <2>2 DEF OutboxTypes
    <2> QED BY <2>1, <2>2 DEF MarkStep
  <1>3. /\ DOMAIN spool = 1..Len(spool) /\ Len(spool) \in Nat /\ now \in Nat
        /\ \A i \in DOMAIN spool : spool[i].created \in Nat /\ spool[i].updated \in Nat
    BY OutboxFields
  <1>4. \A i \in DOMAIN drain'.heads :
           \/ i \in DOMAIN drain.heads /\ drain'.heads[i] = drain.heads[i]
           \/ drain'.heads[i] = r /\ UNCHANGED spool
    BY LenProperties, MarkStep(cf, r) DEF OutboxTypes, MarkStep
  <1>5. OutboxTypes(cf)'
    <2>1. \A i \in DOMAIN spool : spool'[i].created <= spool'[i].updated /\ spool'[i].updated <= now
      <3>1. \A i \in DOMAIN spool : spool[i].created <= spool[i].updated /\ spool[i].updated <= now
        BY DEF OutboxTypes
      <3> QED BY ONLY <1>2, <1>3, <3>1
    <2> QED BY ONLY <1>1, <1>2, <2>1, OutboxTypes(cf) DEF OutboxTypes
  <1>6. act["drain"].pc = "idle" /\ "drain" \in Deliverers(cf) /\ drain.at = now
    BY <1>1 DEF PlaceFacts, Deliverers
  <1>7. PlaceFacts(cf)' BY ONLY <1>1, <1>2, <1>4, <1>6, PlaceFacts(cf) DEF PlaceFacts
  <1>8. \A a \in Deliverers(cf) : act[a].pc \in Locking => act[a].row \in DOMAIN spool
    BY DEF PlaceFacts, Locking
  <1>9. LockFacts(cf)'
    <2>1. \A i \in DOMAIN spool : spool'[i].status = "delivered" => spool[i].status = "delivered"
      BY ONLY <1>2
    <2> QED BY ONLY <1>1, <1>8, <2>1, LockFacts(cf) DEF LockFacts
  <1>10. RouteFacts(cf)' BY ONLY <1>1, <1>2, RouteFacts(cf) DEF RouteFacts
  <1>11. SentFacts(cf)' BY ONLY <1>1, <1>2, SentFacts(cf) DEF SentFacts
  <1>12. /\ \A i \in DOMAIN drain.heads :
               /\ drain.heads[i] \in DOMAIN spool /\ drain.heads[i] < r
               /\ spool[drain.heads[i]].status \notin {"merged", "stale"}
         /\ drain.list \subseteq DOMAIN spool
         /\ \A q \in drain.list : spool[q].status \notin {"merged", "stale"}
         /\ \A i \in DOMAIN drain.heads : \A q \in drain.list : drain.heads[i] < q
    BY ONLY <1>1, PlaceFacts(cf), MergeFacts(cf) DEF PlaceFacts, MergeFacts
  <1>13. MergeFacts(cf)'
    <2>1. spool'[r].status = "merged" =>
             \E h \in 1..(r - 1) : spool[h].text = spool[r].text /\ spool[h].status # "merged"
      <3> SUFFICES ASSUME spool'[r].status = "merged"
                   PROVE  \E h \in 1..(r - 1) : spool[h].text = spool[r].text /\ spool[h].status # "merged"
        OBVIOUS
      <3>1. spool[r].status # "merged" BY <1>1, <1>12
      <3>2. \E i \in DOMAIN drain.heads : spool[drain.heads[i]].text = spool[r].text
        BY ONLY <3>1, MarkStep(cf, r), spool'[r].status = "merged" DEF MarkStep, Writes
      <3>3. PICK i \in DOMAIN drain.heads : spool[drain.heads[i]].text = spool[r].text BY <3>2
      <3>4. drain.heads[i] \in 1..(r - 1) BY ONLY <1>3, <1>12, <3>3, r \in DOMAIN spool
      <3> QED BY <1>12, <3>3, <3>4
    <2>2. ASSUME NEW i \in DOMAIN spool, spool'[i].status = "merged"
          PROVE  \E h \in 1..(i - 1) : spool[h].text = spool[i].text /\ spool'[h].status # "merged"
      <3>1. CASE i = r
        <4>1. PICK h \in 1..(r - 1) : spool[h].text = spool[r].text /\ spool[h].status # "merged"
          BY <2>1, <2>2, <3>1
        <4>2. h \in DOMAIN spool /\ h # r BY ONLY <1>3, <4>1, r \in DOMAIN spool
        <4> QED BY ONLY <1>2, <3>1, <4>1, <4>2
      <3>2. CASE i # r
        <4>1. spool[i].status = "merged" BY ONLY <1>2, <2>2, <3>2
        <4>2. PICK h \in 1..(i - 1) : spool[h].text = spool[i].text /\ spool[h].status # "merged"
          BY <4>1 DEF MergeFacts
        <4>3. CASE h # r \/ spool'[r].status # "merged"
          BY <1>3, <4>2, i \in DOMAIN spool, <1>2, <4>3
        <4>4. CASE h = r /\ spool'[r].status = "merged"
          <5>1. PICK k \in 1..(r - 1) : spool[k].text = spool[r].text /\ spool[k].status # "merged"
            BY <2>1, <4>4
          <5>2. k \in DOMAIN spool /\ k # r /\ k \in 1..(i - 1)
            BY ONLY <1>3, <4>2, <4>4, <5>1, r \in DOMAIN spool, i \in DOMAIN spool
          <5> QED BY ONLY <1>2, <4>2, <4>4, <5>1, <5>2
        <4> QED BY <4>3, <4>4
      <3> QED BY <3>1, <3>2
    <2>3. ASSUME NEW i \in DOMAIN spool, spool'[i].status = "merged"
          PROVE  \E h \in 1..(i - 1) : spool'[h].text = spool'[i].text /\ spool'[h].status # "merged"
      <3>1. PICK h \in 1..(i - 1) : spool[h].text = spool[i].text /\ spool'[h].status # "merged"
        BY <2>2, <2>3
      <3>2. h \in DOMAIN spool BY ONLY <1>3, <3>1, i \in DOMAIN spool
      <3> QED BY ONLY <1>2, <3>1, <3>2, i \in DOMAIN spool
    <2>4. \A q \in drain'.list : spool'[q].status \notin {"merged", "stale"} /\ r < q
      <3> SUFFICES ASSUME NEW q \in drain'.list
                   PROVE  spool'[q].status \notin {"merged", "stale"} /\ r < q
        OBVIOUS
      <3>1. q \in drain.list /\ q # r /\ q \in DOMAIN spool BY ONLY <1>1, <1>12
      <3>2. spool'[q].status = spool[q].status BY ONLY <1>2, <3>1
      <3>3. r <= q /\ q \in Nat /\ r \in Nat BY ONLY <1>1, <1>3, <3>1, r \in DOMAIN spool
      <3>4. r < q BY ONLY <3>1, <3>3
      <3> QED BY ONLY <1>12, <3>1, <3>2, <3>4
    <2>5. ASSUME NEW i \in DOMAIN drain'.heads
          PROVE  /\ spool'[drain'.heads[i]].status \notin {"merged", "stale"}
                 /\ \A q \in drain'.list : drain'.heads[i] < q
      <3>1. CASE drain'.heads[i] = r /\ UNCHANGED spool BY ONLY <1>1, <1>12, <2>4, <3>1
      <3>2. CASE i \in DOMAIN drain.heads /\ drain'.heads[i] = drain.heads[i]
        <4>1. drain.heads[i] # r BY ONLY <1>3, <1>12, <3>2, r \in DOMAIN spool
        <4>2. /\ drain.heads[i] \in DOMAIN spool
              /\ spool[drain.heads[i]].status \notin {"merged", "stale"}
              /\ \A q \in drain.list : drain.heads[i] < q
          BY ONLY <1>12, <3>2
        <4>3. spool'[drain.heads[i]].status = spool[drain.heads[i]].status BY ONLY <1>2, <4>1, <4>2
        <4> QED BY ONLY <1>1, <3>2, <4>2, <4>3
      <3> QED BY <1>4, <3>1, <3>2
    <2> QED BY ONLY <1>1, <1>2, <1>6, <2>3, <2>4, <2>5 DEF MergeFacts, Engaged, Locking
  <1> QED BY <1>5, <1>7, <1>9, <1>10, <1>11, <1>13

\* Under the constants that fold every resend nothing is marked.
LEMMA MarkKeepsOpen ==
  ASSUME NEW cf, Outbox(cf)!Shape, OutboxInv(cf), NEW r \in DOMAIN spool, drain.pc = "mark",
         MarkStep(cf, r), Unmarked(cf)
  PROVE  UNCHANGED spool /\ OneOpenRow(cf)'
  <1> USE DEF OutboxInv
  <1>1. drain'.list = drain.list \ {r} /\ r \in drain.list BY DEF MarkStep
  <1>2. ~Outbox(cf)!Stale(r)
    <2>1. /\ drain.at = now /\ now <= cf.MaxTime /\ cf.MaxTime <= cf.MaxAge
          /\ now \in Nat /\ cf.MaxTime \in Nat /\ cf.MaxAge \in Nat /\ spool[r].created \in Nat
      <3>1. drain.at = now BY DEF PlaceFacts
      <3>2. /\ now \in Nat /\ cf.MaxTime \in Nat /\ cf.MaxAge \in Nat /\ spool[r].created \in Nat
        BY OutboxFields
      <3>3. now \in 0..cf.MaxTime BY DEF OutboxTypes
      <3> QED BY ONLY <3>1, <3>2, <3>3, Unmarked(cf) DEF Unmarked
    <2> QED BY ONLY <2>1 DEF Outbox!Stale
  <1>3. \A i \in DOMAIN drain.heads : spool[drain.heads[i]].text # spool[r].text
    BY ONLY <1>1, OutboxInv(cf), Unmarked(cf) DEF OutboxInv, OneOpenRow
  <1>4. /\ UNCHANGED spool /\ DOMAIN drain'.heads = 1..(Len(drain.heads) + 1)
        /\ \A i \in DOMAIN drain.heads : drain'.heads[i] = drain.heads[i]
        /\ drain'.heads[Len(drain.heads) + 1] = r
    BY ONLY <1>2, <1>3, MarkStep(cf, r) DEF MarkStep
  <1>5. OneOpenRow(cf) OBVIOUS
  <1>6. DOMAIN drain.heads = 1..Len(drain.heads) /\ Len(drain.heads) \in Nat
    BY LenProperties DEF OutboxTypes
  <1>7. \A i \in DOMAIN drain'.heads : \A q \in drain'.list : spool[drain'.heads[i]].text # spool[q].text
    BY <1>1, <1>5, <1>4, <1>6 DEF OneOpenRow
  <1> QED BY ONLY <1>1, <1>4, <1>5, <1>7 DEF OneOpenRow

\* Nor, where there is one sender, is a row that was delivered.
LEMMA MarkKeepsSender ==
  ASSUME NEW cf, Outbox(cf)!Shape, OutboxInv(cf), NEW r \in DOMAIN spool, drain.pc = "mark",
         MarkStep(cf, r), Alone(cf)
  PROVE  /\ OneSender(cf)'
         /\ \A a \in Deliverers(cf) :
               act[a].pc \in Engaged /\ act[a].row = r /\ spool[r].status = "delivered" => UNCHANGED spool
  <1> USE DEF OutboxInv
  <1>1. /\ UNCHANGED <<act, now>> /\ r \in drain.list
        /\ drain'.at = drain.at /\ drain'.list = drain.list \ {r}
    BY DEF MarkStep
  <1>2. /\ DOMAIN spool' = DOMAIN spool
        /\ \A i \in DOMAIN spool :
              /\ spool'[i].text = spool[i].text /\ spool'[i].created = spool[i].created
              /\ i # r => spool'[i].status = spool[i].status
        /\ spool'[r].status \in {spool[r].status, "merged", "stale"}
    BY ONLY MarkStep(cf, r) DEF MarkStep, Writes
  <1>3. OneSender(cf) OBVIOUS
  <1>4. /\ DOMAIN spool = 1..Len(spool) /\ Len(spool) \in Nat /\ now \in Nat /\ drain.at = now
        /\ \A i \in DOMAIN spool : spool[i].created \in Nat
        /\ spool[r].status \in {"pending", "failed", "delivered", "merged", "stale"}
        /\ cf.MaxAge \in Nat
    BY OutboxFields DEF PlaceFacts
  <1>5. \A i \in DOMAIN drain.heads :
           /\ drain.heads[i] \in DOMAIN spool /\ drain.heads[i] < r
           /\ drain.at <= spool[drain.heads[i]].created + cf.MaxAge
    BY ONLY <1>1, PlaceFacts(cf), MergeFacts(cf), <1>3 DEF PlaceFacts, MergeFacts, OneSender
  <1>6. DOMAIN drain.heads = 1..Len(drain.heads) /\ Len(drain.heads) \in Nat
    BY LenProperties DEF OutboxTypes
  <1>7. ASSUME NEW a \in Deliverers(cf), act[a].pc \in Engaged, act[a].row = r,
               spool[r].status = "delivered"
        PROVE  UNCHANGED spool
    <2>1. act[a].pc = "lock" BY ONLY <1>7, LockFacts(cf), a \in Deliverers(cf) DEF LockFacts, Engaged
    <2>2. act["drain"].pc = "idle" BY <1>1 DEF PlaceFacts
    <2>3. a \in cf.Senders BY ONLY <1>7, <2>1, <2>2, a \in Deliverers(cf) DEF Deliverers
    <2>4. /\ drain.at <= spool[r].created + cf.MaxAge
          /\ \A h \in InDrain(cf) : h < r /\ spool[h].text = spool[r].text
                => drain.at > spool[h].created + cf.MaxAge
      BY ONLY <1>1, <1>3, <1>7, <2>1, <2>3 DEF OneSender
    <2>5. ~Outbox(cf)!Stale(r) BY ONLY <1>4, <2>4, r \in DOMAIN spool DEF Outbox!Stale
    <2>6. ASSUME NEW i \in DOMAIN drain.heads, spool[drain.heads[i]].text = spool[r].text PROVE FALSE
      BY <1>5, <2>4, <2>6, <1>4, i \in DOMAIN drain.heads DEF InDrain
    <2> QED BY ONLY <2>5, <2>6, MarkStep(cf, r) DEF MarkStep
  <1>8. \A i \in DOMAIN drain'.heads :
           \/ i \in DOMAIN drain.heads /\ drain'.heads[i] = drain.heads[i]
           \/ drain'.heads[i] = r /\ ~Outbox(cf)!Stale(r)
    <2>1. \/ drain'.heads = drain.heads
          \/ /\ ~Outbox(cf)!Stale(r) /\ DOMAIN drain'.heads = 1..(Len(drain.heads) + 1)
             /\ \A i \in DOMAIN drain.heads : drain'.heads[i] = drain.heads[i]
             /\ drain'.heads[Len(drain.heads) + 1] = r
      BY ONLY MarkStep(cf, r) DEF MarkStep
    <2> QED BY ONLY <1>6, <2>1
  <1>9. InDrain(cf)' \subseteq InDrain(cf) /\ InDrain(cf) \subseteq DOMAIN spool
    BY <1>1, <1>5, <1>8 DEF PlaceFacts, InDrain
  <1>10. ASSUME NEW i \in DOMAIN spool, Owed(cf, i)' PROVE Owed(cf, i)
    <2>1. CASE i # r BY ONLY <1>1, <1>2, <1>10, <2>1 DEF Owed
    <2>2. CASE i = r /\ spool[r].status # "delivered"
      BY <1>1, <1>4, <2>2 DEF MergeFacts, Owed, Unsent
    <2>3. CASE i = r /\ spool[r].status = "delivered"
      <3>1. spool'[r].status # "delivered" BY ONLY <1>10, <2>3 DEF Owed, Unsent
      <3>2. spool'[r].status \notin Unsent BY ONLY <1>2, <2>3 DEF Unsent
      <3>3. PICK a \in Deliverers(cf) : act[a].pc \in Engaged /\ act[a].row = r
        BY ONLY <1>1, <1>10, <2>3, <3>2 DEF Owed
      <3>4. UNCHANGED spool BY <1>7, <2>3, <3>3
      <3> QED BY ONLY <2>3, <3>1, <3>4
    <2> QED BY <2>1, <2>2, <2>3
  <1>11. \A i, j \in DOMAIN spool : Apart(cf, i, j)' = Apart(cf, i, j) BY ONLY <1>2 DEF Apart
  <1>12. \A i, j \in DOMAIN spool :
            i < j /\ spool'[i].text = spool'[j].text /\ Owed(cf, i)' => Apart(cf, i, j)'
    BY ONLY <1>2, <1>3, <1>10, <1>11 DEF OneSender
  <1>13. \A i, j \in InDrain(cf)' : i < j /\ spool'[i].text = spool'[j].text => Apart(cf, i, j)'
    <2> SUFFICES ASSUME NEW i \in InDrain(cf)', NEW j \in InDrain(cf)', i < j,
                        spool'[i].text = spool'[j].text
                 PROVE  Apart(cf, i, j)'
      OBVIOUS
    <2>1. i \in InDrain(cf) /\ j \in InDrain(cf) /\ i \in DOMAIN spool /\ j \in DOMAIN spool
      BY ONLY <1>9, i \in InDrain(cf)', j \in InDrain(cf)'
    <2>2. Apart(cf, i, j) BY ONLY <1>2, <1>3, <2>1, i < j, spool'[i].text = spool'[j].text DEF OneSender
    <2> QED BY ONLY <1>11, <2>1, <2>2
  <1>14. \A i \in DOMAIN drain'.heads : drain.at <= spool'[drain'.heads[i]].created + cf.MaxAge
    BY <1>4, r \in DOMAIN spool, <1>2, <1>5, <1>8 DEF Outbox!Stale
  <1>15. ASSUME NEW p \in cf.Senders, act[p].pc = "lock", act[p].row \in drain'.list,
                spool'[act[p].row].status = "delivered"
         PROVE  /\ drain.at <= spool'[act[p].row].created + cf.MaxAge
                /\ \A h \in InDrain(cf)' :
                     h < act[p].row /\ spool'[h].text = spool'[act[p].row].text
                        => drain.at > spool'[h].created + cf.MaxAge
    BY <1>1, <1>15, <1>2, <1>3, <1>9 DEF PlaceFacts, OneSender
  <1>16. OneSender(cf)' BY ONLY <1>1, <1>2, <1>12, <1>13, <1>14, <1>15 DEF OneSender
  <1> QED BY <1>7, <1>16

LEMMA DrainMarksKept ==
  ASSUME NEW cf, Outbox(cf)!Shape, OutboxInv(cf), Outbox(cf)!DrainMarks
  PROVE  OutboxInv(cf)'
  <1> USE DEF OutboxInv
  <1>1. PICK r \in DOMAIN spool : MarkStep(cf, r) /\ drain.pc = "mark" BY MarkIs
  <1>2. /\ OutboxTypes(cf)' /\ PlaceFacts(cf)' /\ LockFacts(cf)' /\ RouteFacts(cf)'
        /\ SentFacts(cf)' /\ MergeFacts(cf)'
    BY <1>1, MarkKeepsPlaces
  <1>3. Unmarked(cf) => UNCHANGED spool /\ OneOpenRow(cf)' BY <1>1, MarkKeepsOpen
  <1>4. Alone(cf) => OneSender(cf)' BY <1>1, MarkKeepsSender
  <1>5. ASSUME Unmarked(cf) \/ Alone(cf) PROVE OnceFacts(cf)'
    <2>1. OnceFacts(cf) BY <1>5
    <2>2. /\ UNCHANGED <<act, injected, gap>> /\ r \in drain.list
          /\ \A i \in DOMAIN spool : i # r => spool'[i].status = spool[i].status
          /\ DOMAIN spool' = DOMAIN spool
          /\ spool' = spool \/ (spool'[r].status \in {"merged", "stale"} /\ drain'.heads = drain.heads)
      BY <1>1 DEF MarkStep, Writes
    <2>3. /\ spool[r].status \notin {"merged", "stale"}
          /\ \A i \in DOMAIN drain.heads : drain.heads[i] # r
      BY <2>2, OutboxFields DEF MergeFacts
    <2>4. \A i \in DOMAIN drain'.heads :
             \/ \E k \in DOMAIN drain.heads : drain'.heads[i] = drain.heads[k]
             \/ drain'.heads[i] = r
      <3>1. DOMAIN drain.heads = 1..Len(drain.heads) /\ Len(drain.heads) \in Nat
        BY LenProperties DEF OutboxTypes
      <3>2. \/ drain'.heads = drain.heads
            \/ /\ DOMAIN drain'.heads = 1..(Len(drain.heads) + 1)
               /\ \A i \in DOMAIN drain.heads : drain'.heads[i] = drain.heads[i]
               /\ drain'.heads[Len(drain.heads) + 1] = r
        BY ONLY <1>1 DEF MarkStep
      <3> QED BY ONLY <3>1, <3>2
    <2>5. ASSUME NEW i \in DOMAIN spool, Shut(cf, i) PROVE Shut(cf, i)'
      BY <2>3, <2>5, <2>2, <2>4 DEF Shut
    <2>6. ASSUME spool[r].status = "delivered", spool'[r].status # "delivered" PROVE Shut(cf, r)'
      <3>1. spool' # spool BY <2>6
      <3>2. ~Unmarked(cf) /\ Alone(cf) BY <1>3, <1>5, <3>1
      <3>3. \A a \in Deliverers(cf) : ~(act[a].pc \in Engaged /\ act[a].row = r)
        BY <1>1, <3>2, MarkKeepsSender, <2>6, <3>1
      <3> QED BY ONLY <2>2, <2>3, <3>1, <3>3 DEF Shut
    <2>7. ASSUME NEW i \in 1..cf.MaxRows, injected[i] > gap[i]
          PROVE  /\ i \in DOMAIN spool
                 /\ \/ spool'[i].status = "delivered" \/ Shut(cf, i)'
                    \/ \E a \in Deliverers(cf) : act[a].pc = "sent" /\ act[a].row = i
      BY <2>1, <2>7, <2>2, <2>5, <2>6 DEF OnceFacts
    <2> QED BY ONLY <2>1, <2>2, <2>7 DEF OnceFacts
  <1> QED BY ONLY <1>2, <1>3, <1>4, <1>5 DEF OutboxInv

\* A request takes an undelivered row of its text, else the oldest one delivered
\* within the window, else a row of its own.
SendStep(cf, p, t, r) ==
    /\ act[p].pc = "idle" /\ act' \in [Deliverers(cf) -> ActorState(cf)]
    /\ act'[p].pc = "lock" /\ act'[p].row = r
    /\ \A b \in Deliverers(cf) : b # p => act'[b] = act[b]
    /\ UNCHANGED <<drain, route, now, injected, turned, gap, moved>>
    /\ \/ /\ r \in DOMAIN spool /\ spool' = spool /\ r \in Outbox(cf)!Foldable(t)
       \/ /\ r \in DOMAIN spool /\ spool' = spool /\ Outbox(cf)!Foldable(t) = {}
          /\ r \in Outbox(cf)!Absorbing(t) /\ \A q \in Outbox(cf)!Absorbing(t) : r <= q
       \/ /\ Outbox(cf)!Foldable(t) = {} /\ Outbox(cf)!Absorbing(t) = {}
          /\ r = Len(spool) + 1 /\ r <= cf.MaxRows
          /\ spool' \in Seq(RowState(cf)) /\ Len(spool') = r /\ DOMAIN spool' = 1..r
          /\ \A i \in DOMAIN spool : spool'[i] = spool[i]
          /\ spool'[r] = [text |-> t, status |-> "pending", created |-> now, updated |-> now]

LEMMA SendIs ==
  ASSUME NEW cf, Outbox(cf)!Shape, OutboxInv(cf), NEW p \in cf.Senders, NEW t \in cf.Texts,
         Outbox(cf)!Send(p, t)
  PROVE  \E r : SendStep(cf, p, t, r)
  <1> USE DEF OutboxInv
  <1> DEFINE e == Outbox(cf)!Enqueue(t)
             v == [pc |-> "lock", row |-> e.row, attempt |-> 0, text |-> t]
             new == [text |-> t, status |-> "pending", created |-> now, updated |-> now]
  <1>1. /\ act[p].pc = "idle" /\ Outbox(cf)!Len(e.spool) <= cf.MaxRows /\ spool' = e.spool
        /\ act' = [act EXCEPT ![p] = v]
        /\ UNCHANGED <<drain, route, now, injected, turned, gap, moved>>
    BY DEF Outbox!Send
  <1>2. /\ DOMAIN spool = 1..Len(spool) /\ Len(spool) \in Nat /\ now \in Nat
        /\ spool \in Seq(RowState(cf)) /\ act \in [Deliverers(cf) -> ActorState(cf)]
        /\ 0 \in 0..cf.MaxAttempts /\ p \in Deliverers(cf)
    <2>1. cf.MaxAttempts \in Nat BY OutboxFields
    <2>2. 0 \in 0..cf.MaxAttempts BY ONLY <2>1
    <2>3. DOMAIN spool = 1..Len(spool) /\ Len(spool) \in Nat /\ now \in Nat BY OutboxFields
    <2> QED BY <2>2, <2>3 DEF OutboxTypes, Deliverers
  <1>3. Outbox(cf)!Foldable(t) \in SUBSET (1..Len(spool)) /\ Outbox(cf)!Absorbing(t) \in SUBSET (1..Len(spool))
    BY ONLY <1>2 DEF Outbox!Foldable, Outbox!Absorbing
  <1>4. new \in RowState(cf) BY ONLY <1>2, t \in cf.Texts DEF RowState, Unsent
  <1>5. /\ Append(spool, new) \in Seq(RowState(cf)) /\ Len(Append(spool, new)) = Len(spool) + 1
        /\ DOMAIN Append(spool, new) = 1..(Len(spool) + 1)
        /\ \A i \in 1..Len(spool) : Append(spool, new)[i] = spool[i]
        /\ Append(spool, new)[Len(spool) + 1] = new
    BY <1>2, <1>4, AppendIs
  <1> HIDE DEF new
  <1>6. /\ e.row \in Nat
        /\ \/ /\ e.row \in DOMAIN spool /\ spool' = spool /\ e.row \in Outbox(cf)!Foldable(t)
           \/ /\ e.row \in DOMAIN spool /\ spool' = spool /\ Outbox(cf)!Foldable(t) = {}
              /\ e.row \in Outbox(cf)!Absorbing(t)
              /\ \A q \in Outbox(cf)!Absorbing(t) : e.row <= q
           \/ /\ Outbox(cf)!Foldable(t) = {} /\ Outbox(cf)!Absorbing(t) = {}
              /\ e.row = Len(spool) + 1 /\ e.row <= cf.MaxRows /\ spool' = Append(spool, new)
    <2>1. CASE Outbox(cf)!Foldable(t) # {}
      <3>1. e.row = Outbox(cf)!Oldest(Outbox(cf)!Foldable(t)) /\ e.spool = spool
        BY ONLY <2>1 DEF Outbox!Enqueue
      <3>2. e.row \in Outbox(cf)!Foldable(t)
        <4>1. Len(spool) \in Nat BY ONLY <1>2
        <4>2. Outbox(cf)!Oldest(Outbox(cf)!Foldable(t)) \in Outbox(cf)!Foldable(t)
          BY ONLY <1>3, <2>1, <4>1, OldestIs
        <4> QED BY ONLY <3>1, <4>2
      <3>3. e.row \in 1..Len(spool) BY ONLY <1>3, <3>2
      <3> HIDE DEF e
      <3>4. spool' = spool BY ONLY <1>1, <3>1
      <3>5. e.row \in Nat /\ e.row \in DOMAIN spool BY ONLY <1>2, <3>3
      <3> QED BY ONLY <3>2, <3>4, <3>5
    <2>2. CASE Outbox(cf)!Foldable(t) = {} /\ Outbox(cf)!Absorbing(t) # {}
      <3>1. e.row = Outbox(cf)!Oldest(Outbox(cf)!Absorbing(t)) /\ e.spool = spool
        BY ONLY <2>2 DEF Outbox!Enqueue
      <3>2. e.row \in Outbox(cf)!Absorbing(t) /\ \A q \in Outbox(cf)!Absorbing(t) : e.row <= q
        <4>1. Outbox(cf)!Absorbing(t) # {} /\ Outbox(cf)!Absorbing(t) \in SUBSET (1..Len(spool))
          BY ONLY <1>3, <2>2
        <4>2. /\ Outbox(cf)!Oldest(Outbox(cf)!Absorbing(t)) \in Outbox(cf)!Absorbing(t)
              /\ \A q \in Outbox(cf)!Absorbing(t) : Outbox(cf)!Oldest(Outbox(cf)!Absorbing(t)) <= q
          BY <1>2, <4>1, OldestIs
        <4> HIDE DEF e
        <4> QED BY ONLY <3>1, <4>2
      <3>3. e.row \in 1..Len(spool) BY ONLY <1>3, <3>2
      <3> HIDE DEF e
      <3>4. spool' = spool BY ONLY <1>1, <3>1
      <3>5. e.row \in Nat /\ e.row \in DOMAIN spool BY ONLY <1>2, <3>3
      <3> QED BY ONLY <2>2, <3>2, <3>4, <3>5
    <2>3. CASE Outbox(cf)!Foldable(t) = {} /\ Outbox(cf)!Absorbing(t) = {}
      <3>1. e.row = Len(spool) + 1 /\ e.spool = Append(spool, new)
        BY ONLY <2>3 DEF Outbox!Enqueue, Outbox!Row, new
      <3>2. Len(e.spool) <= cf.MaxRows BY ONLY <1>1
      <3> HIDE DEF e
      <3> QED BY ONLY <1>1, <1>2, <1>5, <2>3, <3>1, <3>2
    <2> QED BY <2>1, <2>2, <2>3
  <1>7. PICK r \in Nat :
          /\ e.row = r
          /\ \/ /\ r \in DOMAIN spool /\ spool' = spool /\ r \in Outbox(cf)!Foldable(t)
             \/ /\ r \in DOMAIN spool /\ spool' = spool /\ Outbox(cf)!Foldable(t) = {}
                /\ r \in Outbox(cf)!Absorbing(t) /\ \A q \in Outbox(cf)!Absorbing(t) : r <= q
             \/ /\ Outbox(cf)!Foldable(t) = {} /\ Outbox(cf)!Absorbing(t) = {}
                /\ r = Len(spool) + 1 /\ r <= cf.MaxRows /\ spool' = Append(spool, new)
    <2> HIDE DEF e
    <2> QED BY ONLY <1>6
  <1>8. v \in ActorState(cf) /\ v.pc = "lock" /\ v.row = r
    <2> HIDE DEF e
    <2> QED BY ONLY <1>2, <1>7, t \in cf.Texts DEF ActorState, Engaged
  <1> HIDE DEF e, v
  <1>9. /\ act' \in [Deliverers(cf) -> ActorState(cf)] /\ act'[p].pc = "lock" /\ act'[p].row = r
        /\ \A b \in Deliverers(cf) : b # p => act'[b] = act[b]
    BY ONLY <1>1, <1>2, <1>8
  <1>10. SendStep(cf, p, t, r) BY ONLY <1>1, <1>2, <1>5, <1>7, <1>9 DEF SendStep, new
  <1> QED BY <1>10

\* What a request finds in the spool.
LEMMA SendKeepsPlaces ==
  ASSUME NEW cf, Outbox(cf)!Shape, OutboxInv(cf), NEW p \in cf.Senders, NEW t \in cf.Texts, NEW r,
         SendStep(cf, p, t, r)
  PROVE  /\ OutboxTypes(cf)' /\ PlaceFacts(cf)' /\ LockFacts(cf)' /\ RouteFacts(cf)'
         /\ SentFacts(cf)' /\ MergeFacts(cf)'
         /\ DOMAIN spool \subseteq DOMAIN spool' /\ \A i \in DOMAIN spool : spool'[i] = spool[i]
         /\ \A i \in DOMAIN spool' : i \notin DOMAIN spool =>
               /\ i = r /\ i = Len(spool) + 1 /\ r \in 1..cf.MaxRows
               /\ spool'[r] = [text |-> t, status |-> "pending", created |-> now, updated |-> now]
         /\ r \in DOMAIN spool'
         /\ Outbox(cf)!Foldable(t) # {} \/ Outbox(cf)!Absorbing(t) # {} => spool' = spool
  <1> USE DEF OutboxInv
  <1>1. /\ act[p].pc = "idle" /\ act' \in [Deliverers(cf) -> ActorState(cf)]
        /\ act'[p].pc = "lock" /\ act'[p].row = r
        /\ \A b \in Deliverers(cf) : b # p => act'[b] = act[b]
        /\ UNCHANGED <<drain, route, now, injected, turned, gap, moved>>
    BY ONLY SendStep(cf, p, t, r) DEF SendStep
  <1>2. /\ DOMAIN spool = 1..Len(spool) /\ Len(spool) \in Nat /\ now \in Nat /\ spool \in Seq(RowState(cf))
        /\ cf.MaxRows \in Nat /\ "drain" \notin cf.Senders
        /\ \A i \in DOMAIN spool : spool[i].status \in {"pending", "failed", "delivered", "merged", "stale"}
    BY OutboxFields DEF OutboxTypes
  <1>3. /\ spool' \in Seq(RowState(cf)) /\ Len(spool') <= cf.MaxRows /\ r \in DOMAIN spool'
        /\ DOMAIN spool \subseteq DOMAIN spool' /\ \A i \in DOMAIN spool : spool'[i] = spool[i]
        /\ \A i \in DOMAIN spool' : i \notin DOMAIN spool =>
               /\ i = r /\ i = Len(spool) + 1 /\ r \in 1..cf.MaxRows
               /\ spool'[r] = [text |-> t, status |-> "pending", created |-> now, updated |-> now]
    <2>1. CASE r \in DOMAIN spool /\ spool' = spool
      BY <1>2, <2>1 DEF OutboxTypes
    <2>2. CASE /\ r = Len(spool) + 1 /\ r <= cf.MaxRows
               /\ spool' \in Seq(RowState(cf)) /\ Len(spool') = r /\ DOMAIN spool' = 1..r
               /\ \A i \in DOMAIN spool : spool'[i] = spool[i]
               /\ spool'[r] = [text |-> t, status |-> "pending", created |-> now, updated |-> now]
      BY ONLY <1>2, <2>2
    <2> QED BY ONLY <2>1, <2>2, SendStep(cf, p, t, r) DEF SendStep
  <1>4. \A i \in DOMAIN spool' : i \notin DOMAIN spool =>
           /\ spool'[i].status = "pending" /\ spool'[i].created = now /\ spool'[i].updated = now
    BY ONLY <1>3
  <1>5. OutboxTypes(cf)'
    <2>1. \A i \in DOMAIN spool' : spool'[i].created <= spool'[i].updated /\ spool'[i].updated <= now
      <3>1. \A i \in DOMAIN spool : spool[i].created <= spool[i].updated /\ spool[i].updated <= now
        BY DEF OutboxTypes
      <3>2. now <= now BY ONLY <1>2
      <3> QED BY ONLY <1>3, <1>4, <3>1, <3>2
    <2> QED BY ONLY <1>1, <1>3, <2>1, OutboxTypes(cf) DEF OutboxTypes
  <1>6. "drain" \in Deliverers(cf) /\ "drain" # p /\ p \in Deliverers(cf)
    BY <1>2 DEF Deliverers
  <1>7. PlaceFacts(cf)'
    BY <1>1, <1>3, PlaceFacts(cf), <1>6 DEF PlaceFacts
  <1>8. \A a \in Deliverers(cf) : act'[a].pc \in Locking =>
           a # p /\ act'[a] = act[a] /\ act[a].pc \in Locking /\ act[a].row \in DOMAIN spool
    BY ONLY <1>1, PlaceFacts(cf) DEF PlaceFacts, Locking
  <1>9. LockFacts(cf)' BY ONLY <1>3, <1>8, LockFacts(cf) DEF LockFacts
  <1>10. RouteFacts(cf)'
    BY <1>8, RouteFacts(cf), <1>3, <1>4, <1>1 DEF RouteFacts, Locking
  <1>11. SentFacts(cf)'
    BY <1>3, <1>4, SentFacts(cf), <1>8, <1>1 DEF SentFacts, Locking
  <1>12. MergeFacts(cf)'
    <2>1. ASSUME NEW i \in DOMAIN spool', spool'[i].status = "merged"
          PROVE  \E h \in 1..(i - 1) : spool'[h].text = spool'[i].text /\ spool'[h].status # "merged"
      <3>1. i \in DOMAIN spool /\ spool'[i] = spool[i] BY ONLY <1>3, <1>4, <2>1
      <3>2. PICK h \in 1..(i - 1) : spool[h].text = spool[i].text /\ spool[h].status # "merged"
        BY <2>1, <3>1 DEF MergeFacts
      <3>3. h \in DOMAIN spool BY ONLY <1>2, <3>1, <3>2
      <3> QED BY ONLY <1>3, <3>1, <3>2, <3>3
    <2>2. \A q \in drain.list : spool'[q].status \notin {"merged", "stale"}
      BY ONLY <1>3, PlaceFacts(cf), MergeFacts(cf) DEF PlaceFacts, MergeFacts
    <2>3. \A i \in DOMAIN drain.heads :
             /\ spool'[drain.heads[i]].status \notin {"merged", "stale"}
             /\ \A q \in drain.list : drain.heads[i] < q
      BY ONLY <1>3, PlaceFacts(cf), MergeFacts(cf) DEF PlaceFacts, MergeFacts
    <2>4. act'["drain"].pc \in Engaged => spool'[act'["drain"].row].status \notin {"merged", "stale"}
      BY ONLY <1>1, <1>3, <1>6, PlaceFacts(cf), MergeFacts(cf)
         DEF PlaceFacts, MergeFacts, Engaged, Locking
    <2> QED BY ONLY <1>1, <2>1, <2>2, <2>3, <2>4 DEF MergeFacts
  <1>13. Outbox(cf)!Foldable(t) # {} \/ Outbox(cf)!Absorbing(t) # {} => spool' = spool
    BY ONLY SendStep(cf, p, t, r) DEF SendStep
  <1> QED BY ONLY <1>3, <1>5, <1>7, <1>9, <1>10, <1>11, <1>12, <1>13

LEMMA SendKeepsOpen ==
  ASSUME NEW cf, Outbox(cf)!Shape, OutboxInv(cf), NEW p \in cf.Senders, NEW t \in cf.Texts, NEW r,
         SendStep(cf, p, t, r), Unmarked(cf)
  PROVE  OneOpenRow(cf)'
  <1> USE DEF OutboxInv
  <1>1. /\ DOMAIN spool \subseteq DOMAIN spool' /\ \A i \in DOMAIN spool : spool'[i] = spool[i]
        /\ \A i \in DOMAIN spool' : i \notin DOMAIN spool =>
               /\ i = r /\ i = Len(spool) + 1 /\ r \in 1..cf.MaxRows
               /\ spool'[r] = [text |-> t, status |-> "pending", created |-> now, updated |-> now]
        /\ Outbox(cf)!Foldable(t) # {} \/ Outbox(cf)!Absorbing(t) # {} => spool' = spool
    BY SendKeepsPlaces
  <1>2. UNCHANGED drain BY DEF SendStep
  <1>3. OneOpenRow(cf) OBVIOUS
  <1>4. /\ DOMAIN spool = 1..Len(spool) /\ Len(spool) \in Nat
        /\ drain.list \subseteq DOMAIN spool
        /\ \A i \in DOMAIN drain.heads : drain.heads[i] \in DOMAIN spool
    BY OutboxFields DEF PlaceFacts
  <1>5. ASSUME NEW i \in DOMAIN spool, spool[i].text = t, spool' # spool
        PROVE  spool[i].status = "delivered"
    <2>1. i \notin Outbox(cf)!Foldable(t) BY ONLY <1>1, <1>5
    <2>2. spool[i].status \in {"pending", "failed", "delivered", "merged", "stale"} BY OutboxFields
    <2>3. spool[i].status \notin {"merged", "stale"} BY ONLY <1>3, <1>5 DEF OneOpenRow
    <2>4. spool[i].updated + cf.MaxAge >= now
      <3>1. /\ spool[i].updated \in Nat /\ cf.MaxAge \in Nat /\ cf.MaxTime \in Nat /\ now \in Nat
        BY OutboxFields
      <3>2. now \in 0..cf.MaxTime BY DEF OutboxTypes
      <3> QED BY ONLY <3>1, <3>2, Unmarked(cf) DEF Unmarked
    <2> QED BY ONLY <1>5, <2>1, <2>2, <2>3, <2>4 DEF Outbox!Foldable, Outbox!Undelivered
  <1>6. \A i \in DOMAIN spool' : spool'[i].status \notin {"merged", "stale"}
    BY ONLY <1>1, <1>3 DEF OneOpenRow
  <1>7. ASSUME NEW i \in DOMAIN spool', NEW j \in DOMAIN spool', i < j, spool'[i].text = spool'[j].text
        PROVE  spool'[i].status = "delivered"
    <2>1. CASE j \in DOMAIN spool
      BY <1>1, <1>4, <1>7, <2>1, <1>3 DEF OneOpenRow
    <2>2. CASE j \notin DOMAIN spool
      BY <1>1, <1>4, <1>7, <2>2, <1>5
    <2> QED BY <2>1, <2>2
  <1> QED BY ONLY <1>1, <1>2, <1>3, <1>4, <1>6, <1>7 DEF OneOpenRow

LEMMA SendKeepsSender ==
  ASSUME NEW cf, Outbox(cf)!Shape, OutboxInv(cf), NEW p \in cf.Senders, NEW t \in cf.Texts, NEW r,
         SendStep(cf, p, t, r), Alone(cf)
  PROVE  OneSender(cf)'
  <1> USE DEF OutboxInv
  <1>1. /\ DOMAIN spool \subseteq DOMAIN spool' /\ \A i \in DOMAIN spool : spool'[i] = spool[i]
        /\ \A i \in DOMAIN spool' : i \notin DOMAIN spool =>
               /\ i = r /\ i = Len(spool) + 1 /\ r \in 1..cf.MaxRows
               /\ spool'[r] = [text |-> t, status |-> "pending", created |-> now, updated |-> now]
        /\ Outbox(cf)!Foldable(t) # {} \/ Outbox(cf)!Absorbing(t) # {} => spool' = spool
    BY SendKeepsPlaces
  <1>2. /\ UNCHANGED <<drain, now>> /\ act[p].pc = "idle" /\ act'[p].pc = "lock" /\ act'[p].row = r
        /\ \A b \in Deliverers(cf) : b # p => act'[b] = act[b]
    BY ONLY SendStep(cf, p, t, r) DEF SendStep
  <1>3. OneSender(cf) OBVIOUS
  <1>4. /\ DOMAIN spool = 1..Len(spool) /\ Len(spool) \in Nat
        /\ drain.list \subseteq DOMAIN spool
        /\ \A i \in DOMAIN drain.heads : drain.heads[i] \in DOMAIN spool
        /\ \A a \in Deliverers(cf) : act[a].pc # "idle" => act[a].row \in DOMAIN spool
        /\ now \in Nat /\ cf.MaxAge \in Nat /\ cf.Dedup \in Nat /\ cf.Dedup <= cf.MaxAge
    BY OutboxFields DEF PlaceFacts
  <1>5. \A i \in DOMAIN spool :
           /\ spool[i].created \in Nat /\ spool[i].updated \in Nat
           /\ spool[i].created <= spool[i].updated /\ spool[i].updated <= now
           /\ spool[i].status \in {"pending", "failed", "delivered", "merged", "stale"}
    BY OutboxFields DEF OutboxTypes
  <1>6. \A a \in Deliverers(cf) : a = p \/ a = "drain" BY ONLY Alone(cf), p \in cf.Senders DEF Alone, Deliverers
  <1>7. ASSUME NEW i \in DOMAIN spool, spool'[i].status # "delivered" \/ spool' # spool, Owed(cf, i)'
        PROVE  Owed(cf, i) /\ (spool' # spool => spool[i].status \in Unsent)
    <2>1. spool'[i] = spool[i] BY <1>1
    <2>2. CASE spool[i].status \in Unsent BY ONLY <2>2 DEF Owed
    <2>3. CASE spool[i].status \notin Unsent
      <3>1. /\ spool[i].status # "delivered"
            /\ \E a \in Deliverers(cf) : act'[a].pc \in Engaged /\ act'[a].row = i
        BY ONLY <1>7, <2>1, <2>3 DEF Owed
      <3>2. PICK a \in Deliverers(cf) : act'[a].pc \in Engaged /\ act'[a].row = i BY <3>1
      <3>3. spool[i].status \in {"merged", "stale"} BY ONLY <1>5, <2>3, <3>1, i \in DOMAIN spool DEF Unsent
      <3>4. CASE a = p
        <4>1. r = i BY ONLY <1>2, <3>2, <3>4
        <4>2. r \in Outbox(cf)!Foldable(t) \/ r \in Outbox(cf)!Absorbing(t)
          BY <1>4, <4>1, i \in DOMAIN spool, SendStep(cf, p, t, r) DEF SendStep
        <4>3. spool[r].status \notin {"merged", "stale"}
          BY ONLY <4>2 DEF Outbox!Foldable, Outbox!Absorbing, Outbox!Undelivered
        <4> QED BY ONLY <3>3, <4>1, <4>3
      <3>5. CASE a = "drain" /\ a # p
        BY <1>2, <3>2, <3>5, <3>3 DEF MergeFacts
      <3> QED BY <1>6, <3>4, <3>5
    <2> QED BY <2>2, <2>3
  <1>8. \A i, j \in DOMAIN spool : Apart(cf, i, j)' = Apart(cf, i, j) BY ONLY <1>1 DEF Apart
  <1>9. InDrain(cf)' = InDrain(cf) /\ InDrain(cf) \subseteq DOMAIN spool
    BY ONLY <1>2, <1>4 DEF InDrain
  <1>10. ASSUME NEW i \in DOMAIN spool', NEW j \in DOMAIN spool', i < j,
                spool'[i].text = spool'[j].text, Owed(cf, i)'
         PROVE  Apart(cf, i, j)'
    <2>1. CASE j \in DOMAIN spool
      BY <1>1, <1>4, <1>10, <2>1, <1>7, <1>3, <1>8 DEF Owed, Unsent, OneSender
    <2>2. CASE j \notin DOMAIN spool
      <3>1. i \in DOMAIN spool BY ONLY <1>1, <1>4, <1>10, <2>2
      <3>2. spool'[j].text = t /\ spool'[j].created = now BY ONLY <1>1, <1>10, <2>2
      <3>3. spool' # spool BY <1>10, <2>2
      <3>4. spool[i].status \in Unsent /\ spool[i].text = t BY <1>1, <1>7, <1>10, <3>1, <3>2, <3>3
      <3>5. i \notin Outbox(cf)!Foldable(t) BY ONLY <1>1, <3>3
      <3>6. ~(spool[i].updated + cf.MaxAge >= now)
        BY ONLY <3>1, <3>4, <3>5 DEF Outbox!Foldable, Outbox!Undelivered, Unsent
      <3>7. spool[i].created + cf.MaxAge < now BY ONLY <1>4, <1>5, <3>1, <3>6
      <3> QED BY ONLY <1>1, <3>1, <3>2, <3>7 DEF Apart
    <2> QED BY <2>1, <2>2
  <1>11. \A i, j \in InDrain(cf) : i < j /\ spool'[i].text = spool'[j].text => Apart(cf, i, j)'
    <2> SUFFICES ASSUME NEW i \in InDrain(cf), NEW j \in InDrain(cf), i < j,
                        spool'[i].text = spool'[j].text
                 PROVE  Apart(cf, i, j)'
      OBVIOUS
    <2>1. i \in DOMAIN spool /\ j \in DOMAIN spool /\ spool[i].text = spool[j].text
      BY ONLY <1>1, <1>9, i \in InDrain(cf), j \in InDrain(cf), spool'[i].text = spool'[j].text
    <2>2. Apart(cf, i, j) BY ONLY <1>3, <2>1, i < j, i \in InDrain(cf), j \in InDrain(cf) DEF OneSender
    <2> QED BY ONLY <1>8, <2>1, <2>2
  <1>12. ASSUME r \in drain.list, spool[r].status = "delivered"
         PROVE  /\ drain.at <= spool[r].created + cf.MaxAge
                /\ \A h \in InDrain(cf) : h < r /\ spool[h].text = spool[r].text
                      => drain.at > spool[h].created + cf.MaxAge
    <2>1. r \in DOMAIN spool /\ drain.at = now BY <1>12 DEF PlaceFacts
    <2>2. /\ Outbox(cf)!Foldable(t) = {} /\ r \in Outbox(cf)!Absorbing(t)
          /\ \A q \in Outbox(cf)!Absorbing(t) : r <= q
      BY <1>4, <2>1, <1>12, SendStep(cf, p, t, r) DEF Outbox!Foldable, Outbox!Undelivered, SendStep
    <2>3. spool[r].text = t /\ spool[r].created + cf.Dedup >= now
      BY ONLY <2>2 DEF Outbox!Absorbing
    <2>4. drain.at <= spool[r].created + cf.MaxAge BY ONLY <1>4, <1>5, <2>1, <2>3
    <2>5. ASSUME NEW h \in InDrain(cf), h < r, spool[h].text = spool[r].text
          PROVE  now > spool[h].created + cf.MaxAge
      <3>1. h \in DOMAIN spool BY <1>9
      <3>2. spool[h].status \notin {"merged", "stale"} BY DEF MergeFacts, InDrain
      <3>3. CASE spool[h].status \in Unsent
        BY <2>2, <2>3, <2>5, <3>1, <3>3, <1>4, <1>5 DEF Outbox!Foldable, Outbox!Undelivered, Unsent
      <3>4. CASE spool[h].status = "delivered"
        <4>1. r \in InDrain(cf) BY <1>12 DEF InDrain
        <4>2. Apart(cf, h, r) BY ONLY <1>3, <2>5, <4>1 DEF OneSender
        <4>3. h \notin Outbox(cf)!Absorbing(t) BY ONLY <1>4, <2>1, <2>2, <2>5, <3>1
        <4>4. ~(spool[h].created + cf.Dedup >= now)
          BY ONLY <2>3, <2>5, <3>1, <3>4, <4>3 DEF Outbox!Absorbing
        <4>5. spool[h].created # spool[r].created BY ONLY <2>3, <4>4
        <4>6. spool[h].created + cf.MaxAge < spool[r].created BY ONLY <4>2, <4>5 DEF Apart
        <4> QED BY ONLY <1>4, <1>5, <2>1, <3>1, <4>6
      <3> QED BY ONLY <1>5, <3>1, <3>2, <3>3, <3>4 DEF Unsent
    <2> QED BY ONLY <2>1, <2>4, <2>5
  <1>13. ASSUME NEW a \in cf.Senders, act'[a].pc = "lock", act'[a].row \in drain.list,
                spool'[act'[a].row].status = "delivered"
         PROVE  /\ drain.at <= spool'[act'[a].row].created + cf.MaxAge
                /\ \A h \in InDrain(cf) : h < act'[a].row /\ spool'[h].text = spool'[act'[a].row].text
                      => drain.at > spool'[h].created + cf.MaxAge
    BY Alone(cf), <1>2, <1>4, <1>13, <1>1, <1>9, <1>12 DEF Alone
  <1>14. \A i \in DOMAIN drain.heads : drain.at <= spool'[drain.heads[i]].created + cf.MaxAge
    BY ONLY <1>1, <1>3, <1>4 DEF OneSender
  <1> QED BY ONLY <1>2, <1>9, <1>10, <1>11, <1>13, <1>14 DEF OneSender

LEMMA SendKept ==
  ASSUME NEW cf, Outbox(cf)!Shape, OutboxInv(cf), NEW p \in cf.Senders, NEW t \in cf.Texts,
         Outbox(cf)!Send(p, t)
  PROVE  OutboxInv(cf)'
  <1>1. PICK r : SendStep(cf, p, t, r) BY SendIs
  <1>2. /\ OutboxTypes(cf)' /\ PlaceFacts(cf)' /\ LockFacts(cf)' /\ RouteFacts(cf)'
        /\ SentFacts(cf)' /\ MergeFacts(cf)'
        /\ DOMAIN spool \subseteq DOMAIN spool' /\ \A i \in DOMAIN spool : spool'[i] = spool[i]
    BY <1>1, SendKeepsPlaces
  <1>3. Unmarked(cf) => OneOpenRow(cf)' BY <1>1, SendKeepsOpen
  <1>4. Alone(cf) => OneSender(cf)' BY <1>1, SendKeepsSender
  <1>5. /\ act[p].pc = "idle" /\ act'[p].pc = "lock" /\ act'[p].row = r
        /\ \A b \in Deliverers(cf) : b # p => act'[b] = act[b]
        /\ UNCHANGED <<drain, injected, gap>>
        /\ r \notin DOMAIN spool \/ r \in Outbox(cf)!Foldable(t) \/ r \in Outbox(cf)!Absorbing(t)
    <2>1. Len(spool) + 1 \notin DOMAIN spool
      BY OutboxFields DEF OutboxInv
    <2> QED BY ONLY <1>1, <2>1 DEF SendStep
  <1>6. ASSUME OnceFacts(cf) PROVE OnceFacts(cf)'
    <2>1. ASSUME NEW i \in DOMAIN spool, Shut(cf, i) PROVE Shut(cf, i)'
      BY <1>5, <2>1, <1>2 DEF Shut, Outbox!Foldable, Outbox!Absorbing, Outbox!Undelivered
    <2> QED BY ONLY <1>2, <1>5, <1>6, <2>1 DEF OnceFacts, Locking
  <1> QED BY ONLY <1>2, <1>3, <1>4, <1>6, OutboxInv(cf) DEF OutboxInv

LEMMA OutboxKept ==
  ASSUME NEW cf, Outbox(cf)!Shape, OutboxInv(cf), [Outbox(cf)!Next]_(Outbox(cf)!vars)
  PROVE  OutboxInv(cf)'
  <1>1. Outbox(cf)!Actors = Deliverers(cf) BY OutboxFields DEF OutboxInv
  <1>2. ASSUME NEW p \in cf.Senders, NEW t \in cf.Texts, Outbox(cf)!Send(p, t) PROVE OutboxInv(cf)'
    BY <1>2, SendKept
  <1>3. ASSUME NEW a \in Deliverers(cf), Outbox(cf)!Delivery(a) PROVE OutboxInv(cf)'
    <2> USE DEF OutboxInv
    <2>1. DeliveryStep(cf, a) /\ UNCHANGED <<drain, route, now, gap>> /\ act[a].row \in DOMAIN spool
      BY <1>3, DeliveryIs
    <2>2. DeliveryPoints(cf, a, act[a].row) BY <2>1, DeliveryPointsHold
    <2>3. OutboxTypes(cf)' /\ PlaceFacts(cf)' /\ LockFacts(cf)' BY <2>1, <2>2, DeliveryKeepsPlaces
    <2>4. RouteFacts(cf)' /\ SentFacts(cf)' BY <2>1, <2>2, DeliveryKeepsRoute
    <2>5. /\ MergeFacts(cf)'
          /\ Unmarked(cf) /\ OneOpenRow(cf) => OneOpenRow(cf)'
          /\ Alone(cf) /\ OneSender(cf) => OneSender(cf)'
      BY <2>1, <2>2, DeliveryKeepsMerged
    <2>6. OnceFacts(cf) => OnceFacts(cf)' BY <2>1, <2>2, DeliveryKeepsOnce
    <2> QED BY ONLY <2>3, <2>4, <2>5, <2>6, OutboxInv(cf) DEF OutboxInv
  <1>4. ASSUME NEW p \in cf.Senders, Outbox(cf)!Answered(p) \/ Outbox(cf)!Cancelled(p)
        PROVE  OutboxInv(cf)'
    BY <1>4, LeavesKept DEF Outbox!Answered, Outbox!Cancelled, Deliverers
  <1>5. CASE Outbox(cf)!DrainEnds
    BY <1>5, LeavesKept DEF Outbox!DrainEnds, Outbox!Drainer, Deliverers
  <1>6. CASE Outbox(cf)!DrainReads \/ Outbox(cf)!DrainMarks \/ Outbox(cf)!DrainRuns
    BY <1>6, DrainReadsKept, DrainMarksKept, DrainRunsKept
  <1>7. CASE Outbox(cf)!Tick \/ Outbox(cf)!RouteCloses \/ Outbox(cf)!RouteOpens \/ Outbox(cf)!Crash
    BY <1>7, TimePassesKept, RouteMovesKept, OutboxCrashKept
  <1>8. CASE UNCHANGED Outbox(cf)!vars
    <2>1. UNCHANGED <<spool, act, drain, route, now, injected, turned, gap, moved>>
      BY <1>8 DEF Outbox!vars
    <2>2. /\ OutboxTypes(cf)' = OutboxTypes(cf) /\ PlaceFacts(cf)' = PlaceFacts(cf)
          /\ LockFacts(cf)' = LockFacts(cf)
      BY ONLY <2>1 DEF OutboxTypes, PlaceFacts, LockFacts
    <2>3. /\ RouteFacts(cf)' = RouteFacts(cf) /\ SentFacts(cf)' = SentFacts(cf)
          /\ MergeFacts(cf)' = MergeFacts(cf) /\ OneOpenRow(cf)' = OneOpenRow(cf)
      BY ONLY <2>1 DEF RouteFacts, SentFacts, MergeFacts, OneOpenRow
    <2>4. OneSender(cf)' = OneSender(cf) BY ONLY <2>1 DEF OneSender, Apart, InDrain, Owed
    <2>5. OnceFacts(cf)' = OnceFacts(cf) BY ONLY <2>1 DEF OnceFacts, Shut
    <2> QED BY ONLY <2>2, <2>3, <2>4, <2>5, OutboxInv(cf) DEF OutboxInv
  <1> QED BY ONLY <1>1, <1>2, <1>3, <1>4, <1>5, <1>6, <1>7, <1>8, [Outbox(cf)!Next]_(Outbox(cf)!vars)
          DEF Outbox!Next, Outbox!Draining

LEMMA OutboxStarts ==
  ASSUME NEW cf, Outbox(cf)!Shape, Outbox(cf)!Init
  PROVE  OutboxInv(cf)
  <1>1. /\ act = [a \in Deliverers(cf) |-> Outbox(cf)!Idle]
        /\ drain = [pc |-> "armed", list |-> {}, heads |-> <<>>, at |-> 0]
        /\ route = TRUE /\ now = 0
        /\ injected = [r \in 1..cf.MaxRows |-> 0] /\ turned = [r \in 1..cf.MaxRows |-> 0]
        /\ gap = [r \in 1..cf.MaxRows |-> 0] /\ moved = [r \in 1..cf.MaxRows |-> "no"]
    BY DEF Outbox!Init, Outbox!Actors, Outbox!Drainer, Outbox!Rows, Outbox!Asleep, Deliverers
  <1>2. PICK f \in [1..cf.LegacyRows -> cf.Texts] :
           spool = [i \in 1..cf.LegacyRows |->
                      [text |-> f[i], status |-> "pending", created |-> 0, updated |-> 0]]
    BY DEF Outbox!Init, Outbox!Row
  <1>3. /\ cf.LegacyRows \in Nat /\ cf.MaxRows \in Nat /\ cf.LegacyRows <= cf.MaxRows
        /\ cf.MaxTime \in Nat /\ cf.MaxAttempts \in Nat /\ cf.MaxAge \in Nat
    BY DEF Outbox!Shape
  <1>4. /\ DOMAIN spool = 1..cf.LegacyRows /\ spool \in [1..cf.LegacyRows -> RowState(cf)]
        /\ \A i \in DOMAIN spool :
              spool[i].status = "pending" /\ spool[i].created = 0 /\ spool[i].updated = 0
    BY <1>2 DEF RowState, Unsent
  <1>5. spool \in Seq(RowState(cf)) /\ Len(spool) = cf.LegacyRows
    <2> DEFINE n == cf.LegacyRows
    <2>1. n \in Nat /\ spool \in [1..n -> RowState(cf)] BY <1>3, <1>4
    <2> HIDE DEF n
    <2>2. spool \in Seq(RowState(cf)) /\ DOMAIN spool = 1..n BY <2>1, IsASeq
    <2>3. Len(spool) = n BY <2>1, <2>2, LenProperties
    <2> QED BY <2>2, <2>3 DEF n
  <1>6. \A a \in Deliverers(cf) : act[a].pc = "idle" BY ONLY <1>1 DEF Outbox!Idle
  <1>7. /\ drain.pc = "armed" /\ drain.list = {} /\ drain.heads = <<>> /\ DOMAIN drain.heads = {}
        /\ drain \in [pc: {"armed", "mark", "done"}, list: SUBSET Nat, heads: Seq(Nat), at: Nat]
    BY ONLY <1>1
  <1>8. "drain" \in Deliverers(cf) BY DEF Deliverers
  <1>9. OutboxTypes(cf)
    <2>1. Outbox(cf)!Idle \in ActorState(cf)
      BY <1>3 DEF Outbox!Idle, ActorState
    <2>2. act \in [Deliverers(cf) -> ActorState(cf)] BY ONLY <1>1, <2>1
    <2>3. now \in 0..cf.MaxTime BY ONLY <1>1, <1>3
    <2> QED BY ONLY <1>1, <1>3, <1>4, <1>5, <1>7, <2>2, <2>3 DEF OutboxTypes
  <1>10. PlaceFacts(cf) /\ LockFacts(cf)
    BY ONLY <1>6, <1>7, <1>8 DEF PlaceFacts, LockFacts, Locking
  <1>11. RouteFacts(cf) /\ SentFacts(cf) BY ONLY <1>4, <1>6 DEF RouteFacts, SentFacts
  <1>12. MergeFacts(cf) BY ONLY <1>4, <1>6, <1>7, <1>8 DEF MergeFacts, Engaged, Locking
  <1>13. Unmarked(cf) => OneOpenRow(cf)
    BY <1>3, <1>4, <1>7 DEF Unmarked, OneOpenRow
  <1>14. OneSender(cf)
    BY <1>7, <1>4 DEF InDrain, Apart, OneSender
  <1>15. OnceFacts(cf) BY ONLY <1>1, <1>3, <1>6 DEF OnceFacts, Locking
  <1> QED BY ONLY <1>9, <1>10, <1>11, <1>12, <1>13, <1>14, <1>15 DEF OutboxInv

LEMMA OutboxImplies ==
  ASSUME NEW cf, Outbox(cf)!Shape, OutboxInv(cf)
  PROVE  /\ Outbox(cf)!TypeOK /\ Outbox(cf)!RefusedIsKept /\ Outbox(cf)!MergedIsKept
         /\ Unmarked(cf) \/ Alone(cf) => Outbox(cf)!OneTurnPerRow
         /\ Unmarked(cf) => Outbox(cf)!DeliveredWasInjected
  <1> USE DEF OutboxInv
  <1>1. Outbox(cf)!Actors = Deliverers(cf) /\ Outbox(cf)!Rows = 1..cf.MaxRows
        /\ DOMAIN spool \subseteq 1..cf.MaxRows
    BY OutboxFields
  <1>2. \A a, r : Outbox(cf)!Inside(a, r) <=> act[a].row = r /\ act[a].pc \in Locking
    BY ONLY TRUE DEF Outbox!Inside, Locking
  <1>3. Outbox(cf)!TypeOK
    <2>1. ASSUME NEW r PROVE Outbox(cf)!Cardinality({a \in Deliverers(cf) : Outbox(cf)!Inside(a, r)}) <= 1
      <3> DEFINE C == {a \in Deliverers(cf) : Outbox(cf)!Inside(a, r)}
      <3>1. Outbox(cf)!Cardinality(C) = Cardinality(C)
        BY DEF Outbox!Cardinality, Cardinality, Outbox!IsFiniteSet, IsFiniteSet
      <3>2. \A a, b \in C : a = b BY ONLY <1>2, LockFacts(cf) DEF LockFacts
      <3> HIDE DEF C
      <3>3. C = {} => Cardinality(C) = 0 BY FS_EmptySet
      <3>4. ASSUME NEW a \in C PROVE Cardinality(C) = 1
        <4>1. C = {a} BY ONLY <3>2, a \in C
        <4> QED BY <4>1, FS_Singleton
      <3>5. Cardinality(C) <= 1 BY ONLY <3>3, <3>4
      <3> QED BY <3>1, <3>5 DEF C
    <2>2. /\ Outbox(cf)!Len(spool) <= cf.MaxRows
          /\ \A r \in DOMAIN spool :
               /\ spool[r].status \in {"pending", "failed", "delivered", "merged", "stale"}
               /\ spool[r].created <= spool[r].updated /\ spool[r].updated <= now
      BY OutboxFields DEF OutboxTypes
    <2>3. \A a \in Deliverers(cf) :
             /\ act[a].pc \in {"idle", "lock", "check", "refused", "try", "sent", "missed",
                               "backoff", "ok", "error"}
             /\ act[a].attempt <= cf.MaxAttempts
      BY OutboxFields DEF ActorState
    <2> QED BY ONLY <1>1, <2>1, <2>2, <2>3 DEF Outbox!TypeOK, Outbox!Undelivered
  <1>4. Outbox(cf)!RefusedIsKept BY DEF Outbox!RefusedIsKept, RouteFacts
  <1>5. Outbox(cf)!MergedIsKept BY DEF Outbox!MergedIsKept, MergeFacts
  <1>6. Unmarked(cf) \/ Alone(cf) => Outbox(cf)!OneTurnPerRow
    BY <1>1 DEF OutboxTypes, OnceFacts, Outbox!OneTurnPerRow
  <1>7. ASSUME Unmarked(cf) PROVE Outbox(cf)!DeliveredWasInjected
    <2>1. OnceFacts(cf) /\ OneOpenRow(cf) BY <1>7
    <2>2. ASSUME NEW r \in DOMAIN spool, injected[r] > gap[r]
          PROVE  spool[r].status = "delivered" \/ \E a \in Deliverers(cf) : Outbox(cf)!Inside(a, r)
      BY <1>1, <2>1, <2>2, r \in DOMAIN spool, <1>2 DEF OnceFacts, OneOpenRow, Shut, Locking
    <2>3. \A r \in DOMAIN spool : spool[r].status = "delivered" => injected[r] > 0 BY DEF SentFacts
    <2> QED BY ONLY <1>1, <2>2, <2>3 DEF Outbox!DeliveredWasInjected
  <1> QED BY <1>3, <1>4, <1>5, <1>6, <1>7

\* A new row has no row of its text within the window but marked ones.
LEMMA PostsOnce ==
  ASSUME NEW cf, Outbox(cf)!Shape, OutboxInv(cf), [Outbox(cf)!Next]_(Outbox(cf)!vars)
  PROVE  Outbox(cf)!NoDoublePost
  <1> USE DEF OutboxInv
  <1>1. Outbox(cf)!Actors = Deliverers(cf) BY OutboxFields
  <1>2. ASSUME NEW p \in cf.Senders, NEW t \in cf.Texts, Outbox(cf)!Send(p, t)
        PROVE  Outbox(cf)!NoDoublePost
    <2>1. PICK r : SendStep(cf, p, t, r) BY <1>2, SendIs
    <2>2. /\ DOMAIN spool = 1..Len(spool) /\ Len(spool) \in Nat /\ now \in Nat
          /\ cf.MaxAge \in Nat /\ cf.Dedup \in Nat /\ cf.Dedup <= cf.MaxAge
          /\ \A i \in DOMAIN spool :
               /\ spool[i].created \in Nat /\ spool[i].updated \in Nat
               /\ spool[i].status \in {"pending", "failed", "delivered", "merged", "stale"}
      BY OutboxFields
    <2>3. \A i \in DOMAIN spool : spool[i].created <= spool[i].updated BY DEF OutboxTypes
    <2>4. CASE spool' = spool BY ONLY <2>2, <2>4 DEF Outbox!NoDoublePost
    <2>5. CASE spool' # spool
      <3>1. /\ Outbox(cf)!Foldable(t) = {} /\ Outbox(cf)!Absorbing(t) = {}
            /\ Len(spool') = Len(spool) + 1 /\ spool'[Len(spool')].text = t
        BY ONLY <2>1, <2>5 DEF SendStep
      <3>2. \A i \in DOMAIN spool : spool[i].text = t /\ spool[i].created + cf.Dedup >= now =>
               spool[i].status \in {"merged", "stale"}
        <4> SUFFICES ASSUME NEW i \in DOMAIN spool, spool[i].text = t, spool[i].created + cf.Dedup >= now
                     PROVE  spool[i].status \in {"merged", "stale"}
          OBVIOUS
        <4>1. spool[i].status # "delivered" BY ONLY <3>1, spool[i].text = t,
              spool[i].created + cf.Dedup >= now, i \in DOMAIN spool DEF Outbox!Absorbing
        <4>2. spool[i].updated + cf.MaxAge >= now
          BY ONLY <2>2, <2>3, spool[i].created + cf.Dedup >= now, i \in DOMAIN spool
        <4>3. spool[i].status \notin {"pending", "failed"}
          BY ONLY <3>1, <4>2, spool[i].text = t, i \in DOMAIN spool
             DEF Outbox!Foldable, Outbox!Undelivered
        <4> QED BY ONLY <2>2, <4>1, <4>3, i \in DOMAIN spool
      <3> QED BY ONLY <3>1, <3>2 DEF Outbox!NoDoublePost
    <2> QED BY <2>4, <2>5
  <1>3. ASSUME Len(spool') = Len(spool) PROVE Outbox(cf)!NoDoublePost
    BY OutboxFields, <1>3 DEF Outbox!NoDoublePost
  <1>4. ASSUME NEW a \in Deliverers(cf), Outbox(cf)!Delivery(a) PROVE Len(spool') = Len(spool)
    BY <1>4, DeliveryIs, DeliveryPointsHold DEF DeliveryPoints
  <1>5. ASSUME Outbox(cf)!DrainMarks PROVE Len(spool') = Len(spool)
    BY <1>5, MarkIs DEF MarkStep, Writes
  <1>6. \A p : Outbox(cf)!Answered(p) \/ Outbox(cf)!Cancelled(p) => spool' = spool
    BY DEF Outbox!Answered, Outbox!Cancelled
  <1>7. (\/ Outbox(cf)!DrainReads \/ Outbox(cf)!DrainRuns \/ Outbox(cf)!DrainEnds \/ Outbox(cf)!Tick
         \/ Outbox(cf)!RouteCloses \/ Outbox(cf)!RouteOpens \/ Outbox(cf)!Crash
         \/ UNCHANGED Outbox(cf)!vars) => spool' = spool
    BY DEF Outbox!DrainReads, Outbox!DrainRuns, Outbox!DrainEnds, Outbox!Tick, Outbox!RouteCloses,
           Outbox!RouteOpens, Outbox!Crash, Outbox!vars
  <1>8. \/ \E p \in cf.Senders, t \in cf.Texts : Outbox(cf)!Send(p, t)
        \/ \E a \in Deliverers(cf) : Outbox(cf)!Delivery(a)
        \/ Outbox(cf)!DrainMarks
        \/ spool' = spool
    <2>1. CASE UNCHANGED Outbox(cf)!vars BY ONLY <1>7, <2>1
    <2>2. CASE Outbox(cf)!Next
      BY <1>1, <2>2, <1>7, <1>6 DEF Outbox!Next, Outbox!Draining
    <2> QED BY <2>1, <2>2
  <1>9. spool' = spool => Len(spool') = Len(spool) OBVIOUS
  <1>10. CASE Len(spool') = Len(spool) BY <1>3, <1>10
  <1>11. CASE \E p \in cf.Senders, t \in cf.Texts : Outbox(cf)!Send(p, t) BY <1>2, <1>11
  <1> QED BY ONLY <1>4, <1>5, <1>8, <1>9, <1>10, <1>11

-----------------------------------------------------------------------------
(* CrossFollow.                                                            *)

Kinds == {"start", "delta", "complete"}

FollowFrame(cf) ==
    [type: {"info"}, pending: SUBSET cf.Streams] \cup [type: Kinds, adm: cf.Streams, n: Nat]

StreamState(cf) ==
    [pc: {"idle", "prepared", "sent", "issued", "attached", "closed"}, mark: Nat \X Nat,
     queue: Seq(FollowFrame(cf)), target: cf.Streams \cup {"none"}, started: BOOLEAN,
     shown: Seq(Kinds \X cf.Streams), ended: {"none", "run.completed", "not_seen", "left"}]

RunEntry(cf) ==
    [id: cf.Streams, adm: cf.Streams \cup {"none"}, released: BOOLEAN, terminal: BOOLEAN]

FollowTypes(cf) ==
    /\ live \in [up: BOOLEAN, epoch: 0..cf.Resets]
    /\ log \in Seq(FollowFrame(cf))
    /\ pending \in Seq(cf.Streams) /\ order \in Seq(cf.Streams)
    /\ running \in cf.Streams \cup {"none"}
    /\ said \in [cf.Streams -> Seq(Kinds)]
    /\ st \in [cf.Streams -> StreamState(cf)]
    /\ runs \in Seq(RunEntry(cf)) /\ Len(runs) <= cf.Cap

\* A frame of the turn of s; a frame that names s among the queued admissions.
Turn(f, s) == f.type # "info" /\ f.adm = s
Names(f, s) == f.type = "info" /\ s \in f.pending

Over(s) == s \in Range(order) /\ s \notin Range(pending) /\ s # running

\* An admission is queued, then runs, then is over, and what it said tells which.
QueueFacts(cf) ==
    /\ IsInjective(pending) /\ Range(pending) \subseteq Range(order)
    /\ running # "none" =>
          running \in Range(order) /\ running \notin Range(pending) /\ said[running] # <<>>
    /\ \A s \in cf.Streams :
          /\ s \in Range(order) => st[s].pc \notin {"idle", "prepared"}
          /\ said[s] # <<>> => s \in Range(order) /\ s \notin Range(pending)
          /\ Over(s) => said[s] # <<>>
          /\ \A n \in 1..Len(said[s]) :
                said[s][n] = "complete" <=> (n = Len(said[s]) /\ Over(s))

\* A frame tells what happened.
FrameOk(f) ==
    /\ f.type = "info" => f.pending \subseteq Range(order)
    /\ f.type # "info" => f.n \in 1..Len(said[f.adm]) /\ said[f.adm][f.n] = f.type

FrameFacts(cf) ==
    /\ \A i \in DOMAIN log : FrameOk(log[i])
    /\ \A s \in cf.Streams :
          /\ \A i \in DOMAIN st[s].queue : FrameOk(st[s].queue[i])
          /\ st[s].target \in Range(order) \cup {"none"}

\* An id is issued once and released once its stream is closed.
RunFacts(cf) ==
    /\ \A i, j \in DOMAIN runs : runs[i].id = runs[j].id => i = j
    /\ \A i \in DOMAIN runs :
          /\ st[runs[i].id].pc \in {"issued", "attached", "closed"}
          /\ runs[i].released => st[runs[i].id].pc = "closed"

\* q holds the frames k + 1 to m of the turn of s, each once and in order.
Rest(q, s, k, m) ==
    /\ \A i \in DOMAIN q : Turn(q[i], s) => k < q[i].n /\ q[i].n <= m
    /\ \A i, j \in DOMAIN q : Turn(q[i], s) /\ Turn(q[j], s) /\ i < j => q[i].n < q[j].n
    /\ \A n \in (k + 1)..m : \E i \in DOMAIN q : Turn(q[i], s) /\ q[i].n = n

\* s is named in q before its turn is told, if it is one of the admissions A.
Announced(q, s, A) ==
    /\ \A i \in DOMAIN q : Turn(q[i], s) => \E j \in DOMAIN q : j < i /\ Names(q[j], s)
    /\ s \in A => \E i \in DOMAIN q : Names(q[i], s)

Silent(q, s) == \A i \in DOMAIN q : ~Turn(q[i], s) /\ ~Names(q[i], s)

\* q tells the turn of s whole, as far as it has got.
Whole(q, s) == Rest(q, s, 0, Len(said[s])) /\ Announced(q, s, Range(order))

\* The event stream of a live session tells a turn whole, or it was over before.
LogFacts(cf) ==
    \A s \in cf.Streams :
        \/ Whole(log, s)
        \/ Silent(log, s) /\ Over(s)

\* What an attached stream has still to read: the rest of its turn, all of it, or
\* nothing of it, since its session was dropped before the turn or opened after.
Reads(s, x) ==
    \/ /\ x.target = s /\ Rest(x.queue, s, Len(x.shown), Len(said[s]))
       /\ x.mark[1] = live.epoch \/ Over(s)
    \/ /\ x.target = "none" /\ Whole(x.queue, s)
       /\ x.mark[1] = live.epoch \/ Over(s)
    \/ /\ x.target = "none" /\ Silent(x.queue, s)
       /\ x.mark[1] # live.epoch \/ Over(s)

StreamOk(s, x) ==
    /\ x.mark[1] <= live.epoch
    /\ x.pc \in {"prepared", "sent", "issued"} /\ x.mark[1] = live.epoch =>
          x.mark[2] <= Len(log) /\ \A i \in 1..x.mark[2] : ~Turn(log[i], s) /\ ~Names(log[i], s)
    /\ x.target \in {"none", s}
    /\ x.target = "none" => x.shown = <<>> /\ ~x.started
    /\ x.pc \notin {"attached", "closed"} => x.target = "none"
    /\ x.pc # "closed" => x.ended = "none"
    /\ x.pc = "attached" => Reads(s, x)
    /\ Len(x.shown) <= Len(said[s])
    /\ \A i \in DOMAIN x.shown : x.shown[i] = <<said[s][i], s>>
    /\ x.ended = "run.completed" => Over(s) /\ Len(x.shown) + 1 = Len(said[s])

\* An id is bound to its own stream, once that has seen its end.
BoundFacts(cf) ==
    \A i \in DOMAIN runs :
        /\ runs[i].adm \in {"none", runs[i].id}
        /\ st[runs[i].id].ended = "run.completed" => runs[i].adm = runs[i].id

\* Where no two sends have one text a stream follows its own.
FollowInv(cf) ==
    /\ FollowTypes(cf) /\ QueueFacts(cf) /\ FrameFacts(cf) /\ RunFacts(cf)
    /\ ~cf.SameText => /\ LogFacts(cf) /\ BoundFacts(cf)
                       /\ \A s \in cf.Streams : StreamOk(s, st[s])

\* The frames a list gains at its end, loses at its head or leaves before a mark.
LEMMA RestAppended ==
  ASSUME NEW cf, NEW q \in Seq(FollowFrame(cf)), NEW f \in FollowFrame(cf), NEW s,
         NEW k \in Nat, NEW m \in Nat, Rest(q, s, k, m)
  PROVE  /\ ~Turn(f, s) => Rest(Append(q, f), s, k, m)
         /\ Turn(f, s) /\ f.n = m + 1 /\ k <= m => Rest(Append(q, f), s, k, m + 1)
  <1> DEFINE r == Append(q, f)
  <1>1. /\ Len(q) \in Nat /\ DOMAIN q = 1..Len(q) /\ DOMAIN r = 1..(Len(q) + 1)
        /\ \A i \in 1..Len(q) : r[i] = q[i]
        /\ r[Len(q) + 1] = f
    BY AppendIs
  <1> HIDE DEF r
  <1>2. ~Turn(f, s) => Rest(r, s, k, m)
    <2> SUFFICES ASSUME ~Turn(f, s) PROVE Rest(r, s, k, m) OBVIOUS
    <2>1. \A i \in DOMAIN r : Turn(r[i], s) => i \in DOMAIN q /\ r[i] = q[i] BY <1>1
    <2>2. \A i \in DOMAIN q : i \in DOMAIN r /\ r[i] = q[i] BY <1>1
    <2> QED BY <2>1, <2>2 DEF Rest
  <1>3. ASSUME Turn(f, s), f.n = m + 1, k <= m PROVE Rest(r, s, k, m + 1)
    <2>1. \A i \in DOMAIN r : (i \in DOMAIN q /\ r[i] = q[i]) \/ (i = Len(q) + 1 /\ r[i] = f)
      BY <1>1
    <2>2. \A i \in DOMAIN q : i \in DOMAIN r /\ r[i] = q[i] /\ i < Len(q) + 1 BY <1>1
    <2>3. Len(q) + 1 \in DOMAIN r /\ \A i \in DOMAIN r : i <= Len(q) + 1 BY <1>1
    <2>4. \A i \in DOMAIN q : Turn(q[i], s) => q[i].n \in Nat
      <3> SUFFICES ASSUME NEW i \in DOMAIN q, Turn(q[i], s) PROVE q[i].n \in Nat OBVIOUS
      <3>1. q[i] \in FollowFrame(cf) BY <1>1
      <3> QED BY <3>1 DEF FollowFrame, Turn
    <2>5. \A i \in DOMAIN r : Turn(r[i], s) => k < r[i].n /\ r[i].n <= m + 1
      BY <1>3, <2>1, <2>4 DEF Rest
    <2>6. \A i, j \in DOMAIN r : Turn(r[i], s) /\ Turn(r[j], s) /\ i < j => r[i].n < r[j].n
      <3> SUFFICES ASSUME NEW i \in DOMAIN r, NEW j \in DOMAIN r, Turn(r[i], s), Turn(r[j], s), i < j
                   PROVE  r[i].n < r[j].n
        OBVIOUS
      <3>1. i \in DOMAIN q /\ r[i] = q[i] BY <1>1
      <3>2. CASE j \in DOMAIN q /\ r[j] = q[j] BY <3>1, <3>2 DEF Rest
      <3>3. CASE r[j] = f BY <1>3, <3>1, <3>3, <2>4 DEF Rest
      <3> QED BY <2>1, <3>2, <3>3
    <2>7. \A n \in (k + 1)..(m + 1) : \E i \in DOMAIN r : Turn(r[i], s) /\ r[i].n = n
      <3> SUFFICES ASSUME NEW n \in (k + 1)..(m + 1)
                   PROVE  \E i \in DOMAIN r : Turn(r[i], s) /\ r[i].n = n
        OBVIOUS
      <3>1. CASE n = m + 1 BY <1>1, <1>3, <2>3, <3>1
      <3>2. CASE n \in (k + 1)..m
        <4>1. PICK i \in DOMAIN q : Turn(q[i], s) /\ q[i].n = n BY <3>2 DEF Rest
        <4> QED BY <4>1, <2>2
      <3> QED BY <3>1, <3>2
    <2> QED BY ONLY <2>5, <2>6, <2>7 DEF Rest
  <1> QED BY <1>2, <1>3 DEF r

LEMMA RestTail ==
  ASSUME NEW cf, NEW q \in Seq(FollowFrame(cf)), q # <<>>, NEW s,
         NEW k \in Nat, NEW m \in Nat, Rest(q, s, k, m)
  PROVE  /\ ~Turn(q[1], s) => Rest(Tail(q), s, k, m)
         /\ Turn(q[1], s) => q[1].n = k + 1 /\ k + 1 <= m /\ Rest(Tail(q), s, k + 1, m)
  <1> DEFINE r == Tail(q)
  <1>1. /\ 1 \in DOMAIN q /\ DOMAIN q = 1..Len(q) /\ Len(q) \in Nat
        /\ \A i \in DOMAIN r : r[i] = q[i + 1] /\ i + 1 \in DOMAIN q
        /\ \A i \in DOMAIN q : i = 1 \/ (i - 1 \in DOMAIN r /\ r[i - 1] = q[i])
        /\ DOMAIN r = 1..(Len(q) - 1)
    BY HeadTailIs
  <1> HIDE DEF r
  <1>2. \A i, j \in DOMAIN r : i < j => i + 1 < j + 1 BY <1>1
  <1>3. ASSUME ~Turn(q[1], s) PROVE Rest(r, s, k, m)
    <2>1. \A i \in DOMAIN r : Turn(r[i], s) => k < r[i].n /\ r[i].n <= m BY <1>1 DEF Rest
    <2>2. \A i, j \in DOMAIN r : Turn(r[i], s) /\ Turn(r[j], s) /\ i < j => r[i].n < r[j].n
      BY <1>1, <1>2 DEF Rest
    <2>3. \A n \in (k + 1)..m : \E i \in DOMAIN r : Turn(r[i], s) /\ r[i].n = n
      <3> SUFFICES ASSUME NEW n \in (k + 1)..m
                   PROVE  \E i \in DOMAIN r : Turn(r[i], s) /\ r[i].n = n
        OBVIOUS
      <3>1. PICK i \in DOMAIN q : Turn(q[i], s) /\ q[i].n = n BY DEF Rest
      <3> QED BY <1>1, <1>3, <3>1
    <2> QED BY ONLY <2>1, <2>2, <2>3 DEF Rest
  <1>4. ASSUME Turn(q[1], s)
        PROVE  q[1].n = k + 1 /\ k + 1 <= m /\ Rest(r, s, k + 1, m)
    <2>0. \A i \in DOMAIN q : Turn(q[i], s) => q[i].n \in Nat
      <3> SUFFICES ASSUME NEW i \in DOMAIN q, Turn(q[i], s) PROVE q[i].n \in Nat OBVIOUS
      <3>1. q[i] \in FollowFrame(cf) BY <1>1
      <3> QED BY <3>1 DEF FollowFrame, Turn
    <2>1. q[1].n \in Nat /\ k < q[1].n /\ q[1].n <= m BY <1>1, <1>4, <2>0 DEF Rest
    <2>2. PICK i \in DOMAIN q : Turn(q[i], s) /\ q[i].n = k + 1
      BY <2>1 DEF Rest
    <2>3. i = 1
      <3> SUFFICES ASSUME i # 1 PROVE FALSE OBVIOUS
      <3>1. 1 < i BY <1>1
      <3>2. q[1].n < q[i].n BY <1>1, <1>4, <2>2, <3>1 DEF Rest
      <3> QED BY <2>1, <2>2, <3>2
    <2>4. \A j \in DOMAIN r : Turn(r[j], s) => k + 1 < r[j].n /\ r[j].n <= m
      <3> SUFFICES ASSUME NEW j \in DOMAIN r, Turn(r[j], s) PROVE k + 1 < r[j].n /\ r[j].n <= m
        OBVIOUS
      <3>1. r[j] = q[j + 1] /\ j + 1 \in DOMAIN q /\ 1 < j + 1 BY <1>1
      <3>2. q[1].n < q[j + 1].n BY <1>1, <1>4, <3>1 DEF Rest
      <3> QED BY <2>2, <2>3, <3>1, <3>2 DEF Rest
    <2>5. \A a, b \in DOMAIN r : Turn(r[a], s) /\ Turn(r[b], s) /\ a < b => r[a].n < r[b].n
      BY <1>1, <1>2 DEF Rest
    <2>6. \A n \in (k + 1 + 1)..m : \E j \in DOMAIN r : Turn(r[j], s) /\ r[j].n = n
      <3> SUFFICES ASSUME NEW n \in (k + 1 + 1)..m
                   PROVE  \E j \in DOMAIN r : Turn(r[j], s) /\ r[j].n = n
        OBVIOUS
      <3>1. n \in (k + 1)..m /\ n # k + 1 OBVIOUS
      <3>2. PICK j \in DOMAIN q : Turn(q[j], s) /\ q[j].n = n BY <3>1 DEF Rest
      <3>3. j # 1 BY <2>2, <2>3, <3>1, <3>2
      <3> QED BY <1>1, <3>2, <3>3
    <2> QED BY ONLY <2>1, <2>2, <2>3, <2>4, <2>5, <2>6 DEF Rest
  <1> QED BY <1>3, <1>4 DEF r

LEMMA SubSeqIs ==
  ASSUME NEW S, NEW q \in Seq(S), NEW p \in Nat
  PROVE  LET r == SubSeq(q, p + 1, Len(q)) IN
         /\ r \in Seq(S)
         /\ \A i \in DOMAIN r : i + p \in DOMAIN q /\ r[i] = q[i + p]
  <1> DEFINE r == SubSeq(q, p + 1, Len(q))
  <1>1. Len(q) \in Nat /\ DOMAIN q = 1..Len(q) BY LenProperties
  <1>2. p + 1 \in Int /\ Len(q) \in Int BY <1>1
  <1>3. \A i \in (p + 1)..Len(q) : q[i] \in S
    BY <1>1
  <1>4. /\ r \in Seq(S) /\ Len(r) = IF p + 1 <= Len(q) THEN Len(q) - (p + 1) + 1 ELSE 0
        /\ \A i \in 1..(Len(q) - (p + 1) + 1) : r[i] = q[p + 1 + i - 1]
    BY ONLY <1>2, <1>3, SubSeqProperties
  <1> HIDE DEF r
  <1>5. DOMAIN r = 1..Len(r) /\ Len(r) \in Nat BY ONLY <1>4, LenProperties
  <1>6. \A l, n \in Nat : n = (IF p + 1 <= l THEN l - (p + 1) + 1 ELSE 0) =>
           \A i \in 1..n : i \in 1..(l - (p + 1) + 1) /\ i + p \in 1..l /\ p + 1 + i - 1 = i + p
    OBVIOUS
  <1>7. \A i \in DOMAIN r : /\ i \in 1..(Len(q) - (p + 1) + 1) /\ i + p \in DOMAIN q
                           /\ p + 1 + i - 1 = i + p
    BY ONLY <1>1, <1>4, <1>5, <1>6
  <1>8. \A i \in DOMAIN r : r[i] = q[i + p]
    <2> SUFFICES ASSUME NEW i \in DOMAIN r PROVE r[i] = q[i + p] OBVIOUS
    <2>1. r[i] = q[p + 1 + i - 1] BY ONLY <1>4, <1>7, i \in DOMAIN r
    <2> QED BY ONLY <1>7, <2>1, i \in DOMAIN r
  <1> QED BY <1>4, <1>7, <1>8 DEF r

LEMMA RestOfSub ==
  ASSUME NEW cf, NEW q \in Seq(FollowFrame(cf)), NEW p \in Nat, p <= Len(q), NEW s,
         \A i \in 1..p : ~Turn(q[i], s) /\ ~Names(q[i], s)
  PROVE  LET r == SubSeq(q, p + 1, Len(q)) IN
         /\ r \in Seq(FollowFrame(cf))
         /\ \A k, m \in Nat : Rest(q, s, k, m) => Rest(r, s, k, m)
         /\ \A A : Announced(q, s, A) => Announced(r, s, A)
         /\ Silent(q, s) => Silent(r, s)
  <1> DEFINE r == SubSeq(q, p + 1, Len(q))
  <1>1. /\ Len(q) \in Nat /\ DOMAIN q = 1..Len(q) /\ r \in Seq(FollowFrame(cf))
        /\ DOMAIN r = 1..(Len(q) - p) /\ \A i \in 1..(Len(q) - p) : r[i] = q[i + p]
    <2>1. Len(q) \in Nat /\ DOMAIN q = 1..Len(q) BY LenProperties
    <2>2. \A i \in (p + 1)..Len(q) : q[i] \in FollowFrame(cf) BY <2>1
    <2>3. p + 1 \in Int /\ Len(q) \in Int BY <2>1
    <2>4. /\ r \in Seq(FollowFrame(cf))
          /\ Len(r) = IF p + 1 <= Len(q) THEN Len(q) - (p + 1) + 1 ELSE 0
          /\ \A i \in 1..(Len(q) - (p + 1) + 1) : r[i] = q[p + 1 + i - 1]
      BY ONLY <2>2, <2>3, SubSeqProperties
    <2> HIDE DEF r
    <2>5. Len(r) = Len(q) - p /\ Len(q) - (p + 1) + 1 = Len(q) - p
      <3>1. \A l \in Nat : p <= l => /\ l - (p + 1) + 1 = l - p
                                     /\ (IF p + 1 <= l THEN l - (p + 1) + 1 ELSE 0) = l - p
        OBVIOUS
      <3> QED BY ONLY <2>1, <2>4, <3>1, p <= Len(q)
    <2>6. DOMAIN r = 1..(Len(q) - p) BY <2>4, <2>5, LenProperties
    <2>7. \A i \in 1..(Len(q) - p) : p + 1 + i - 1 = i + p OBVIOUS
    <2>8. \A i \in 1..(Len(q) - p) : r[i] = q[i + p] BY <2>4, <2>5, <2>7
    <2> QED BY <2>1, <2>4, <2>6, <2>8
  <1> HIDE DEF r
  <1>2. \A i \in DOMAIN r : i + p \in DOMAIN q /\ r[i] = q[i + p] BY <1>1
  <1>3. \A i \in DOMAIN q : Turn(q[i], s) \/ Names(q[i], s) => i - p \in DOMAIN r /\ r[i - p] = q[i]
    <2> SUFFICES ASSUME NEW i \in DOMAIN q, Turn(q[i], s) \/ Names(q[i], s)
                 PROVE  i - p \in DOMAIN r /\ r[i - p] = q[i]
      OBVIOUS
    <2>1. i \notin 1..p OBVIOUS
    <2>2. i - p \in 1..(Len(q) - p) BY <1>1, <2>1
    <2>3. (i - p) + p = i BY <1>1
    <2> QED BY <1>1, <2>2, <2>3
  <1>4. ASSUME NEW k \in Nat, NEW m \in Nat, Rest(q, s, k, m) PROVE Rest(r, s, k, m)
    <2>1. \A i \in DOMAIN r : Turn(r[i], s) => k < r[i].n /\ r[i].n <= m
      BY <1>2, <1>4 DEF Rest
    <2>2. \A i, j \in DOMAIN r : Turn(r[i], s) /\ Turn(r[j], s) /\ i < j => r[i].n < r[j].n
      BY <1>1, <1>2, <1>4 DEF Rest
    <2>3. \A n \in (k + 1)..m : \E i \in DOMAIN r : Turn(r[i], s) /\ r[i].n = n
      <3> SUFFICES ASSUME NEW n \in (k + 1)..m
                   PROVE  \E i \in DOMAIN r : Turn(r[i], s) /\ r[i].n = n
        OBVIOUS
      <3>1. PICK i \in DOMAIN q : Turn(q[i], s) /\ q[i].n = n BY <1>4 DEF Rest
      <3> QED BY <1>3, <3>1
    <2> QED BY ONLY <2>1, <2>2, <2>3 DEF Rest
  <1>5. ASSUME NEW A, Announced(q, s, A) PROVE Announced(r, s, A)
    <2>1. \A i \in DOMAIN r : Turn(r[i], s) => \E j \in DOMAIN r : j < i /\ Names(r[j], s)
      <3> SUFFICES ASSUME NEW i \in DOMAIN r, Turn(r[i], s)
                   PROVE  \E j \in DOMAIN r : j < i /\ Names(r[j], s)
        OBVIOUS
      <3>1. i + p \in DOMAIN q /\ Turn(q[i + p], s) BY <1>2
      <3>2. PICK j \in DOMAIN q : j < i + p /\ Names(q[j], s) BY <1>5, <3>1 DEF Announced
      <3>3. j - p \in DOMAIN r /\ r[j - p] = q[j] BY <1>3, <3>2
      <3>4. j - p < i BY <1>1, <3>2
      <3> QED BY <3>2, <3>3, <3>4
    <2>2. s \in A => \E i \in DOMAIN r : Names(r[i], s) BY <1>3, <1>5 DEF Announced
    <2> QED BY ONLY <2>1, <2>2 DEF Announced
  <1>6. Silent(q, s) => Silent(r, s) BY <1>2 DEF Silent
  <1> QED BY <1>1, <1>4, <1>5, <1>6 DEF r

LEMMA AnnouncedMoves ==
  ASSUME NEW cf, NEW q \in Seq(FollowFrame(cf)), NEW s
  PROVE  /\ \A f \in FollowFrame(cf) : \A A, B :
              /\ Announced(q, s, A) /\ (s \in B => s \in A \/ Names(f, s)) /\ (Turn(f, s) => s \in A)
                    => Announced(Append(q, f), s, B)
              /\ Silent(q, s) /\ ~Turn(f, s) /\ ~Names(f, s) => Silent(Append(q, f), s)
         /\ q # <<>> => /\ \A A : Announced(q, s, A) => ~Turn(q[1], s)
                        /\ \A A : Announced(q, s, A) /\ ~Names(q[1], s) => Announced(Tail(q), s, A)
                        /\ Silent(q, s) => Silent(Tail(q), s) /\ ~Turn(q[1], s) /\ ~Names(q[1], s)
  <1>1. ASSUME NEW f \in FollowFrame(cf), NEW A, NEW B
        PROVE  /\ Announced(q, s, A) /\ (s \in B => s \in A \/ Names(f, s)) /\ (Turn(f, s) => s \in A)
                     => Announced(Append(q, f), s, B)
               /\ Silent(q, s) /\ ~Turn(f, s) /\ ~Names(f, s) => Silent(Append(q, f), s)
    <2> DEFINE r == Append(q, f)
    <2>1. /\ Len(q) \in Nat /\ DOMAIN q = 1..Len(q) /\ DOMAIN r = 1..(Len(q) + 1)
          /\ \A i \in 1..Len(q) : r[i] = q[i]
          /\ r[Len(q) + 1] = f
      BY AppendIs
    <2> HIDE DEF r
    <2>2. \A i \in DOMAIN q : i \in DOMAIN r /\ r[i] = q[i] /\ i < Len(q) + 1 BY <2>1
    <2>3. \A i \in DOMAIN r : (i \in DOMAIN q /\ r[i] = q[i]) \/ (i = Len(q) + 1 /\ r[i] = f)
      BY <2>1
    <2>4. ASSUME Announced(q, s, A), s \in B => s \in A \/ Names(f, s), Turn(f, s) => s \in A
          PROVE  Announced(r, s, B)
      <3>1. ASSUME NEW i \in DOMAIN r, Turn(r[i], s)
            PROVE  \E j \in DOMAIN r : j < i /\ Names(r[j], s)
        <4>1. CASE i \in DOMAIN q /\ r[i] = q[i] BY <2>2, <2>4, <3>1, <4>1 DEF Announced
        <4>2. CASE i = Len(q) + 1 /\ r[i] = f
          <5>1. PICK j \in DOMAIN q : Names(q[j], s) BY <2>4, <3>1, <4>2 DEF Announced
          <5> QED BY <2>2, <4>2, <5>1
        <4> QED BY <2>3, <4>1, <4>2
      <3>2. s \in B => \E i \in DOMAIN r : Names(r[i], s)
        BY <2>1, <2>2, <2>4 DEF Announced
      <3> QED BY ONLY <3>1, <3>2 DEF Announced
    <2>5. Silent(q, s) /\ ~Turn(f, s) /\ ~Names(f, s) => Silent(r, s) BY <2>3 DEF Silent
    <2> QED BY <2>4, <2>5 DEF r
  <1>2. ASSUME q # <<>>
        PROVE  /\ \A A : Announced(q, s, A) => ~Turn(q[1], s)
               /\ \A A : Announced(q, s, A) /\ ~Names(q[1], s) => Announced(Tail(q), s, A)
               /\ Silent(q, s) => Silent(Tail(q), s) /\ ~Turn(q[1], s) /\ ~Names(q[1], s)
    <2> DEFINE r == Tail(q)
    <2>1. /\ 1 \in DOMAIN q /\ DOMAIN q = 1..Len(q) /\ Len(q) \in Nat
          /\ \A i \in DOMAIN r : r[i] = q[i + 1] /\ i + 1 \in DOMAIN q
          /\ \A i \in DOMAIN q : i = 1 \/ (i - 1 \in DOMAIN r /\ r[i - 1] = q[i])
          /\ DOMAIN r = 1..(Len(q) - 1)
      BY <1>2, HeadTailIs
    <2> HIDE DEF r
    <2>2. ASSUME NEW A, Announced(q, s, A) PROVE ~Turn(q[1], s)
      BY <2>1, <2>2 DEF Announced
    <2>3. ASSUME NEW A, Announced(q, s, A), ~Names(q[1], s) PROVE Announced(r, s, A)
      <3>1. ASSUME NEW i \in DOMAIN r, Turn(r[i], s)
            PROVE  \E j \in DOMAIN r : j < i /\ Names(r[j], s)
        <4>1. i + 1 \in DOMAIN q /\ Turn(q[i + 1], s) BY <2>1, <3>1
        <4>2. PICK j \in DOMAIN q : j < i + 1 /\ Names(q[j], s) BY <2>3, <4>1 DEF Announced
        <4>3. j # 1 BY <2>3, <4>2
        <4>4. j - 1 \in DOMAIN r /\ r[j - 1] = q[j] /\ j - 1 < i BY <2>1, <4>2, <4>3
        <4> QED BY <4>2, <4>4
      <3>2. s \in A => \E i \in DOMAIN r : Names(r[i], s) BY <2>1, <2>3 DEF Announced
      <3> QED BY ONLY <3>1, <3>2 DEF Announced
    <2>4. Silent(q, s) => Silent(r, s) /\ ~Turn(q[1], s) /\ ~Names(q[1], s) BY <2>1 DEF Silent
    <2> QED BY <2>2, <2>3, <2>4 DEF r
  <1> QED BY <1>1, <1>2

\* The list operators of the follow are those of the lemmas on lists.
LEMMA FollowLists ==
  ASSUME NEW cf
  PROVE  /\ \A q : Follow(cf)!Range(q) = Range(q)
         /\ \A q, i : Follow(cf)!RemovedAt(q, i) = RemovedAt(q, i)
  BY DEF Range, Follow!Range, RemovedAt, Follow!RemovedAt

LEMMA GreatestIs ==
  ASSUME NEW n \in Nat, NEW S \in SUBSET (1..n), S # {}
  PROVE  \E k \in S : \A j \in S : j <= k
  <1> DEFINE T == {n + 1 - i : i \in S}
  <1>1. T \in SUBSET (1..n) /\ T # {}
    OBVIOUS
  <1>2. PICK k \in T : \A j \in T : k <= j
    <2> HIDE DEF T
    <2> QED BY ONLY <1>1, LeastIs, n \in Nat
  <1>3. PICK i \in S : k = n + 1 - i BY <1>2
  <1>4. ASSUME NEW j \in S PROVE j <= i
    BY <1>2, <1>3, n \in Nat
  <1> QED BY <1>3, <1>4

\* The newest of some admissions is one of them.
LEMMA NewestIs ==
  ASSUME NEW cf, NEW X, order \in Seq(X), NEW S, S # {}, S \subseteq Range(order)
  PROVE  Follow(cf)!Newest(S) \in S
  <1> DEFINE D == {i \in DOMAIN order : order[i] \in S}
  <1>1. Len(order) \in Nat /\ DOMAIN order = 1..Len(order) BY LenProperties
  <1>2. \A a \in S : \E i \in DOMAIN order : order[i] = a BY DEF Range
  <1>3. D \in SUBSET (1..Len(order)) /\ D # {} BY <1>1, <1>2
  <1>4. PICK k \in D : \A j \in D : j <= k
    <2> HIDE DEF D
    <2> QED BY ONLY <1>1, <1>3, GreatestIs
  <1>5. \A b \in S : \E i, j \in DOMAIN order : order[i] = order[k] /\ order[j] = b /\ j <= i
    <2> SUFFICES ASSUME NEW b \in S
                 PROVE  \E i, j \in DOMAIN order : order[i] = order[k] /\ order[j] = b /\ j <= i
      OBVIOUS
    <2>1. PICK j \in DOMAIN order : order[j] = b BY <1>2
    <2>2. j <= k BY <1>4, <2>1
    <2> QED BY <1>4, <2>1, <2>2
  <1>6. \E a \in S : \A b \in S : \E i, j \in DOMAIN order : order[i] = a /\ order[j] = b /\ j <= i
    BY <1>4, <1>5
  <1> QED BY <1>6 DEF Follow!Newest

\* Whom an info frame makes the stream follow: an admission; its own, where no
\* other send has its text, and only if it is named.
LEMMA NamedIs ==
  ASSUME NEW cf, Follow(cf)!Shape, FollowTypes(cf), NEW s \in cf.Streams,
         NEW f \in FollowFrame(cf), FrameOk(f),
         st[s].target \in Range(order) \cup {"none"}
  PROVE  LET t == Follow(cf)!Named(s, f) IN
         /\ t \in Range(order) \cup {"none"}
         /\ f.type # "info" => t = st[s].target
         /\ ~cf.SameText /\ st[s].target = s => t = s
         /\ ~cf.SameText /\ st[s].target = "none" /\ ~st[s].started =>
               t = IF Names(f, s) THEN s ELSE "none"
  <1> DEFINE seen == {a \in f.pending : Follow(cf)!Ours(s, a)} \cup ({st[s].target} \ {"none"})
  <1>1. Follow(cf)!Named(s, f) =
          IF f.type = "info" /\ ~st[s].started /\ seen # {}
          THEN Follow(cf)!Newest(seen) ELSE st[s].target
    BY DEF Follow!Named, Follow!None
  <1>2. f.type = "info" /\ seen # {} => Follow(cf)!Newest(seen) \in seen /\ seen \subseteq Range(order)
    <2> SUFFICES ASSUME f.type = "info", seen # {}
                 PROVE  Follow(cf)!Newest(seen) \in seen /\ seen \subseteq Range(order)
      OBVIOUS
    <2>1. seen \subseteq Range(order) BY DEF FrameOk
    <2>2. order \in Seq(cf.Streams) BY DEF FollowTypes
    <2> HIDE DEF seen
    <2> QED BY <2>1, <2>2, NewestIs
  <1>3. s # "none" BY DEF Follow!Shape, Follow!None
  <1>4. ~cf.SameText /\ st[s].target = s => s \in seen /\ \A a \in seen : a = s
    BY <1>3 DEF Follow!Ours
  <1>5. ~cf.SameText /\ st[s].target = "none" =>
          (\A a \in seen : a = s) /\ (seen # {} <=> s \in f.pending)
    BY DEF Follow!Ours
  <1> HIDE DEF seen
  <1> QED BY ONLY <1>1, <1>2, <1>3, <1>4, <1>5, st[s].target \in Range(order) \cup {"none"} DEF Names

-----------------------------------------------------------------------------
\* The gateway publishes a frame: to the log, and to who is attached to it.
Publishes(cf, f) ==
    /\ f \in FollowFrame(cf) /\ log' = Append(log, f) /\ live'.epoch = live.epoch
    /\ UNCHANGED runs
    /\ st' = [s \in cf.Streams |-> IF st[s].pc = "attached" /\ st[s].mark[1] = live.epoch
                                   THEN [st[s] EXCEPT !.queue = Append(@, f)] ELSE st[s]]
    /\ \A s \in cf.Streams :
          \/ ~Turn(f, s) /\ said'[s] = said[s]
          \/ /\ Turn(f, s) /\ f.n = Len(said[s]) + 1 /\ said'[s] = Append(said[s], f.type)
             /\ s \in Range(order) /\ ~Over(s)
    /\ Range(order) \subseteq Range(order')
    /\ \A s \in cf.Streams :
          /\ s \in Range(order') => s \in Range(order) \/ Names(f, s)
          /\ Names(f, s) => s \in Range(order') /\ ~Over(s)
          /\ Over(s) => Over(s)'

\* What stays of the streams, but for the queues.
LEMMA PublishedStreams ==
  ASSUME NEW cf, FollowTypes(cf), NEW f, Publishes(cf, f)
  PROVE  /\ log' \in Seq(FollowFrame(cf)) /\ st' \in [cf.Streams -> StreamState(cf)]
         /\ Len(log') = Len(log) + 1 /\ DOMAIN log' = 1..(Len(log) + 1) /\ DOMAIN log = 1..Len(log)
         /\ Len(log) \in Nat /\ log'[Len(log) + 1] = f /\ \A i \in 1..Len(log) : log'[i] = log[i]
         /\ \A s \in cf.Streams :
              /\ st'[s].pc = st[s].pc /\ st'[s].mark = st[s].mark /\ st'[s].target = st[s].target
              /\ st'[s].started = st[s].started /\ st'[s].shown = st[s].shown
              /\ st'[s].ended = st[s].ended /\ st[s].queue \in Seq(FollowFrame(cf))
              /\ st'[s].queue = IF st[s].pc = "attached" /\ st[s].mark[1] = live.epoch
                                THEN Append(st[s].queue, f) ELSE st[s].queue
  <1>1. f \in FollowFrame(cf) /\ log \in Seq(FollowFrame(cf)) /\ log' = Append(log, f)
    BY DEF Publishes, FollowTypes
  <1>2. ASSUME NEW s \in cf.Streams
        PROVE  /\ st'[s] \in StreamState(cf)
               /\ st'[s].pc = st[s].pc /\ st'[s].mark = st[s].mark /\ st'[s].target = st[s].target
               /\ st'[s].started = st[s].started /\ st'[s].shown = st[s].shown
               /\ st'[s].ended = st[s].ended /\ st[s].queue \in Seq(FollowFrame(cf))
               /\ st'[s].queue = IF st[s].pc = "attached" /\ st[s].mark[1] = live.epoch
                                 THEN Append(st[s].queue, f) ELSE st[s].queue
    <2>1. st[s] \in StreamState(cf) BY DEF FollowTypes
    <2>2. st'[s] = IF st[s].pc = "attached" /\ st[s].mark[1] = live.epoch
                   THEN [st[s] EXCEPT !.queue = Append(@, f)] ELSE st[s]
      BY DEF Publishes
    <2>3. st[s].queue \in Seq(FollowFrame(cf)) BY <2>1 DEF StreamState
    <2>4. Append(st[s].queue, f) \in Seq(FollowFrame(cf)) BY <1>1, <2>3, AppendIs
    <2>5. CASE st[s].pc = "attached" /\ st[s].mark[1] = live.epoch
      <3>1. st'[s] = [st[s] EXCEPT !.queue = Append(st[s].queue, f)] BY ONLY <2>2, <2>5
      <3>2. PICK q \in Seq(FollowFrame(cf)) : q = Append(st[s].queue, f) BY ONLY <2>4
      <3> QED BY ONLY <2>1, <2>3, <2>5, <3>1, <3>2 DEF StreamState
    <2>6. CASE ~(st[s].pc = "attached" /\ st[s].mark[1] = live.epoch)
      BY <2>2, <2>6, <2>1, <2>3
    <2> QED BY ONLY <2>5, <2>6
  <1>3. st' \in [cf.Streams -> StreamState(cf)]
    BY <1>2 DEF Publishes
  <1>4. /\ log' \in Seq(FollowFrame(cf)) /\ Len(log') = Len(log) + 1 /\ DOMAIN log' = 1..(Len(log) + 1)
        /\ DOMAIN log = 1..Len(log) /\ Len(log) \in Nat /\ log'[Len(log) + 1] = f
        /\ \A i \in 1..Len(log) : log'[i] = log[i]
    BY ONLY <1>1, AppendIs
  <1> QED BY ONLY <1>2, <1>3, <1>4

\* What a turn has published stays, and f is its last frame if it is of the turn.
LEMMA SaidGrows ==
  ASSUME NEW cf, FollowTypes(cf), NEW f, Publishes(cf, f)
  PROVE  \A s \in cf.Streams :
            /\ said'[s] \in Seq(Kinds) /\ Len(said[s]) \in Nat
            /\ Len(said'[s]) = IF Turn(f, s) THEN Len(said[s]) + 1 ELSE Len(said[s])
            /\ \A n \in 1..Len(said[s]) : said'[s][n] = said[s][n]
            /\ Turn(f, s) => f.n = Len(said[s]) + 1 /\ said'[s][f.n] = f.type
  <1> SUFFICES ASSUME NEW s \in cf.Streams
               PROVE  /\ said'[s] \in Seq(Kinds) /\ Len(said[s]) \in Nat
                      /\ Len(said'[s]) = IF Turn(f, s) THEN Len(said[s]) + 1 ELSE Len(said[s])
                      /\ \A n \in 1..Len(said[s]) : said'[s][n] = said[s][n]
                      /\ Turn(f, s) => f.n = Len(said[s]) + 1 /\ said'[s][f.n] = f.type
    OBVIOUS
  <1>1. said[s] \in Seq(Kinds) BY DEF FollowTypes
  <1>2. Len(said[s]) \in Nat BY <1>1, LenProperties
  <1>3. CASE ~Turn(f, s) /\ said'[s] = said[s] BY <1>1, <1>2, <1>3
  <1>4. CASE Turn(f, s) /\ f.n = Len(said[s]) + 1 /\ said'[s] = Append(said[s], f.type)
    BY <1>4, <1>1, AppendIs, <1>2 DEF Publishes, FollowFrame, Turn
  <1> QED BY <1>3, <1>4 DEF Publishes

LEMMA PublishKeepsFrames ==
  ASSUME NEW cf, FollowTypes(cf), FrameFacts(cf), NEW f, Publishes(cf, f)
  PROVE  FrameFacts(cf)'
  <1> DEFINE Ok(g) == /\ g.type = "info" => g.pending \subseteq Range(order')
                      /\ g.type # "info" => g.n \in 1..Len(said'[g.adm]) /\ said'[g.adm][g.n] = g.type
  <1>1. Range(order) \subseteq Range(order') /\ f \in FollowFrame(cf) BY DEF Publishes
  <1>2. ASSUME NEW g \in FollowFrame(cf), FrameOk(g) PROVE Ok(g)
    <2>1. g.type # "info" => g.adm \in cf.Streams BY DEF FollowFrame
    <2>2. ASSUME g.type # "info"
          PROVE  g.n \in 1..Len(said'[g.adm]) /\ said'[g.adm][g.n] = g.type
      <3>1. /\ Len(said[g.adm]) \in Nat
            /\ Len(said'[g.adm]) = Len(said[g.adm]) + 1 \/ Len(said'[g.adm]) = Len(said[g.adm])
            /\ \A n \in 1..Len(said[g.adm]) : said'[g.adm][n] = said[g.adm][n]
        BY <2>1, <2>2, SaidGrows
      <3>2. g.n \in 1..Len(said[g.adm]) /\ said[g.adm][g.n] = g.type BY <1>2, <2>2 DEF FrameOk
      <3> QED BY ONLY <3>1, <3>2
    <2> QED BY <1>1, <1>2, <2>2 DEF FrameOk
  <1>3. Ok(f)
    <2>1. ASSUME f.type = "info" PROVE f.pending \subseteq Range(order')
      BY <1>1, <2>1 DEF FollowFrame, Kinds, Publishes, Names
    <2>2. ASSUME f.type # "info"
          PROVE  f.n \in 1..Len(said'[f.adm]) /\ said'[f.adm][f.n] = f.type
      BY <1>1, <2>2, SaidGrows DEF FollowFrame, Turn
    <2> QED BY <2>1, <2>2
  <1> HIDE DEF Ok
  <1>4. \A i \in DOMAIN log' : Ok(log'[i])
    <2>1. \A i \in DOMAIN log : log[i] \in FollowFrame(cf) /\ FrameOk(log[i])
      BY DEF FollowTypes, FrameFacts
    <2>2. /\ DOMAIN log' = 1..(Len(log) + 1) /\ DOMAIN log = 1..Len(log) /\ Len(log) \in Nat
          /\ log'[Len(log) + 1] = f /\ \A i \in 1..Len(log) : log'[i] = log[i]
      BY ONLY PublishedStreams, FollowTypes(cf), Publishes(cf, f)
    <2>3. \A i \in DOMAIN log' : log'[i] = f \/ (i \in DOMAIN log /\ log'[i] = log[i])
      BY ONLY <2>2
    <2> QED BY <1>2, <1>3, <2>1, <2>3
  <1>5. ASSUME NEW s \in cf.Streams
        PROVE  /\ \A i \in DOMAIN st'[s].queue : Ok(st'[s].queue[i])
               /\ st'[s].target \in Range(order') \cup {"none"}
    <2> DEFINE q == st[s].queue
    <2> DEFINE q1 == st'[s].queue
    <2>1. q \in Seq(FollowFrame(cf)) /\ (q1 = q \/ q1 = Append(q, f)) /\ st'[s].target = st[s].target
      <3>1. /\ st[s].queue \in Seq(FollowFrame(cf)) /\ st'[s].target = st[s].target
            /\ st'[s].queue = IF st[s].pc = "attached" /\ st[s].mark[1] = live.epoch
                              THEN Append(st[s].queue, f) ELSE st[s].queue
        BY ONLY PublishedStreams, FollowTypes(cf), Publishes(cf, f), s \in cf.Streams
      <3> QED BY ONLY <3>1
    <2>2. \A i \in DOMAIN q : FrameOk(q[i]) BY DEF FrameFacts
    <2>3. st[s].target \in Range(order) \cup {"none"} BY DEF FrameFacts
    <2> HIDE DEF q, q1
    <2>4. \A i \in DOMAIN q : q[i] \in FollowFrame(cf) BY <2>1
    <2>5. \A i \in DOMAIN q1 : q1[i] = f \/ (i \in DOMAIN q /\ q1[i] = q[i])
      BY ONLY <1>1, <2>1, AppendIs
    <2>6. \A i \in DOMAIN q1 : Ok(q1[i]) BY <1>2, <1>3, <2>2, <2>4, <2>5
    <2> QED BY <1>1, <2>1, <2>3, <2>6 DEF q1
  <1> QED BY <1>4, <1>5 DEF FrameFacts, FrameOk, Ok

LEMMA PublishKeepsRuns ==
  ASSUME NEW cf, FollowTypes(cf), NEW f, Publishes(cf, f)
  PROVE  /\ RunFacts(cf) => RunFacts(cf)'
         /\ BoundFacts(cf) => BoundFacts(cf)'
  <1>1. UNCHANGED runs BY DEF Publishes
  <1>2. \A i \in DOMAIN runs : runs[i].id \in cf.Streams
    <2>1. \A i \in DOMAIN runs : runs[i] \in RunEntry(cf)
      BY DEF FollowTypes
    <2> QED BY ONLY <2>1 DEF RunEntry
  <1>3. \A s \in cf.Streams : st'[s].pc = st[s].pc /\ st'[s].ended = st[s].ended
    BY PublishedStreams
  <1> QED BY ONLY <1>1, <1>2, <1>3 DEF RunFacts, BoundFacts

\* The log and the queues tell the turn as before, with the frame added.
LEMMA PublishedTells ==
  ASSUME NEW cf, FollowTypes(cf), NEW f, Publishes(cf, f), NEW s \in cf.Streams,
         NEW q \in Seq(FollowFrame(cf))
  PROVE  /\ \A k \in Nat : k <= Len(said[s]) /\ Rest(q, s, k, Len(said[s])) =>
               Rest(Append(q, f), s, k, Len(said'[s]))
         /\ Whole(q, s) => Rest(Append(q, f), s, 0, Len(said'[s]))
                           /\ Announced(Append(q, f), s, Range(order'))
         /\ Silent(q, s) /\ Over(s) => Silent(Append(q, f), s)
         /\ Over(s) => said'[s] = said[s] /\ (s \in Range(order') <=> s \in Range(order))
  <1>1. f \in FollowFrame(cf) BY DEF Publishes
  <1>2. /\ Len(said[s]) \in Nat
        /\ Len(said'[s]) = IF Turn(f, s) THEN Len(said[s]) + 1 ELSE Len(said[s])
        /\ Turn(f, s) => f.n = Len(said[s]) + 1
    BY SaidGrows
  <1>3. /\ Turn(f, s) => s \in Range(order) /\ ~Over(s)
        /\ s \in Range(order') => s \in Range(order) \/ Names(f, s)
        /\ Names(f, s) => ~Over(s)
        /\ ~Turn(f, s) => said'[s] = said[s]
    BY DEF Publishes
  <1>4. ASSUME NEW k \in Nat, k <= Len(said[s]), Rest(q, s, k, Len(said[s]))
        PROVE  Rest(Append(q, f), s, k, Len(said'[s]))
    BY ONLY <1>1, <1>2, <1>4, RestAppended, q \in Seq(FollowFrame(cf))
  <1>5. ASSUME Whole(q, s) PROVE Announced(Append(q, f), s, Range(order'))
    BY <1>5, <1>1, <1>3, AnnouncedMoves, q \in Seq(FollowFrame(cf)) DEF Whole
  <1>6. ASSUME Whole(q, s) PROVE Rest(Append(q, f), s, 0, Len(said'[s]))
    BY <1>2, <1>6, <1>4 DEF Whole
  <1>7. ASSUME Silent(q, s), Over(s) PROVE Silent(Append(q, f), s)
    BY <1>7, <1>1, AnnouncedMoves, q \in Seq(FollowFrame(cf)) DEF Publishes
  <1>8. Over(s) => said'[s] = said[s] /\ (s \in Range(order') <=> s \in Range(order))
    BY DEF Publishes, Over
  <1> QED BY ONLY <1>4, <1>5, <1>6, <1>7, <1>8

LEMMA PublishKeepsLog ==
  ASSUME NEW cf, FollowTypes(cf), LogFacts(cf), NEW f, Publishes(cf, f)
  PROVE  LogFacts(cf)'
  <1>1. log' = Append(log, f) /\ log \in Seq(FollowFrame(cf)) BY DEF Publishes, FollowTypes
  <1>2. ASSUME NEW s \in cf.Streams PROVE Whole(log, s)' \/ (Silent(log, s) /\ Over(s))'
    <2>1. CASE Whole(log, s)
      BY <1>1, <2>1, PublishedTells DEF Whole
    <2>2. CASE Silent(log, s) /\ Over(s)
      BY <1>1, <2>2, PublishedTells DEF Publishes
    <2> QED BY <2>1, <2>2 DEF LogFacts
  <1> QED BY ONLY <1>2 DEF LogFacts

LEMMA PublishKeepsStreams ==
  ASSUME NEW cf, FollowTypes(cf), \A s \in cf.Streams : StreamOk(s, st[s]),
         NEW f, Publishes(cf, f)
  PROVE  (\A s \in cf.Streams : StreamOk(s, st[s]))'
  <1> SUFFICES ASSUME NEW s \in cf.Streams PROVE StreamOk(s, st[s])' OBVIOUS
  <1> DEFINE x == st[s]
  <1> DEFINE y == st'[s]
  <1>1. /\ y.pc = x.pc /\ y.mark = x.mark /\ y.target = x.target /\ y.started = x.started
        /\ y.shown = x.shown /\ y.ended = x.ended
        /\ x.queue \in Seq(FollowFrame(cf))
        /\ y.queue = IF x.pc = "attached" /\ x.mark[1] = live.epoch THEN Append(x.queue, f)
                                                                   ELSE x.queue
    BY PublishedStreams
  <1>2. live'.epoch = live.epoch /\ (Over(s) => Over(s)') BY DEF Publishes
  <1>3. /\ Len(log) \in Nat /\ Len(log') = Len(log) + 1 /\ \A i \in 1..Len(log) : log'[i] = log[i]
    BY PublishedStreams
  <1>4. /\ Len(said[s]) \in Nat
        /\ Len(said'[s]) = Len(said[s]) \/ Len(said'[s]) = Len(said[s]) + 1
        /\ \A n \in 1..Len(said[s]) : said'[s][n] = said[s][n]
    BY SaidGrows
  <1>5. StreamOk(s, x) OBVIOUS
  <1>6. x.mark[1] \in Nat /\ x.mark[2] \in Nat /\ Len(x.shown) \in Nat /\ DOMAIN x.shown = 1..Len(x.shown)
    BY LenProperties DEF FollowTypes, StreamState
  <1>7. /\ \A k \in Nat : k <= Len(said[s]) /\ Rest(x.queue, s, k, Len(said[s])) =>
              Rest(Append(x.queue, f), s, k, Len(said'[s]))
        /\ Whole(x.queue, s) => Rest(Append(x.queue, f), s, 0, Len(said'[s]))
                                /\ Announced(Append(x.queue, f), s, Range(order'))
        /\ Silent(x.queue, s) /\ Over(s) => Silent(Append(x.queue, f), s)
        /\ Over(s) => said'[s] = said[s] /\ (s \in Range(order') <=> s \in Range(order))
    BY <1>1, PublishedTells
  <1> DEFINE Same == x.mark[1] = live.epoch
  <1>8. ASSUME x.pc = "attached"
        PROVE  \/ /\ x.target = s /\ Rest(y.queue, s, Len(x.shown), Len(said'[s]))
                  /\ Same \/ Over(s)
               \/ /\ x.target = "none" /\ Rest(y.queue, s, 0, Len(said'[s]))
                  /\ Announced(y.queue, s, Range(order'))
                  /\ Same \/ Over(s)
               \/ /\ x.target = "none" /\ Silent(y.queue, s)
                  /\ ~Same \/ Over(s)
    <2>1. Reads(s, x) /\ Len(x.shown) <= Len(said[s]) BY <1>5, <1>8 DEF StreamOk
    <2> HIDE DEF x, y
    <2>2. CASE x.target = s /\ Rest(x.queue, s, Len(x.shown), Len(said[s])) /\ Same
      BY ONLY <1>1, <1>6, <1>7, <1>8, <2>1, <2>2
    <2>3. CASE x.target = s /\ Rest(x.queue, s, Len(x.shown), Len(said[s])) /\ ~Same /\ Over(s)
      BY ONLY <1>1, <1>6, <1>7, <1>8, <2>1, <2>3
    <2>4. CASE x.target = "none" /\ Whole(x.queue, s) /\ Same
      BY ONLY <1>1, <1>7, <1>8, <2>4
    <2>5. CASE x.target = "none" /\ Whole(x.queue, s) /\ ~Same /\ Over(s)
      BY <2>5, <1>7, <1>1 DEF Whole, Announced
    <2>6. CASE x.target = "none" /\ Silent(x.queue, s) /\ ~Same BY ONLY <1>1, <2>6
    <2>7. CASE x.target = "none" /\ Silent(x.queue, s) /\ Over(s) BY ONLY <1>1, <1>7, <2>7
    <2> QED BY ONLY <2>1, <2>2, <2>3, <2>4, <2>5, <2>6, <2>7 DEF Reads
  <1>9. y.pc = "attached" => Reads(s, st[s])'
    <2> HIDE DEF Same
    <2>1. y.mark[1] = live'.epoch <=> Same BY ONLY <1>1, <1>2 DEF Same
    <2> QED BY ONLY <1>1, <1>2, <1>8, <2>1 DEF Reads, Whole, y
  <1> HIDE DEF x, y
  <1>10. /\ y.mark[1] <= live'.epoch
         /\ y.pc \in {"prepared", "sent", "issued"} /\ y.mark[1] = live'.epoch =>
              y.mark[2] <= Len(log') /\ \A i \in 1..y.mark[2] : ~Turn(log'[i], s) /\ ~Names(log'[i], s)
    BY ONLY <1>1, <1>2, <1>3, <1>5, <1>6 DEF StreamOk
  <1>11. /\ y.target \in {"none", s}
         /\ y.target = "none" => y.shown = <<>> /\ ~y.started
         /\ y.pc \notin {"attached", "closed"} => y.target = "none"
         /\ y.pc # "closed" => y.ended = "none"
         /\ Len(y.shown) <= Len(said'[s])
         /\ \A i \in DOMAIN y.shown : y.shown[i] = <<said'[s][i], s>>
    BY ONLY <1>1, <1>4, <1>5, <1>6 DEF StreamOk
  <1>12. y.ended = "run.completed" => Over(s)' /\ Len(y.shown) + 1 = Len(said'[s])
    BY ONLY <1>1, <1>2, <1>5, <1>7 DEF StreamOk
  <1> QED BY ONLY <1>9, <1>10, <1>11, <1>12 DEF StreamOk, y

-----------------------------------------------------------------------------
\* An admission is added to the queue, or taken from its head.
LEMMA RangeAppended ==
  ASSUME NEW S, NEW q \in Seq(S), NEW e \in S
  PROVE  Range(Append(q, e)) = Range(q) \cup {e}
  <1> DEFINE r == Append(q, e)
  <1>1. /\ Len(q) \in Nat /\ DOMAIN q = 1..Len(q) /\ DOMAIN r = 1..(Len(q) + 1)
        /\ \A i \in 1..Len(q) : r[i] = q[i]
        /\ r[Len(q) + 1] = e
    BY AppendIs
  <1> HIDE DEF r
  <1>2. \A x \in Range(q) : x \in Range(r) BY <1>1 DEF Range
  <1>3. e \in Range(r) BY <1>1 DEF Range
  <1>4. \A x \in Range(r) : x \in Range(q) \cup {e} BY <1>1 DEF Range
  <1> QED BY <1>2, <1>3, <1>4 DEF r

LEMMA HeadTaken ==
  ASSUME NEW S, NEW q \in Seq(S), q # <<>>, IsInjective(q)
  PROVE  IsInjective(Tail(q)) /\ Range(Tail(q)) = Range(q) \ {Head(q)} /\ Head(q) \in Range(q)
  <1> DEFINE r == Tail(q)
  <1>1. /\ Head(q) = q[1] /\ 1 \in DOMAIN q /\ DOMAIN q = 1..Len(q) /\ Len(q) \in Nat
        /\ \A i \in DOMAIN r : r[i] = q[i + 1] /\ i + 1 \in DOMAIN q
        /\ \A i \in DOMAIN q : i = 1 \/ (i - 1 \in DOMAIN r /\ r[i - 1] = q[i])
        /\ DOMAIN r = 1..(Len(q) - 1)
    BY HeadTailIs
  <1> HIDE DEF r
  <1>2. \A i, j \in DOMAIN q : q[i] = q[j] => i = j BY DEF IsInjective
  <1>3. IsInjective(r)
    BY <1>1, <1>2 DEF IsInjective
  <1>4. \A v \in Range(r) : v \in Range(q) /\ v # q[1]
    BY <1>1, <1>2 DEF Range
  <1>5. \A v \in Range(q) : v # q[1] => v \in Range(r)
    <2> SUFFICES ASSUME NEW i \in DOMAIN q, q[i] # q[1] PROVE q[i] \in Range(r) BY DEF Range
    <2>1. i - 1 \in DOMAIN r /\ r[i - 1] = q[i] BY <1>1
    <2> QED BY <2>1 DEF Range
  <1>6. q[1] \in Range(q) BY <1>1 DEF Range
  <1> QED BY <1>1, <1>3, <1>4, <1>5, <1>6 DEF r

LEMMA AdmitKept ==
  ASSUME NEW cf, Follow(cf)!Shape, FollowTypes(cf), QueueFacts(cf),
         NEW t \in cf.Streams, Follow(cf)!Admit(t)
  PROVE  /\ Publishes(cf, Follow(cf)!Info(pending'))
         /\ FollowTypes(cf)' /\ QueueFacts(cf)'
  <1> DEFINE f == Follow(cf)!Info(pending')
  <1>1. /\ t \notin Range(order) /\ order' = Append(order, t) /\ pending' = Append(pending, t)
        /\ UNCHANGED <<running, said, runs>>
        /\ log' = Append(log, f) /\ live' = [live EXCEPT !.up = TRUE]
        /\ st[t].pc \notin {"idle", "prepared"}
        /\ st' = [s \in cf.Streams |-> IF st[s].pc = "attached" /\ st[s].mark[1] = live.epoch
                                       THEN [st[s] EXCEPT !.queue = Append(@, f)] ELSE st[s]]
    BY FollowLists DEF Follow!Admit, Follow!Publish
  <1>2. f = [type |-> "info", pending |-> Range(pending')] BY FollowLists DEF Follow!Info
  <1>3. /\ pending \in Seq(cf.Streams) /\ order \in Seq(cf.Streams) BY DEF FollowTypes
  <1>4. Range(pending') = Range(pending) \cup {t} /\ Range(order') = Range(order) \cup {t}
    BY ONLY <1>1, <1>3, RangeAppended, t \in cf.Streams
  <1>5. IsInjective(pending) /\ Range(pending) \subseteq Range(order) BY DEF QueueFacts
  <1>6. IsInjective(pending') BY ONLY <1>1, <1>3, <1>5, AddedIs, t \in cf.Streams
  <1>7. pending' \in Seq(cf.Streams) /\ order' \in Seq(cf.Streams)
    BY ONLY <1>1, <1>3, AppendIs, t \in cf.Streams
  <1>8. Range(pending') \subseteq cf.Streams BY <1>7 DEF Range
  <1>9. f \in FollowFrame(cf) BY ONLY <1>2, <1>8 DEF FollowFrame
  <1>10. \A s : ~Turn(f, s) /\ (Names(f, s) <=> s \in Range(pending')) BY ONLY <1>2 DEF Turn, Names
  <1>11. \A s : Over(s)' <=> Over(s) BY ONLY <1>1, <1>4, <1>5 DEF Over
  <1>12. live'.epoch = live.epoch /\ live' \in [up: BOOLEAN, epoch: 0..cf.Resets]
    BY <1>1 DEF FollowTypes
  <1> HIDE DEF f
  <1>13. Publishes(cf, f)
    BY <1>1, <1>4, <1>5, <1>10, <1>9, <1>11, <1>12 DEF Over, Publishes
  <1>14. FollowTypes(cf)'
    BY <1>13, PublishedStreams, FollowTypes(cf), <1>1, <1>7, <1>12 DEF FollowTypes, FollowFrame,
       StreamState, RunEntry
  <1>15. QueueFacts(cf)'
    BY <1>13, PublishedStreams, FollowTypes(cf), <1>1, <1>4, <1>11, <1>5, <1>6 DEF QueueFacts
  <1> QED BY ONLY <1>13, <1>14, <1>15 DEF f

\* A turn publishes its next frame; it has not ended, and no other admission moves.
LEMMA SaysKept ==
  ASSUME NEW cf, Follow(cf)!Shape, FollowTypes(cf), QueueFacts(cf),
         NEW r \in cf.Streams, NEW type \in Kinds, Follow(cf)!Says(r, type),
         r \in Range(order), ~Over(r), \A s \in cf.Streams : s # r => (Over(s)' <=> Over(s)),
         pending' \in Seq(cf.Streams), IsInjective(pending'),
         Range(pending') \subseteq Range(pending), r \notin Range(pending'),
         running' = r \/ running' = "none", Over(r)' <=> type = "complete"
  PROVE  /\ Publishes(cf, Follow(cf)!Frame(type, r))
         /\ FollowTypes(cf)' /\ QueueFacts(cf)'
  <1> DEFINE f == Follow(cf)!Frame(type, r)
  <1>1. /\ UNCHANGED <<order, runs>> /\ said' = [said EXCEPT ![r] = Append(@, type)]
        /\ log' = Append(log, f) /\ live' = [live EXCEPT !.up = TRUE]
        /\ st' = [s \in cf.Streams |-> IF st[s].pc = "attached" /\ st[s].mark[1] = live.epoch
                                       THEN [st[s] EXCEPT !.queue = Append(@, f)] ELSE st[s]]
    BY DEF Follow!Says, Follow!Publish
  <1>2. f = [type |-> type, adm |-> r, n |-> Len(said[r]) + 1] BY DEF Follow!Frame
  <1>3. said \in [cf.Streams -> Seq(Kinds)] BY DEF FollowTypes
  <1>4. said[r] \in Seq(Kinds) /\ Len(said[r]) \in Nat
    BY <1>3, r \in cf.Streams, LenProperties
  <1>5. /\ said' \in [cf.Streams -> Seq(Kinds)] /\ said'[r] = Append(said[r], type)
        /\ \A s \in cf.Streams : s # r => said'[s] = said[s]
    BY <1>4, AppendIs, type \in Kinds, <1>1, <1>3, r \in cf.Streams
  <1>6. f \in FollowFrame(cf)
    BY <1>4, <1>2, r \in cf.Streams, type \in Kinds DEF FollowFrame
  <1>7. \A s : ~Names(f, s) /\ (Turn(f, s) <=> s = r) /\ f.n = Len(said[r]) + 1 /\ f.type = type
    BY <1>2 DEF Kinds, Turn, Names
  <1>8. live'.epoch = live.epoch /\ live' \in [up: BOOLEAN, epoch: 0..cf.Resets]
    BY <1>1 DEF FollowTypes
  <1>9. \A s \in cf.Streams : Over(s) => Over(s)' OBVIOUS
  <1> HIDE DEF f
  <1>10. Publishes(cf, f)
    BY <1>5, <1>7, r \in Range(order), ~Over(r), <1>1, <1>6, <1>8, <1>9 DEF Publishes
  <1>11. FollowTypes(cf)'
    BY <1>10, PublishedStreams, FollowTypes(cf), <1>1, <1>5, <1>8, pending' \in Seq(cf.Streams)
       DEF FollowTypes, FollowFrame, StreamState, RunEntry
  <1>12. QueueFacts(cf)'
    <2>1. \A s \in cf.Streams : st'[s].pc = st[s].pc
      BY ONLY <1>10, PublishedStreams, FollowTypes(cf)
    <2>2. Range(pending) \subseteq Range(order) BY DEF QueueFacts
    <2>3. \A s \in cf.Streams :
          /\ s \in Range(order) => st[s].pc \notin {"idle", "prepared"}
          /\ said[s] # <<>> => s \in Range(order) /\ s \notin Range(pending)
          /\ Over(s) => said[s] # <<>>
          /\ \A n \in 1..Len(said[s]) :
                said[s][n] = "complete" <=> (n = Len(said[s]) /\ Over(s))
      BY DEF QueueFacts
    <2>4. /\ Len(said'[r]) = Len(said[r]) + 1 /\ said'[r][Len(said[r]) + 1] = type
          /\ \A n \in 1..Len(said[r]) : said'[r][n] = said[r][n]
      BY ONLY <1>4, <1>5, AppendIs, type \in Kinds
    <2>5. said'[r] # <<>>
      BY <1>4, <2>4, EmptySeq
    <2>6. running' # "none" => running' \in Range(order') /\ running' \notin Range(pending') /\ said'[running'] # <<>>
      BY <1>1, <2>5
    <2>7. \A s \in cf.Streams :
          /\ s \in Range(order') => st'[s].pc \notin {"idle", "prepared"}
          /\ said'[s] # <<>> => s \in Range(order') /\ s \notin Range(pending')
          /\ Over(s)' => said'[s] # <<>>
      <3> SUFFICES ASSUME NEW s \in cf.Streams
                   PROVE  /\ s \in Range(order') => st'[s].pc \notin {"idle", "prepared"}
                          /\ said'[s] # <<>> => s \in Range(order') /\ s \notin Range(pending')
                          /\ Over(s)' => said'[s] # <<>>
        OBVIOUS
      <3>1. CASE s = r BY <1>1, <2>1, <2>3, <2>5, <3>1
      <3>2. CASE s # r BY <1>1, <1>5, <2>1, <2>3, <3>2
      <3> QED BY <3>1, <3>2
    <2>8. \A s \in cf.Streams : \A n \in 1..Len(said'[s]) :
                said'[s][n] = "complete" <=> (n = Len(said'[s]) /\ Over(s)')
      <3> SUFFICES ASSUME NEW s \in cf.Streams, NEW n \in 1..Len(said'[s])
                   PROVE  said'[s][n] = "complete" <=> (n = Len(said'[s]) /\ Over(s)')
        OBVIOUS
      <3>1. ASSUME s = r PROVE said'[s][n] = "complete" <=> (n = Len(said'[s]) /\ Over(s)')
        <4>1. \A i \in 1..Len(said[r]) : said[r][i] # "complete" BY <2>3
        <4>2. n \in 1..Len(said[r]) \/ n = Len(said[r]) + 1 BY <1>4, <2>4, <3>1
        <4>3. Over(r)' <=> type = "complete" OBVIOUS
        <4>4. Len(said[r]) \in Nat BY <1>4
        <4>5. ASSUME n \in 1..Len(said[r]) PROVE said'[r][n] # "complete" /\ n # Len(said'[r])
          BY ONLY <2>4, <4>1, <4>4, <4>5
        <4>6. ASSUME n = Len(said[r]) + 1 PROVE said'[r][n] = type /\ n = Len(said'[r])
          BY ONLY <2>4, <4>6
        <4> QED BY ONLY <3>1, <4>2, <4>3, <4>5, <4>6
      <3>2. CASE s # r
        BY <1>5, <3>2, <2>3, s \in cf.Streams, n \in 1..Len(said'[s])
      <3> QED BY <3>1, <3>2
    <2>9. Range(pending') \subseteq Range(order') BY <1>1, <2>2
    <2> QED BY ONLY <2>6, <2>7, <2>8, <2>9, IsInjective(pending') DEF QueueFacts
  <1> QED BY ONLY <1>10, <1>11, <1>12 DEF f

\* A turn starts, goes on or completes.
LEMMA TurnsKept ==
  ASSUME NEW cf, Follow(cf)!Shape, FollowTypes(cf), QueueFacts(cf),
         Follow(cf)!Start \/ Follow(cf)!Delta \/ Follow(cf)!Complete
  PROVE  \E f : Publishes(cf, f) /\ FollowTypes(cf)' /\ QueueFacts(cf)'
  <1>1. pending \in Seq(cf.Streams) /\ running \in cf.Streams \cup {"none"} BY DEF FollowTypes
  <1>2. /\ IsInjective(pending) /\ Range(pending) \subseteq Range(order)
        /\ running # "none" => running \in Range(order) /\ running \notin Range(pending)
    BY DEF QueueFacts
  <1>3. \A s \in cf.Streams : s # "none" BY DEF Follow!Shape, Follow!None
  <1>4. CASE Follow(cf)!Start
    <2>0. PICK r \in cf.Streams : r = Head(pending)
      BY <1>4, <1>1, HeadTailIs DEF Follow!Start
    <2>1. /\ running = "none" /\ pending # <<>> /\ running' = r /\ pending' = Tail(pending)
          /\ Follow(cf)!Says(r, "start") /\ order' = order
      BY <1>4, <2>0 DEF Follow!Start, Follow!None, Follow!Says
    <2>2. pending' \in Seq(cf.Streams) BY ONLY <1>1, <2>1, HeadTailIs
    <2>3. IsInjective(pending') /\ Range(pending') = Range(pending) \ {r} /\ r \in Range(pending)
      BY ONLY <1>1, <1>2, <2>0, <2>1, HeadTaken
    <2>4. r \in Range(order) /\ ~Over(r) BY ONLY <1>2, <2>3 DEF Over
    <2>5. \A s \in cf.Streams : s # r => (Over(s)' <=> Over(s))
      BY ONLY <1>3, <2>1, <2>3 DEF Over
    <2>6. ~Over(r)' BY ONLY <2>1 DEF Over
    <2>7. "start" \in Kinds /\ "start" # "complete" BY DEF Kinds
    <2>8. Publishes(cf, Follow(cf)!Frame("start", r)) /\ FollowTypes(cf)' /\ QueueFacts(cf)'
      BY <2>1, <2>2, <2>3, <2>4, <2>5, <2>6, <2>7, SaysKept
    <2> QED BY ONLY <2>8
  <1>5. CASE Follow(cf)!Delta
    <2>1. /\ running # "none" /\ running' = running /\ pending' = pending
          /\ Follow(cf)!Says(running, "delta") /\ order' = order
      BY <1>5 DEF Follow!Delta, Follow!None, Follow!Says
    <2>2. running \in cf.Streams BY <1>1, <2>1
    <2>3. ~Over(running) /\ ~Over(running)' BY ONLY <2>1 DEF Over
    <2>4. \A s \in cf.Streams : Over(s)' <=> Over(s) BY ONLY <2>1 DEF Over
    <2>5. "delta" \in Kinds /\ "delta" # "complete" BY DEF Kinds
    <2>6. Publishes(cf, Follow(cf)!Frame("delta", running)) /\ FollowTypes(cf)' /\ QueueFacts(cf)'
      BY <1>1, <1>2, <2>1, <2>2, <2>3, <2>4, <2>5, SaysKept
    <2> QED BY ONLY <2>6
  <1>6. CASE Follow(cf)!Complete
    <2>1. /\ running # "none" /\ running' = "none" /\ pending' = pending
          /\ Follow(cf)!Says(running, "complete") /\ order' = order
      BY <1>6 DEF Follow!Complete, Follow!None, Follow!Says
    <2>2. running \in cf.Streams BY <1>1, <2>1
    <2>3. ~Over(running) BY ONLY <2>1 DEF Over
    <2>4. ASSUME NEW s \in cf.Streams
          PROVE  /\ s # running => (Over(s)' <=> Over(s))
                 /\ s = running => (s \in Range(order) /\ s \notin Range(pending) /\ s # running')
      BY ONLY <1>2, <1>3, <2>1, <2>4, s \in cf.Streams DEF Over
    <2>5. ASSUME NEW s \in cf.Streams, s = running PROVE Over(s)'
      BY ONLY <2>1, <2>4, <2>5 DEF Over
    <2>6. "complete" \in Kinds BY DEF Kinds
    <2>7. \A s \in cf.Streams : s = running =>
             Publishes(cf, Follow(cf)!Frame("complete", s)) /\ FollowTypes(cf)' /\ QueueFacts(cf)'
      <3> SUFFICES ASSUME NEW s \in cf.Streams, s = running
                   PROVE  /\ Publishes(cf, Follow(cf)!Frame("complete", s))
                          /\ FollowTypes(cf)' /\ QueueFacts(cf)'
        OBVIOUS
      <3>1. Follow(cf)!Says(s, "complete") BY <2>1
      <3>2. s \in Range(order) /\ ~Over(s) /\ s \notin Range(pending') BY <1>2, <2>1, <2>3
      <3>3. \A v \in cf.Streams : v # s => (Over(v)' <=> Over(v)) BY <2>4
      <3>4. Over(s)' <=> "complete" = "complete" BY <2>5
      <3> QED BY <1>1, <1>2, <2>1, <2>6, <3>1, <3>2, <3>3, <3>4, SaysKept
    <2> QED BY ONLY <2>2, <2>7
  <1> QED BY <1>4, <1>5, <1>6

\* The idle live session is dropped: every turn that was told is over.
LEMMA LiveGoneKept ==
  ASSUME NEW cf, Follow(cf)!Shape, FollowTypes(cf), QueueFacts(cf), FrameFacts(cf),
         Follow(cf)!LiveGone
  PROVE  /\ FollowTypes(cf)' /\ QueueFacts(cf)' /\ FrameFacts(cf)'
         /\ RunFacts(cf) => RunFacts(cf)'
         /\ LogFacts(cf)'
         /\ BoundFacts(cf) => BoundFacts(cf)'
         /\ (\A s \in cf.Streams : StreamOk(s, st[s])) => (\A s \in cf.Streams : StreamOk(s, st[s]))'
  <1>1. /\ running = "none" /\ pending = <<>> /\ live.epoch < cf.Resets
        /\ live' = [up |-> FALSE, epoch |-> live.epoch + 1] /\ log' = <<>>
        /\ UNCHANGED <<pending, running, order, said, st, runs>>
    BY DEF Follow!LiveGone, Follow!None
  <1>2. live.epoch \in Nat /\ live'.epoch = live.epoch + 1 /\ live' \in [up: BOOLEAN, epoch: 0..cf.Resets]
    BY <1>1 DEF FollowTypes, Follow!Shape
  <1>3. DOMAIN log' = {} /\ log' \in Seq(FollowFrame(cf)) BY <1>1, EmptySeq
  <1>4. FollowTypes(cf)'
    BY <1>1, <1>2, <1>3 DEF FollowTypes, FollowFrame, StreamState, RunEntry
  <1>5. QueueFacts(cf)' BY <1>1 DEF QueueFacts, Over
  <1>6. FrameFacts(cf)' BY <1>1, <1>3 DEF FrameFacts, FrameOk
  <1>7. /\ RunFacts(cf) => RunFacts(cf)'
        /\ BoundFacts(cf) => BoundFacts(cf)'
    BY ONLY <1>1 DEF RunFacts, BoundFacts
  <1>8. \A s \in cf.Streams : s \in Range(order) => Over(s)
    BY <1>1 DEF Range, Follow!Shape, Follow!None, Over
  <1>9. \A s : Over(s)' <=> Over(s) BY ONLY <1>1 DEF Over
  <1>10. \A s \in cf.Streams : said[s] \in Seq(Kinds) /\ (s \notin Range(order) => said[s] = <<>>)
    BY DEF FollowTypes, QueueFacts
  <1>11. LogFacts(cf)'
    <2>1. ASSUME NEW s \in cf.Streams PROVE Whole(log, s)' \/ (Silent(log, s) /\ Over(s))'
      <3>1. CASE s \in Range(order)
        BY <1>3, <1>8, <1>9, <3>1 DEF Silent
      <3>2. CASE s \notin Range(order)
        BY <1>1, <1>10, <3>2, <1>3 DEF Rest, Announced, Whole
      <3> QED BY <3>1, <3>2
    <2> QED BY ONLY <2>1 DEF LogFacts
  <1>12. ASSUME NEW s \in cf.Streams, StreamOk(s, st[s]) PROVE StreamOk(s, st[s])'
    <2> DEFINE x == st[s]
    <2>1. x.mark[1] <= live.epoch /\ x.mark[1] \in Nat
      BY <1>12 DEF FollowTypes, StreamState, StreamOk
    <2>2. x.mark[1] # live'.epoch /\ x.mark[1] <= live'.epoch BY ONLY <1>2, <2>1
    <2>3. x.target \in Range(order) \cup {"none"} BY DEF FrameFacts
    <2>4. x.pc = "attached" /\ s \notin Range(order) => Silent(x.queue, s)
      BY <1>10 DEF FrameFacts, Silent, Turn, Names, FrameOk
    <2>5. StreamOk(s, x) BY <1>12
    <2>6. st'[s] = x /\ UNCHANGED <<order, said>> BY <1>1
    <2>7. s \in Range(order) => Over(s) BY <1>8
    <2>8. x.target = s => Over(s)
      BY <2>3, <2>7 DEF Follow!Shape, Follow!None
    <2> HIDE DEF x
    <2>9. x.pc = "attached" => Reads(s, st[s])'
      <3> SUFFICES ASSUME x.pc = "attached" PROVE Reads(s, st[s])' OBVIOUS
      <3>1. Reads(s, x) BY <2>5 DEF StreamOk
      <3>2. CASE x.target = s /\ Rest(x.queue, s, Len(x.shown), Len(said[s]))
        BY ONLY <1>9, <2>6, <2>8, <3>2 DEF Reads
      <3>3. CASE x.target = "none" /\ Whole(x.queue, s) /\ s \in Range(order)
        BY ONLY <1>9, <2>6, <2>7, <3>3 DEF Reads, Whole
      <3>4. CASE x.target = "none" /\ s \notin Range(order)
        BY ONLY <2>2, <2>4, <2>6, <3>4, x.pc = "attached" DEF Reads
      <3>5. CASE x.target = "none" /\ Silent(x.queue, s)
        BY ONLY <2>2, <2>6, <3>5 DEF Reads
      <3> QED BY ONLY <3>1, <3>2, <3>3, <3>4, <3>5 DEF Reads
    <2> QED BY ONLY <1>9, <2>2, <2>5, <2>6, <2>9 DEF StreamOk
  <1> QED BY <1>4, <1>5, <1>6, <1>7, <1>11, <1>12

-----------------------------------------------------------------------------
\* One stream moves, to v; the gateway does not.
Moves(cf, s, v) ==
    /\ s \in cf.Streams /\ v \in StreamState(cf) /\ st' = [st EXCEPT ![s] = v]
    /\ UNCHANGED <<live, log, pending, running, order, said>>

LEMMA MovesKept ==
  ASSUME NEW cf, FollowTypes(cf), QueueFacts(cf), FrameFacts(cf), NEW s, NEW v, Moves(cf, s, v),
         runs' \in Seq(RunEntry(cf)), Len(runs') <= cf.Cap,
         v.pc \notin {"idle", "prepared"} \/ s \notin Range(order),
         \A i \in DOMAIN v.queue : FrameOk(v.queue[i]),
         v.target \in Range(order) \cup {"none"}
  PROVE  /\ FollowTypes(cf)' /\ QueueFacts(cf)' /\ FrameFacts(cf)'
         /\ LogFacts(cf) => LogFacts(cf)'
         /\ StreamOk(s, v) /\ (\A z \in cf.Streams : StreamOk(z, st[z])) =>
               (\A z \in cf.Streams : StreamOk(z, st[z]))'
  <1>1. /\ s \in cf.Streams /\ v \in StreamState(cf) /\ st' = [st EXCEPT ![s] = v]
        /\ UNCHANGED <<live, log, pending, running, order, said>>
    BY DEF Moves
  <1>2. st \in [cf.Streams -> StreamState(cf)] BY DEF FollowTypes
  <1>3. /\ st' \in [cf.Streams -> StreamState(cf)] /\ st'[s] = v
        /\ \A z \in cf.Streams : z # s => st'[z] = st[z]
    BY ONLY <1>1, <1>2
  <1>4. FollowTypes(cf)'
    BY <1>1, <1>3, runs' \in Seq(RunEntry(cf)), Len(runs') <= cf.Cap DEF FollowTypes, FollowFrame,
       StreamState, RunEntry
  <1>5. \A z : Over(z)' <=> Over(z) BY ONLY <1>1 DEF Over
  <1>6. QueueFacts(cf)'
    BY <1>1, <1>3, <1>5 DEF QueueFacts
  <1>7. FrameFacts(cf)'
    <2>1. ASSUME NEW z \in cf.Streams
          PROVE  /\ \A i \in DOMAIN st'[z].queue : FrameOk(st'[z].queue[i])
                 /\ st'[z].target \in Range(order) \cup {"none"}
      BY <1>3 DEF FrameFacts
    <2>2. \A i \in DOMAIN log : FrameOk(log[i]) BY DEF FrameFacts
    <2> QED BY ONLY <1>1, <2>1, <2>2 DEF FrameFacts, FrameOk
  <1>8. LogFacts(cf) => LogFacts(cf)'
    BY ONLY <1>1, <1>5 DEF LogFacts, Whole
  <1>9. ASSUME StreamOk(s, v), \A z \in cf.Streams : StreamOk(z, st[z]), NEW z \in cf.Streams
        PROVE  StreamOk(z, st[z])'
    <2>1. StreamOk(z, st'[z])
      BY <1>3, <1>9
    <2> QED BY ONLY <1>1, <1>5, <2>1 DEF StreamOk, Reads, Whole
  <1> QED BY <1>4, <1>6, <1>7, <1>8, <1>9

\* Entries of s alone are rewritten.
Rewrites(cf, s, rs) ==
    /\ rs \in Seq(RunEntry(cf)) /\ Len(rs) = Len(runs) /\ DOMAIN rs = DOMAIN runs
    /\ \A i \in DOMAIN runs : /\ rs[i].id = runs[i].id
                              /\ runs[i].id # s => rs[i] = runs[i]

LEMMA RewritesAre ==
  ASSUME NEW cf, FollowTypes(cf), NEW s \in cf.Streams, NEW t \in cf.Streams \cup {"none"}, NEW ended
  PROVE  LET bs == Follow(cf)!Bound(runs, s, t)
             es == Follow(cf)!Released(bs, s, ended)
         IN  /\ Rewrites(cf, s, bs) /\ Rewrites(cf, s, es)
             /\ \A i \in DOMAIN runs : runs[i].id = s =>
                   /\ bs[i].adm = IF t # "none" THEN t ELSE runs[i].adm
                   /\ bs[i].released = runs[i].released
                   /\ es[i].adm = bs[i].adm
  <1> DEFINE bs == Follow(cf)!Bound(runs, s, t)
  <1> DEFINE es == Follow(cf)!Released(bs, s, ended)
  <1>1. runs \in Seq(RunEntry(cf)) /\ Len(runs) \in Nat /\ DOMAIN runs = 1..Len(runs)
    BY LenProperties DEF FollowTypes
  <1>2. \A i \in DOMAIN runs : runs[i] \in RunEntry(cf) BY <1>1
  <1>3. bs = [i \in DOMAIN runs |-> IF runs[i].id = s /\ t # "none" THEN [runs[i] EXCEPT !.adm = t]
                                                                 ELSE runs[i]]
    BY DEF Follow!Bound, Follow!None
  <1>4. es = [i \in DOMAIN bs |-> IF bs[i].id = s
                                  THEN [bs[i] EXCEPT !.released = TRUE,
                                                     !.terminal = ended = "run.completed"]
                                  ELSE bs[i]]
    BY DEF Follow!Released
  <1> HIDE DEF bs, es
  <1>5. ASSUME NEW i \in DOMAIN runs
        PROVE  /\ bs[i] \in RunEntry(cf) /\ es[i] \in RunEntry(cf)
               /\ bs[i].id = runs[i].id /\ es[i].id = runs[i].id
               /\ runs[i].id # s => bs[i] = runs[i] /\ es[i] = runs[i]
               /\ runs[i].id = s => /\ bs[i].adm = IF t # "none" THEN t ELSE runs[i].adm
                                    /\ bs[i].released = runs[i].released
                                    /\ es[i].adm = bs[i].adm
    <2>1. runs[i] \in RunEntry(cf) BY <1>2
    <2>2. bs[i] = IF runs[i].id = s /\ t # "none" THEN [runs[i] EXCEPT !.adm = t] ELSE runs[i]
      BY <1>3
    <2>3. /\ bs[i] \in RunEntry(cf) /\ bs[i].id = runs[i].id /\ (runs[i].id # s => bs[i] = runs[i])
          /\ runs[i].id = s => bs[i].adm = IF t # "none" THEN t ELSE runs[i].adm
          /\ bs[i].released = runs[i].released
      BY ONLY <2>1, <2>2, t \in cf.Streams \cup {"none"} DEF RunEntry
    <2>4. es[i] = IF bs[i].id = s
                  THEN [bs[i] EXCEPT !.released = TRUE, !.terminal = ended = "run.completed"]
                  ELSE bs[i]
      BY <1>3, <1>4
    <2>5. PICK b \in BOOLEAN : b = (ended = "run.completed") OBVIOUS
    <2>6. /\ es[i] \in RunEntry(cf) /\ es[i].id = bs[i].id /\ (bs[i].id # s => es[i] = bs[i])
          /\ es[i].adm = bs[i].adm
      <3>1. es[i] = IF bs[i].id = s THEN [bs[i] EXCEPT !.released = TRUE, !.terminal = b] ELSE bs[i]
        BY ONLY <2>4, <2>5
      <3>2. b \in BOOLEAN BY <2>5
      <3>3. CASE bs[i].id = s
        <4>1. es[i] = [bs[i] EXCEPT !.released = TRUE, !.terminal = b] BY ONLY <3>1, <3>3
        <4> QED BY ONLY <2>3, <3>2, <3>3, <4>1 DEF RunEntry
      <3>4. CASE bs[i].id # s
        BY <3>1, <3>4, <2>3
      <3> QED BY ONLY <3>3, <3>4
    <2> QED BY ONLY <2>3, <2>6
  <1>6. DOMAIN bs = DOMAIN runs /\ DOMAIN es = DOMAIN runs BY <1>3, <1>4
  <1>7. bs = [i \in 1..Len(runs) |-> bs[i]] /\ es = [i \in 1..Len(runs) |-> es[i]]
    BY ONLY <1>1, <1>3, <1>4, <1>6
  <1>8. bs \in Seq(RunEntry(cf)) /\ es \in Seq(RunEntry(cf))
    BY <1>1, <1>5, <1>7, SeqDef
  <1>9. Len(bs) = Len(runs) /\ Len(es) = Len(runs)
    BY ONLY <1>1, <1>6, <1>8, LenProperties
  <1> QED BY ONLY <1>5, <1>6, <1>8, <1>9 DEF Rewrites, bs, es

LEMMA RunsKept ==
  ASSUME NEW cf, FollowTypes(cf), RunFacts(cf), NEW s, NEW v, Moves(cf, s, v),
         Rewrites(cf, s, runs'),
         \A i \in DOMAIN runs : runs[i].id = s =>
            /\ v.pc \in {"issued", "attached", "closed"}
            /\ v.pc = "closed" \/ runs'[i].released = runs[i].released
            /\ v.pc = "closed" \/ st[s].pc # "closed"
  PROVE  /\ RunFacts(cf)'
         /\ /\ BoundFacts(cf)
            /\ \A i \in DOMAIN runs : runs[i].id = s =>
                  /\ runs'[i].adm = runs[i].adm \/ runs'[i].adm \in {"none", s}
                  /\ v.ended = "run.completed" => runs'[i].adm = s
            => BoundFacts(cf)'
  <1>1. st' = [st EXCEPT ![s] = v] /\ s \in cf.Streams BY DEF Moves
  <1>2. st \in [cf.Streams -> StreamState(cf)] /\ runs \in Seq(RunEntry(cf)) BY DEF FollowTypes
  <1>3. st'[s] = v /\ \A z \in cf.Streams : z # s => st'[z] = st[z] BY ONLY <1>1, <1>2
  <1>4. \A i \in DOMAIN runs : runs[i].id \in cf.Streams
    <2>1. \A i \in DOMAIN runs : runs[i] \in RunEntry(cf) BY ONLY <1>2
    <2> QED BY ONLY <2>1 DEF RunEntry
  <1>5. /\ DOMAIN runs' = DOMAIN runs
        /\ \A i \in DOMAIN runs : /\ runs'[i].id = runs[i].id
                                  /\ runs[i].id # s => runs'[i] = runs[i]
    BY DEF Rewrites
  <1>6. ASSUME NEW i \in DOMAIN runs
        PROVE  /\ st'[runs[i].id].pc \in {"issued", "attached", "closed"}
               /\ runs'[i].released => st'[runs[i].id].pc = "closed"
    BY <1>3, <1>4, <1>5 DEF RunFacts
  <1>7. \A i, j \in DOMAIN runs : runs[i].id = runs[j].id => i = j BY DEF RunFacts
  <1>8. RunFacts(cf)' BY ONLY <1>5, <1>6, <1>7 DEF RunFacts
  <1>9. ASSUME BoundFacts(cf),
               \A i \in DOMAIN runs : runs[i].id = s =>
                  /\ runs'[i].adm = runs[i].adm \/ runs'[i].adm \in {"none", s}
                  /\ v.ended = "run.completed" => runs'[i].adm = s
        PROVE  BoundFacts(cf)'
    <2>1. ASSUME NEW i \in DOMAIN runs
          PROVE  /\ runs'[i].adm \in {"none", runs[i].id}
                 /\ st'[runs[i].id].ended = "run.completed" => runs'[i].adm = runs[i].id
      BY <1>3, <1>9, <1>4, <1>5 DEF BoundFacts
    <2> QED BY ONLY <1>5, <2>1 DEF BoundFacts
  <1> QED BY <1>8, <1>9

\* Taking an id out of the registry keeps the others; what goes first was
\* released, unless nothing was.
LEMMA WithoutIs ==
  ASSUME NEW cf, FollowTypes(cf), RunFacts(cf), NEW id
  PROVE  LET rs == Follow(cf)!Without(id) IN
         /\ rs \in Seq(RunEntry(cf)) /\ Len(rs) <= Len(runs)
         /\ \A k \in DOMAIN rs : \E i \in DOMAIN runs : rs[k] = runs[i] /\ runs[i].id # id
         /\ \A k, m \in DOMAIN rs : rs[k].id = rs[m].id => k = m
         /\ \A i \in DOMAIN runs : runs[i].id # id => \E k \in DOMAIN rs : rs[k] = runs[i]
         /\ (\E i \in DOMAIN runs : runs[i].id = id) => Len(rs) = Len(runs) - 1
  <1>1. runs \in Seq(RunEntry(cf)) /\ Len(runs) \in Nat /\ DOMAIN runs = 1..Len(runs)
    BY LenProperties DEF FollowTypes
  <1>2. \A i, j \in DOMAIN runs : runs[i].id = runs[j].id => i = j BY DEF RunFacts
  <1>3. CASE ~\E i \in DOMAIN runs : runs[i].id = id
    <2>1. Follow(cf)!Without(id) = runs BY <1>3 DEF Follow!Without, Follow!Ids
    <2>2. \A i \in DOMAIN runs : runs[i] = runs[i] /\ runs[i].id # id BY <1>3
    <2>3. Len(runs) <= Len(runs) BY <1>1
    <2> QED BY ONLY <1>1, <1>2, <2>1, <2>2, <2>3
  <1>4. CASE \E i \in DOMAIN runs : runs[i].id = id
    <2> DEFINE n == CHOOSE i \in DOMAIN runs : runs[i].id = id
    <2>1. n \in DOMAIN runs /\ runs[n].id = id BY <1>4
    <2>2. Follow(cf)!Without(id) = RemovedAt(runs, n)
      BY <1>4, FollowLists DEF Follow!Without, Follow!Ids
    <2> HIDE DEF n
    <2> DEFINE rs == RemovedAt(runs, n)
    <2>3. /\ rs = [j \in 1..(Len(runs) - 1) |-> IF j < n THEN runs[j] ELSE runs[j + 1]]
      BY DEF RemovedAt
    <2> HIDE DEF rs
    <2>4. n \in 1..Len(runs) BY <1>1, <2>1
    <2>5. Len(runs) - 1 \in Nat BY ONLY <1>1, <2>4
    <2>6. \A j \in 1..(Len(runs) - 1) : j \in DOMAIN runs /\ j + 1 \in DOMAIN runs BY <1>1
    <2>7. rs \in [1..(Len(runs) - 1) -> RunEntry(cf)] BY <1>1, <2>3, <2>6
    <2>8. rs \in Seq(RunEntry(cf)) BY ONLY <2>5, <2>7, SeqDef
    <2>9. DOMAIN rs = 1..(Len(runs) - 1) BY ONLY <2>3
    <2>10. Len(rs) = Len(runs) - 1 BY ONLY <2>5, <2>8, <2>9, LenProperties
    <2>11. \A k \in DOMAIN rs : \/ k < n /\ k \in DOMAIN runs /\ rs[k] = runs[k]
                                \/ ~(k < n) /\ k + 1 \in DOMAIN runs /\ rs[k] = runs[k + 1]
      BY ONLY <2>3, <2>6, <2>9
    <2>12. \A k \in DOMAIN rs : \E i \in DOMAIN runs : rs[k] = runs[i] /\ runs[i].id # id
      <3> SUFFICES ASSUME NEW k \in DOMAIN rs
                   PROVE  \E i \in DOMAIN runs : rs[k] = runs[i] /\ runs[i].id # id
        OBVIOUS
      <3>1. k \in Nat /\ n \in Nat BY <2>4, <2>9
      <3>2. k < n => k # n BY <3>1
      <3>3. ~(k < n) => k + 1 # n BY <3>1
      <3> QED BY ONLY <1>2, <2>1, <2>11, <3>2, <3>3, k \in DOMAIN rs
    <2>13. \A k, m \in DOMAIN rs : rs[k].id = rs[m].id => k = m
      <3> SUFFICES ASSUME NEW k \in DOMAIN rs, NEW m \in DOMAIN rs, rs[k].id = rs[m].id PROVE k = m
        OBVIOUS
      <3>1. k \in Nat /\ m \in Nat /\ n \in Nat BY <2>4, <2>9
      <3>2. CASE k < n /\ m < n BY ONLY <1>2, <2>11, <3>2, k \in DOMAIN rs, m \in DOMAIN rs, rs[k].id = rs[m].id
      <3>3. CASE ~(k < n) /\ ~(m < n)
        BY <1>2, <2>11, <3>3, k \in DOMAIN rs, m \in DOMAIN rs, rs[k].id = rs[m].id, <3>1
      <3>4. CASE k < n /\ ~(m < n)
        BY <1>2, <2>11, <3>4, k \in DOMAIN rs, m \in DOMAIN rs, rs[k].id = rs[m].id, <3>1
      <3>5. CASE ~(k < n) /\ m < n
        BY <1>2, <2>11, <3>5, k \in DOMAIN rs, m \in DOMAIN rs, rs[k].id = rs[m].id, <3>1
      <3> QED BY <3>2, <3>3, <3>4, <3>5
    <2>14. \A i \in DOMAIN runs : runs[i].id # id => \E k \in DOMAIN rs : rs[k] = runs[i]
      <3> SUFFICES ASSUME NEW i \in DOMAIN runs, runs[i].id # id
                   PROVE  \E k \in DOMAIN rs : rs[k] = runs[i]
        OBVIOUS
      <3>1. i \in 1..Len(runs) /\ i # n BY <1>1, <2>1
      <3>2. CASE i < n
        BY <1>1, <2>4, <2>9, <3>1, <3>2, <2>11
      <3>3. CASE n < i
        <4>1. i - 1 \in DOMAIN rs /\ ~(i - 1 < n) /\ (i - 1) + 1 = i
          BY ONLY <1>1, <2>4, <2>9, <3>1, <3>3
        <4>2. rs[i - 1] = runs[i] BY ONLY <2>11, <4>1
        <4> QED BY <4>1, <4>2
      <3> QED BY ONLY <1>1, <2>4, <3>1, <3>2, <3>3
    <2>15. Len(rs) <= Len(runs) BY ONLY <1>1, <2>10
    <2> QED BY ONLY <2>2, <2>8, <2>10, <2>12, <2>13, <2>14, <2>15 DEF rs
  <1> QED BY <1>3, <1>4

LEMMA VictimIs ==
  ASSUME NEW cf, FollowTypes(cf), RunFacts(cf), runs # <<>>
  PROVE  \E i \in DOMAIN runs : /\ Follow(cf)!Victim = runs[i].id
                                /\ runs[i].released \/ \A j \in DOMAIN runs : ~runs[j].released
  <1>1. runs \in Seq(RunEntry(cf)) /\ Len(runs) \in Nat /\ DOMAIN runs = 1..Len(runs)
    BY LenProperties DEF FollowTypes
  <1> DEFINE gone == {i \in DOMAIN runs : runs[i].released}
  <1>2. Follow(cf)!Victim = IF gone # {} THEN runs[CHOOSE i \in gone : \A j \in gone : i <= j].id
                            ELSE runs[1].id
    BY DEF Follow!Victim
  <1>3. CASE gone = {}
    BY <1>1, EmptySeq, <1>2, <1>3
  <1>4. CASE gone # {}
    <2>1. gone \in SUBSET (1..Len(runs)) BY <1>1
    <2>2. \E k \in gone : \A j \in gone : k <= j
      <3> HIDE DEF gone
      <3> QED BY ONLY <1>1, <1>4, <2>1, LeastIs
    <2>3. (CHOOSE i \in gone : \A j \in gone : i <= j) \in gone
      <3> HIDE DEF gone
      <3> QED BY ONLY <2>2
    <2> QED BY <1>2, <1>4, <2>3
  <1> QED BY <1>3, <1>4

LEMMA IssuedIs ==
  ASSUME NEW cf, Follow(cf)!Shape, FollowTypes(cf), RunFacts(cf), NEW s \in cf.Streams,
         runs' = Follow(cf)!Issued(s)
  PROVE  /\ runs' \in Seq(RunEntry(cf)) /\ Len(runs') <= cf.Cap
         /\ \A k \in DOMAIN runs' : \/ \E i \in DOMAIN runs : runs'[k] = runs[i]
                                    \/ runs'[k] = [id |-> s, adm |-> "none", released |-> FALSE,
                                                   terminal |-> FALSE]
         /\ (\A i \in DOMAIN runs : runs[i].id # s) =>
               \A k, m \in DOMAIN runs' : runs'[k].id = runs'[m].id => k = m
         /\ \/ \A i \in DOMAIN runs : runs[i].released \/ \E k \in DOMAIN runs' : runs'[k].id = runs[i].id
            \/ Len(runs) = cf.Cap /\ \A i \in DOMAIN runs : ~runs[i].released
  <1> DEFINE e == [id |-> s, adm |-> "none", released |-> FALSE, terminal |-> FALSE]
  <1> DEFINE full == Len(runs) >= cf.Cap
  <1> DEFINE bs == IF full THEN Follow(cf)!Without(Follow(cf)!Victim) ELSE runs
  <1>1. runs \in Seq(RunEntry(cf)) /\ Len(runs) \in Nat /\ DOMAIN runs = 1..Len(runs)
    BY LenProperties DEF FollowTypes
  <1>2. cf.Cap \in Nat /\ cf.Cap > 0 /\ Len(runs) <= cf.Cap BY DEF Follow!Shape, FollowTypes
  <1>3. runs' = Append(bs, e) BY DEF Follow!Issued, Follow!None
  <1>4. e \in RunEntry(cf) BY DEF RunEntry
  <1>5. \A i, j \in DOMAIN runs : runs[i].id = runs[j].id => i = j BY DEF RunFacts
  <1>6. /\ bs \in Seq(RunEntry(cf)) /\ Len(bs) + 1 <= cf.Cap
        /\ \A k \in DOMAIN bs : \E i \in DOMAIN runs : bs[k] = runs[i]
        /\ \A k, m \in DOMAIN bs : bs[k].id = bs[m].id => k = m
        /\ \/ \A i \in DOMAIN runs : runs[i].released \/ \E k \in DOMAIN bs : bs[k].id = runs[i].id
           \/ Len(runs) = cf.Cap /\ \A i \in DOMAIN runs : ~runs[i].released
    <2>1. CASE ~full
      <3>1. bs = runs BY <2>1
      <3>2. Len(runs) + 1 <= cf.Cap BY ONLY <1>1, <1>2, <2>1
      <3> HIDE DEF bs
      <3> QED BY ONLY <1>1, <1>5, <3>1, <3>2
    <2>2. CASE full
      <3>1. Len(runs) = cf.Cap /\ Len(runs) # 0 BY ONLY <1>1, <1>2, <2>2
      <3>2. runs # <<>> BY <3>1, EmptySeq
      <3>3. PICK n \in DOMAIN runs : /\ Follow(cf)!Victim = runs[n].id
                                     /\ runs[n].released \/ \A j \in DOMAIN runs : ~runs[j].released
        BY <3>2, VictimIs
      <3>4. bs = Follow(cf)!Without(Follow(cf)!Victim) BY <2>2
      <3> HIDE DEF bs
      <3>5. /\ bs \in Seq(RunEntry(cf)) /\ Len(bs) <= Len(runs)
            /\ \A k \in DOMAIN bs : \E i \in DOMAIN runs : bs[k] = runs[i] /\ runs[i].id # Follow(cf)!Victim
            /\ \A k, m \in DOMAIN bs : bs[k].id = bs[m].id => k = m
            /\ \A i \in DOMAIN runs : runs[i].id # Follow(cf)!Victim => \E k \in DOMAIN bs : bs[k] = runs[i]
            /\ (\E i \in DOMAIN runs : runs[i].id = Follow(cf)!Victim) => Len(bs) = Len(runs) - 1
        BY ONLY <3>4, WithoutIs, FollowTypes(cf), RunFacts(cf)
      <3>6. Len(bs) = Len(runs) - 1 BY ONLY <3>3, <3>5
      <3>7. Len(bs) + 1 <= cf.Cap BY ONLY <1>1, <3>1, <3>6
      <3>8. ASSUME runs[n].released, NEW i \in DOMAIN runs
            PROVE  runs[i].released \/ \E k \in DOMAIN bs : bs[k].id = runs[i].id
        <4>1. CASE i = n BY <3>8, <4>1
        <4>2. CASE i # n
          BY <1>5, <3>3, <4>2, i \in DOMAIN runs, <3>5
        <4> QED BY <4>1, <4>2
      <3> QED BY ONLY <3>1, <3>3, <3>5, <3>7, <3>8
    <2> QED BY <2>1, <2>2
  <1> HIDE DEF bs, e, full
  <1>7. /\ runs' \in Seq(RunEntry(cf)) /\ Len(runs') = Len(bs) + 1 /\ Len(bs) \in Nat
        /\ DOMAIN bs = 1..Len(bs) /\ DOMAIN runs' = 1..(Len(bs) + 1)
        /\ \A i \in 1..Len(bs) : runs'[i] = bs[i]
        /\ runs'[Len(bs) + 1] = e
    BY ONLY <1>3, <1>4, <1>6, AppendIs
  <1>8. \A k \in DOMAIN runs' : (k \in DOMAIN bs /\ runs'[k] = bs[k]) \/ (k = Len(bs) + 1 /\ runs'[k] = e)
    BY ONLY <1>7
  <1>9. \A k \in DOMAIN bs : k \in DOMAIN runs' /\ runs'[k] = bs[k] BY ONLY <1>7
  <1>10. Len(runs') <= cf.Cap BY ONLY <1>6, <1>7
  <1>11. \A k \in DOMAIN runs' : (\E i \in DOMAIN runs : runs'[k] = runs[i]) \/ runs'[k] = e
    BY ONLY <1>6, <1>8
  <1>12. ASSUME \A i \in DOMAIN runs : runs[i].id # s,
                NEW k \in DOMAIN runs', NEW m \in DOMAIN runs', runs'[k].id = runs'[m].id
         PROVE  k = m
    BY <1>6, <1>12, <1>8, k \in DOMAIN runs', m \in DOMAIN runs' DEF e
  <1>13. \/ \A i \in DOMAIN runs : runs[i].released \/ \E k \in DOMAIN runs' : runs'[k].id = runs[i].id
         \/ Len(runs) = cf.Cap /\ \A i \in DOMAIN runs : ~runs[i].released
    BY ONLY <1>6, <1>9
  <1> QED BY ONLY <1>7, <1>10, <1>11, <1>12, <1>13 DEF e

LEMMA IssueRunsKept ==
  ASSUME NEW cf, Follow(cf)!Shape, FollowTypes(cf), RunFacts(cf), NEW s, NEW v, Moves(cf, s, v),
         st[s].pc = "sent", v.pc = "issued", st[s].ended = v.ended, runs' = Follow(cf)!Issued(s)
  PROVE  /\ RunFacts(cf)'
         /\ BoundFacts(cf) /\ st[s].ended = "none" => BoundFacts(cf)'
  <1>1. st' = [st EXCEPT ![s] = v] /\ s \in cf.Streams BY DEF Moves
  <1>2. st \in [cf.Streams -> StreamState(cf)] /\ runs \in Seq(RunEntry(cf)) BY DEF FollowTypes
  <1>3. st'[s] = v /\ \A z \in cf.Streams : z # s => st'[z] = st[z] BY ONLY <1>1, <1>2
  <1>4. \A i \in DOMAIN runs : runs[i].id \in cf.Streams
    <2>1. \A i \in DOMAIN runs : runs[i] \in RunEntry(cf) BY ONLY <1>2
    <2> QED BY ONLY <2>1 DEF RunEntry
  <1> DEFINE e == [id |-> s, adm |-> "none", released |-> FALSE, terminal |-> FALSE]
  <1>5. /\ \A k \in DOMAIN runs' : (\E i \in DOMAIN runs : runs'[k] = runs[i]) \/ runs'[k] = e
        /\ (\A i \in DOMAIN runs : runs[i].id # s) =>
              \A k, m \in DOMAIN runs' : runs'[k].id = runs'[m].id => k = m
    BY <1>1, IssuedIs
  <1>6. e.id = s /\ e.adm = "none" /\ e.released = FALSE OBVIOUS
  <1> HIDE DEF e
  <1>7. \A i \in DOMAIN runs : /\ runs[i].id # s
                               /\ st[runs[i].id].pc \in {"issued", "attached", "closed"}
                               /\ runs[i].released => st[runs[i].id].pc = "closed"
    BY DEF RunFacts
  <1>8. RunFacts(cf)'
    <2>1. \A k, m \in DOMAIN runs' : runs'[k].id = runs'[m].id => k = m BY ONLY <1>5, <1>7
    <2>2. ASSUME NEW k \in DOMAIN runs'
          PROVE  /\ st'[runs'[k].id].pc \in {"issued", "attached", "closed"}
                 /\ runs'[k].released => st'[runs'[k].id].pc = "closed"
      BY ONLY <1>3, <1>4, <1>5, <1>6, <1>7, <2>2, v.pc = "issued"
    <2> QED BY ONLY <2>1, <2>2 DEF RunFacts
  <1>9. ASSUME BoundFacts(cf), st[s].ended = "none" PROVE BoundFacts(cf)'
    <2>1. \A i \in DOMAIN runs :
            /\ runs[i].adm \in {"none", runs[i].id}
            /\ st[runs[i].id].ended = "run.completed" => runs[i].adm = runs[i].id
      BY <1>9 DEF BoundFacts
    <2>2. v.ended = "none" BY <1>9
    <2>3. ASSUME NEW k \in DOMAIN runs'
          PROVE  /\ runs'[k].adm \in {"none", runs'[k].id}
                 /\ st'[runs'[k].id].ended = "run.completed" => runs'[k].adm = runs'[k].id
      BY ONLY <1>3, <1>4, <1>5, <1>6, <1>7, <2>1, <2>2, <2>3
    <2> QED BY ONLY <2>3 DEF BoundFacts
  <1> QED BY <1>8, <1>9

\* A released id is forgotten.
LEMMA ExpireKept ==
  ASSUME NEW cf, Follow(cf)!Shape, FollowTypes(cf), QueueFacts(cf), FrameFacts(cf),
         RunFacts(cf), NEW id, Follow(cf)!Expire(id)
  PROVE  /\ FollowTypes(cf)' /\ QueueFacts(cf)' /\ FrameFacts(cf)' /\ RunFacts(cf)'
         /\ LogFacts(cf) => LogFacts(cf)'
         /\ BoundFacts(cf) => BoundFacts(cf)'
         /\ (\A s \in cf.Streams : StreamOk(s, st[s])) => (\A s \in cf.Streams : StreamOk(s, st[s]))'
  <1>1. /\ runs' = Follow(cf)!Without(id)
        /\ UNCHANGED <<live, log, pending, running, order, said, st>>
    BY DEF Follow!Expire
  <1>2. /\ runs' \in Seq(RunEntry(cf)) /\ Len(runs') <= Len(runs)
        /\ \A k \in DOMAIN runs' : \E i \in DOMAIN runs : runs'[k] = runs[i] /\ runs[i].id # id
        /\ \A k, m \in DOMAIN runs' : runs'[k].id = runs'[m].id => k = m
    BY ONLY <1>1, WithoutIs, FollowTypes(cf), RunFacts(cf)
  <1>3. FollowTypes(cf)'
    <2>1. /\ live \in [up: BOOLEAN, epoch: 0..cf.Resets] /\ log \in Seq(FollowFrame(cf))
          /\ pending \in Seq(cf.Streams) /\ order \in Seq(cf.Streams)
          /\ running \in cf.Streams \cup {"none"} /\ said \in [cf.Streams -> Seq(Kinds)]
          /\ st \in [cf.Streams -> StreamState(cf)]
      BY DEF FollowTypes
    <2>2. Len(runs') <= cf.Cap
      BY <1>2, LenProperties DEF FollowTypes, Follow!Shape
    <2> QED BY ONLY <1>1, <1>2, <2>1, <2>2 DEF FollowTypes, FollowFrame, StreamState, RunEntry
  <1>4. QueueFacts(cf)' BY ONLY <1>1, QueueFacts(cf) DEF QueueFacts, Over
  <1>5. FrameFacts(cf)' BY ONLY <1>1, FrameFacts(cf) DEF FrameFacts, FrameOk
  <1>6. RunFacts(cf)' BY ONLY <1>1, <1>2, RunFacts(cf) DEF RunFacts
  <1>7. LogFacts(cf) => LogFacts(cf)' BY ONLY <1>1 DEF LogFacts, Whole, Over
  <1>8. BoundFacts(cf) => BoundFacts(cf)' BY ONLY <1>1, <1>2 DEF BoundFacts
  <1>9. (\A s \in cf.Streams : StreamOk(s, st[s])) => (\A s \in cf.Streams : StreamOk(s, st[s]))'
    BY ONLY <1>1 DEF StreamOk, Reads, Whole, Over
  <1> QED BY ONLY <1>3, <1>4, <1>5, <1>6, <1>7, <1>8, <1>9

-----------------------------------------------------------------------------
\* What is to show when a stream moves.
LEMMA FollowMoved ==
  ASSUME NEW cf, FollowInv(cf), NEW s, NEW v, Moves(cf, s, v),
         runs' \in Seq(RunEntry(cf)), Len(runs') <= cf.Cap, RunFacts(cf)',
         v.pc \notin {"idle", "prepared"} \/ s \notin Range(order),
         \A i \in DOMAIN v.queue : FrameOk(v.queue[i]),
         v.target \in Range(order) \cup {"none"},
         ~cf.SameText => BoundFacts(cf)' /\ StreamOk(s, v)
  PROVE  FollowInv(cf)'
  BY MovesKept, RunFacts(cf)', ~cf.SameText => BoundFacts(cf)' /\ StreamOk(s, v) DEF FollowInv

LEMMA RewritesNothing ==
  ASSUME NEW cf, FollowTypes(cf), NEW s, UNCHANGED runs
  PROVE  Rewrites(cf, s, runs') /\ runs' \in Seq(RunEntry(cf)) /\ Len(runs') <= cf.Cap
  BY DEF Rewrites, FollowTypes

\* A frame does not tell of what was not admitted.
LEMMA Untold ==
  ASSUME NEW cf, FollowTypes(cf), QueueFacts(cf), NEW s \in cf.Streams, s \notin Range(order)
  PROVE  \A g : FrameOk(g) => ~Turn(g, s) /\ ~Names(g, s)
  BY s \notin Range(order) DEF QueueFacts, FrameOk, Turn, Names

LEMMA PrepareKept ==
  ASSUME NEW cf, Follow(cf)!Shape, FollowInv(cf), NEW s \in cf.Streams,
         Follow(cf)!Prepare(s) \/ Follow(cf)!Deliver(s)
  PROVE  FollowInv(cf)'
  <1>1. /\ FollowTypes(cf) /\ QueueFacts(cf) /\ FrameFacts(cf) /\ RunFacts(cf)
        /\ ~cf.SameText => BoundFacts(cf) /\ StreamOk(s, st[s])
    BY DEF FollowInv
  <1>2. PICK v : v = st'[s] OBVIOUS
  <1>3. st \in [cf.Streams -> StreamState(cf)] /\ st[s] \in StreamState(cf) BY <1>1 DEF FollowTypes
  <1>4. Len(log) \in Nat /\ DOMAIN log = 1..Len(log) /\ live.epoch \in Nat
    BY <1>1, LenProperties DEF FollowTypes
  <1>5. /\ UNCHANGED <<live, log, pending, running, order, said, runs>>
        /\ st' = [st EXCEPT ![s] = v]
        /\ \/ /\ st[s].pc = "idle" /\ v.pc = "prepared" /\ v.mark = <<live.epoch, IF live.up THEN Len(log) ELSE 0>>
           \/ st[s].pc = "prepared" /\ v.pc = "sent" /\ v.mark = st[s].mark
        /\ v.queue = st[s].queue /\ v.target = st[s].target /\ v.started = st[s].started
        /\ v.shown = st[s].shown /\ v.ended = st[s].ended
        /\ v \in StreamState(cf)
    <2>1. CASE Follow(cf)!Prepare(s)
      BY <1>3, <2>1, s \in cf.Streams, <1>2, <1>4 DEF Follow!Prepare, StreamState
    <2>2. CASE Follow(cf)!Deliver(s)
      BY <1>3, <2>2, s \in cf.Streams, <1>2 DEF Follow!Deliver, StreamState
    <2> QED BY <2>1, <2>2
  <1>6. s \notin Range(order) BY <1>1, <1>5 DEF QueueFacts
  <1>7. \A i \in DOMAIN log : ~Turn(log[i], s) /\ ~Names(log[i], s)
    BY <1>1, <1>6, Untold DEF FrameFacts
  <1>8. Moves(cf, s, v) BY ONLY <1>5, s \in cf.Streams DEF Moves
  <1>9. Rewrites(cf, s, runs') /\ runs' \in Seq(RunEntry(cf)) /\ Len(runs') <= cf.Cap
    BY <1>1, <1>5, RewritesNothing
  <1>10. \A i \in DOMAIN runs : runs[i].id # s
    BY <1>1, <1>5 DEF RunFacts
  <1>11. RunFacts(cf)' /\ (BoundFacts(cf) => BoundFacts(cf)')
    BY <1>1, <1>8, <1>9, <1>10, RunsKept
  <1>12. (\A i \in DOMAIN v.queue : FrameOk(v.queue[i])) /\ v.target \in Range(order) \cup {"none"}
    BY <1>1, <1>5 DEF FrameFacts
  <1>13. ASSUME StreamOk(s, st[s]) PROVE StreamOk(s, v)
    <2>1. CASE st[s].pc = "idle"
      <3>1. v.mark[1] = live.epoch /\ v.mark[2] \in Nat /\ v.mark[2] <= Len(log) BY ONLY <1>4, <1>5, <2>1
      <3>2. \A i \in 1..v.mark[2] : ~Turn(log[i], s) /\ ~Names(log[i], s)
        BY <1>4, <3>1, <1>7
      <3>3. v.mark[1] <= live.epoch BY ONLY <1>4, <3>1
      <3> QED BY ONLY <1>5, <1>13, <2>1, <3>1, <3>2, <3>3 DEF StreamOk
    <2>2. CASE st[s].pc = "prepared"
      BY ONLY <1>5, <1>13, <2>2 DEF StreamOk
    <2> QED BY <1>5, <2>1, <2>2
  <1> QED BY <1>1, <1>6, <1>8, <1>9, <1>11, <1>12, <1>13, FollowMoved

LEMMA IssueKept ==
  ASSUME NEW cf, Follow(cf)!Shape, FollowInv(cf), NEW s \in cf.Streams, Follow(cf)!Issue(s)
  PROVE  FollowInv(cf)'
  <1>1. /\ FollowTypes(cf) /\ QueueFacts(cf) /\ FrameFacts(cf) /\ RunFacts(cf)
        /\ ~cf.SameText => BoundFacts(cf) /\ StreamOk(s, st[s])
    BY DEF FollowInv
  <1>2. st \in [cf.Streams -> StreamState(cf)] /\ st[s] \in StreamState(cf) BY <1>1 DEF FollowTypes
  <1>3. PICK v : v = [st[s] EXCEPT !.pc = "issued"] OBVIOUS
  <1>4. /\ UNCHANGED <<live, log, pending, running, order, said>> /\ runs' = Follow(cf)!Issued(s)
        /\ st' = [st EXCEPT ![s] = v] /\ st[s].pc = "sent"
    BY ONLY <1>2, <1>3, Follow(cf)!Issue(s), s \in cf.Streams DEF Follow!Issue
  <1>5. /\ v \in StreamState(cf) /\ v.pc = "issued" /\ v.mark = st[s].mark
        /\ v.queue = st[s].queue /\ v.target = st[s].target /\ v.started = st[s].started
        /\ v.shown = st[s].shown /\ v.ended = st[s].ended
    BY ONLY <1>2, <1>3 DEF StreamState
  <1>6. Moves(cf, s, v) BY ONLY <1>4, <1>5, s \in cf.Streams DEF Moves
  <1>7. runs' \in Seq(RunEntry(cf)) /\ Len(runs') <= cf.Cap
    BY <1>1, <1>4, IssuedIs
  <1>8. RunFacts(cf)' /\ (BoundFacts(cf) /\ st[s].ended = "none" => BoundFacts(cf)')
    BY <1>1, <1>4, <1>5, <1>6, IssueRunsKept
  <1>9. (\A i \in DOMAIN v.queue : FrameOk(v.queue[i])) /\ v.target \in Range(order) \cup {"none"}
    BY <1>1, <1>5 DEF FrameFacts
  <1>10. StreamOk(s, st[s]) => StreamOk(s, v) /\ st[s].ended = "none"
    BY ONLY <1>4, <1>5 DEF StreamOk
  <1> QED BY <1>1, <1>5, <1>6, <1>7, <1>8, <1>9, <1>10, FollowMoved

\* The ring is read from the watermark on.
LEMMA AttachKept ==
  ASSUME NEW cf, Follow(cf)!Shape, FollowInv(cf), NEW s \in cf.Streams, Follow(cf)!Attach(s)
  PROVE  FollowInv(cf)'
  <1>1. /\ FollowTypes(cf) /\ QueueFacts(cf) /\ FrameFacts(cf) /\ RunFacts(cf)
        /\ ~cf.SameText => BoundFacts(cf) /\ StreamOk(s, st[s]) /\ LogFacts(cf)
    BY DEF FollowInv
  <1>2. st \in [cf.Streams -> StreamState(cf)] /\ st[s] \in StreamState(cf) BY <1>1 DEF FollowTypes
  <1>3. /\ log \in Seq(FollowFrame(cf)) /\ Len(log) \in Nat /\ DOMAIN log = 1..Len(log)
        /\ live.epoch \in Nat
    BY <1>1, LenProperties DEF FollowTypes
  <1>4. PICK q : q = Follow(cf)!Replay(s) OBVIOUS
  <1>5. PICK v : v = [[[st[s] EXCEPT !.pc = "attached"] EXCEPT !.queue = q]
                        EXCEPT !.mark = <<live.epoch, 0>>]
    OBVIOUS
  <1>6. /\ UNCHANGED <<live, log, pending, running, order, said, runs>> /\ st[s].pc = "issued"
        /\ st' = [st EXCEPT ![s] = v]
    BY ONLY <1>2, <1>4, <1>5, Follow(cf)!Attach(s), s \in cf.Streams DEF Follow!Attach
  <1>7. q = IF st[s].mark[1] = live.epoch THEN SubSeq(log, st[s].mark[2] + 1, Len(log)) ELSE log
    BY <1>4 DEF Follow!Replay
  <1>8. st[s].mark \in Nat \X Nat BY ONLY <1>2 DEF StreamState
  <1>9. /\ q \in Seq(FollowFrame(cf)) /\ \A i \in DOMAIN q : FrameOk(q[i])
    <2>1. \A i \in DOMAIN log : FrameOk(log[i]) BY <1>1 DEF FrameFacts
    <2>2. CASE q = log BY <1>3, <2>1, <2>2
    <2>3. CASE q = SubSeq(log, st[s].mark[2] + 1, Len(log))
      BY <1>8, <1>3, <2>3, SubSeqIs, <2>1
    <2> QED BY <1>7, <2>2, <2>3
  <1>10. /\ v \in StreamState(cf) /\ v.pc = "attached" /\ v.mark = <<live.epoch, 0>> /\ v.queue = q
         /\ v.target = st[s].target /\ v.started = st[s].started /\ v.shown = st[s].shown
         /\ v.ended = st[s].ended
    BY <1>3, <1>2, <1>5, <1>9 DEF StreamState
  <1>11. Moves(cf, s, v) BY ONLY <1>6, <1>10, s \in cf.Streams DEF Moves
  <1>12. Rewrites(cf, s, runs') /\ runs' \in Seq(RunEntry(cf)) /\ Len(runs') <= cf.Cap
    BY <1>1, <1>6, RewritesNothing
  <1>13. RunFacts(cf)' BY <1>1, <1>6, <1>10, <1>11, <1>12, RunsKept
  <1>14. v.target \in Range(order) \cup {"none"} BY <1>1, <1>10 DEF FrameFacts
  <1>15. ASSUME ~cf.SameText PROVE BoundFacts(cf)' /\ StreamOk(s, v)
    <2>1. BoundFacts(cf) /\ StreamOk(s, st[s]) /\ LogFacts(cf) BY <1>1, <1>15
    <2>2. v.ended = "none" /\ v.target = "none" /\ v.shown = <<>> /\ ~v.started
      BY ONLY <1>6, <1>10, <2>1 DEF StreamOk
    <2>3. BoundFacts(cf)'
      BY <1>6, <2>2, <1>1, <1>10, <1>11, <1>12, <2>1, RunsKept
    <2>4. Whole(log, s) \/ (Silent(log, s) /\ Over(s)) BY <2>1 DEF LogFacts
    <2>5. Len(said[s]) \in Nat
      BY <1>1, LenProperties DEF FollowTypes
    <2>6. (Whole(log, s) => Whole(q, s)) /\ (Silent(log, s) => Silent(q, s))
      <3>1. CASE q = log BY ONLY <3>1
      <3>2. CASE st[s].mark[1] = live.epoch
        <4> DEFINE p == st[s].mark[2]
        <4>1. /\ p \in Nat /\ p <= Len(log) /\ q = SubSeq(log, p + 1, Len(log))
              /\ \A i \in 1..p : ~Turn(log[i], s) /\ ~Names(log[i], s)
          BY <1>6, <1>7, <1>8, <2>1, <3>2 DEF StreamOk
        <4> HIDE DEF p
        <4>2. /\ \A k, m \in Nat : Rest(log, s, k, m) => Rest(q, s, k, m)
              /\ \A A : Announced(log, s, A) => Announced(q, s, A)
              /\ Silent(log, s) => Silent(q, s)
          BY ONLY <1>3, <4>1, RestOfSub
        <4> QED BY ONLY <2>5, <4>2 DEF Whole
      <3> QED BY ONLY <1>7, <3>1, <3>2
    <2>7. Reads(s, v) BY ONLY <1>10, <2>2, <2>4, <2>6 DEF Reads
    <2>8. v.mark[1] <= live.epoch BY ONLY <1>3, <1>10
    <2>9. StreamOk(s, v) BY ONLY <1>10, <2>1, <2>2, <2>7, <2>8 DEF StreamOk
    <2> QED BY <2>3, <2>9
  <1>16. \A i \in DOMAIN v.queue : FrameOk(v.queue[i]) BY ONLY <1>9, <1>10
  <1> QED BY <1>10, <1>11, <1>12, <1>13, <1>14, <1>15, <1>16, FollowMoved

\* The stream closes.
LEMMA EndKept ==
  ASSUME NEW cf, Follow(cf)!Shape, FollowInv(cf), NEW s \in cf.Streams,
         NEW ended \in {"run.completed", "not_seen", "left"}, Follow(cf)!End(s, ended),
         UNCHANGED <<live, log, pending, running, order, said>>,
         st[s].pc \in {"issued", "attached"},
         ~cf.SameText /\ ended = "run.completed" =>
            /\ st[s].target = s /\ Over(s) /\ Len(st[s].shown) + 1 = Len(said[s])
  PROVE  FollowInv(cf)'
  <1>1. /\ FollowTypes(cf) /\ QueueFacts(cf) /\ FrameFacts(cf) /\ RunFacts(cf)
        /\ ~cf.SameText => BoundFacts(cf) /\ StreamOk(s, st[s])
    BY DEF FollowInv
  <1>2. st \in [cf.Streams -> StreamState(cf)] /\ st[s] \in StreamState(cf) BY <1>1 DEF FollowTypes
  <1>3. PICK v : v = [[[st[s] EXCEPT !.pc = "closed"] EXCEPT !.queue = <<>>] EXCEPT !.ended = ended]
    OBVIOUS
  <1>4. /\ st' = [st EXCEPT ![s] = v]
        /\ runs' = Follow(cf)!Released(Follow(cf)!Bound(runs, s, st[s].target), s, ended)
    BY ONLY <1>2, <1>3, Follow(cf)!End(s, ended), s \in cf.Streams DEF Follow!End
  <1>5. <<>> \in Seq(FollowFrame(cf)) /\ DOMAIN <<>> = {} BY EmptySeq
  <1>6. /\ v \in StreamState(cf) /\ v.pc = "closed" /\ v.mark = st[s].mark /\ v.queue = <<>>
        /\ v.target = st[s].target /\ v.started = st[s].started /\ v.shown = st[s].shown
        /\ v.ended = ended
    BY ONLY <1>2, <1>3, <1>5, ended \in {"run.completed", "not_seen", "left"} DEF StreamState
  <1>7. Moves(cf, s, v)
    BY ONLY <1>4, <1>6, s \in cf.Streams, UNCHANGED <<live, log, pending, running, order, said>> DEF Moves
  <1>8. st[s].target \in cf.Streams \cup {"none"} BY ONLY <1>2 DEF StreamState
  <1>9. /\ Rewrites(cf, s, runs')
        /\ \A i \in DOMAIN runs : runs[i].id = s =>
              runs'[i].adm = IF st[s].target # "none" THEN st[s].target ELSE runs[i].adm
    BY ONLY <1>1, <1>4, <1>8, RewritesAre, s \in cf.Streams
  <1>10. runs' \in Seq(RunEntry(cf)) /\ Len(runs') <= cf.Cap
    BY <1>1, <1>9 DEF Rewrites, FollowTypes
  <1>11. RunFacts(cf)' BY <1>1, <1>6, <1>7, <1>9, RunsKept
  <1>12. (\A i \in DOMAIN v.queue : FrameOk(v.queue[i])) /\ v.target \in Range(order) \cup {"none"}
    BY <1>1, <1>5, <1>6 DEF FrameFacts
  <1>13. ASSUME ~cf.SameText PROVE BoundFacts(cf)' /\ StreamOk(s, v)
    BY <1>1, <1>13, <1>6, <1>9, <1>7, RunsKept, st[s].pc \in {"issued", "attached"} DEF StreamOk,
       Follow!Shape, Follow!None
  <1> QED BY <1>6, <1>7, <1>10, <1>11, <1>12, <1>13, FollowMoved

\* What a frame at the head of the queue is, for a stream that follows its own.
LEMMA HeadRead ==
  ASSUME NEW cf, Follow(cf)!Shape, FollowTypes(cf), FrameFacts(cf), NEW s \in cf.Streams,
         StreamOk(s, st[s]), st[s].pc = "attached", st[s].queue # <<>>
  PROVE  LET f == st[s].queue[1] IN
         /\ Follow(cf)!Mine(s, f) => /\ st[s].target = s /\ f.type \in Kinds
                                     /\ f.n = Len(st[s].shown) + 1
                                     /\ Len(st[s].shown) + 1 <= Len(said[s])
                                     /\ said[s][Len(st[s].shown) + 1] = f.type
                                     /\ Rest(Tail(st[s].queue), s, Len(st[s].shown) + 1, Len(said[s]))
         /\ ~Follow(cf)!Mine(s, f) => ~Turn(f, s)
  <1> DEFINE x == st[s]
  <1> DEFINE f == x.queue[1]
  <1> DEFINE k == Len(x.shown)
  <1>1. x \in StreamState(cf) /\ said[s] \in Seq(Kinds) BY DEF FollowTypes
  <1>2. /\ x.queue \in Seq(FollowFrame(cf)) /\ k \in Nat /\ Len(said[s]) \in Nat
    BY <1>1, LenProperties DEF StreamState
  <1>3. f \in FollowFrame(cf) /\ 1 \in DOMAIN x.queue BY <1>2, HeadTailIs
  <1>4. FrameOk(f) BY <1>3 DEF FrameFacts
  <1>5. Follow(cf)!Mine(s, f) <=> (f.type # "info" /\ f.adm = x.target) BY DEF Follow!Mine
  <1>6. Reads(s, x) /\ x.target \in {"none", s} BY DEF StreamOk
  <1>7. s # "none" /\ \A a \in cf.Streams : a # "none" BY DEF Follow!Shape, Follow!None
  <1>8. f.type # "info" => f.adm \in cf.Streams /\ f.type \in Kinds BY ONLY <1>3 DEF FollowFrame
  <1>9. x.queue # <<>> OBVIOUS
  <1> HIDE DEF x, k
  <1>10. ASSUME f.type # "info", f.adm = x.target
         PROVE  /\ x.target = s /\ f.type \in Kinds /\ f.n = k + 1 /\ k + 1 <= Len(said[s])
                /\ said[s][k + 1] = f.type
                /\ Rest(Tail(x.queue), s, k + 1, Len(said[s]))
    BY <1>6, <1>7, <1>8, <1>10, <1>2, <1>9, RestTail, <1>4 DEF Reads, k, Turn, FrameOk
  <1>11. ASSUME ~(f.type # "info" /\ f.adm = x.target) PROVE ~Turn(f, s)
    <2>1. CASE x.target = s BY ONLY <1>11, <2>1 DEF Turn
    <2>2. CASE x.target = "none" /\ Whole(x.queue, s)
      BY <2>2, <1>2, <1>9, AnnouncedMoves DEF Whole
    <2>3. CASE x.target = "none" /\ Silent(x.queue, s)
      BY ONLY <1>3, <2>3 DEF Silent
    <2> QED BY ONLY <1>6, <2>1, <2>2, <2>3 DEF Reads
  <1> QED BY <1>5, <1>10, <1>11 DEF x, k

LEMMA FinishKept ==
  ASSUME NEW cf, Follow(cf)!Shape, FollowInv(cf), NEW s \in cf.Streams,
         Follow(cf)!Finish(s) \/ Follow(cf)!HandOff(s) \/ Follow(cf)!Leave(s)
  PROVE  FollowInv(cf)'
  <1>1. /\ FollowTypes(cf) /\ QueueFacts(cf) /\ FrameFacts(cf)
        /\ ~cf.SameText => StreamOk(s, st[s])
    BY DEF FollowInv
  <1>2. CASE Follow(cf)!Finish(s)
    <2>1. /\ st[s].pc = "attached" /\ st[s].queue # <<>>
          /\ Follow(cf)!Mine(s, Head(st[s].queue)) /\ Head(st[s].queue).type = "complete"
          /\ Follow(cf)!End(s, "run.completed")
          /\ UNCHANGED <<live, log, pending, running, order, said>>
      BY <1>2 DEF Follow!Finish
    <2>2. st[s].queue \in Seq(FollowFrame(cf))
      BY <1>1 DEF FollowTypes, StreamState
    <2>3. Head(st[s].queue) = st[s].queue[1] BY ONLY <2>1, <2>2, HeadTailIs
    <2>4. ASSUME ~cf.SameText
          PROVE  st[s].target = s /\ Over(s) /\ Len(st[s].shown) + 1 = Len(said[s])
      <3> DEFINE k == Len(st[s].shown)
      <3>1. /\ st[s].target = s /\ k + 1 <= Len(said[s]) /\ said[s][k + 1] = "complete"
        BY <1>1, <2>1, <2>3, <2>4, HeadRead
      <3>2. k \in Nat /\ Len(said[s]) \in Nat
        BY <1>1, LenProperties DEF FollowTypes, StreamState
      <3> HIDE DEF k
      <3>3. k + 1 \in 1..Len(said[s]) BY ONLY <3>1, <3>2
      <3>4. k + 1 = Len(said[s]) /\ Over(s) BY <1>1, <3>1, <3>3 DEF QueueFacts
      <3> QED BY <3>1, <3>4 DEF k
    <2> QED BY <2>1, <2>4, EndKept
  <1>3. CASE Follow(cf)!HandOff(s)
    BY <1>3, EndKept DEF Follow!HandOff
  <1>4. CASE Follow(cf)!Leave(s)
    BY <1>4, EndKept DEF Follow!Leave, Follow!Open
  <1> QED BY <1>2, <1>3, <1>4

\* One frame of the queue is shown, or makes the stream know its admission, or
\* is not for it.
LEMMA ConsumeKept ==
  ASSUME NEW cf, Follow(cf)!Shape, FollowInv(cf), NEW s \in cf.Streams, Follow(cf)!Consume(s)
  PROVE  FollowInv(cf)'
  <1>1. /\ FollowTypes(cf) /\ QueueFacts(cf) /\ FrameFacts(cf) /\ RunFacts(cf)
        /\ ~cf.SameText => BoundFacts(cf) /\ StreamOk(s, st[s])
    BY DEF FollowInv
  <1>2. st \in [cf.Streams -> StreamState(cf)] /\ st[s] \in StreamState(cf) BY <1>1 DEF FollowTypes
  <1>3. /\ st[s].queue \in Seq(FollowFrame(cf)) /\ st[s].target \in cf.Streams \cup {"none"}
        /\ st[s].started \in BOOLEAN /\ st[s].shown \in Seq(Kinds \X cf.Streams)
    BY ONLY <1>2 DEF StreamState
  <1>4. st[s].queue # <<>> /\ st[s].pc = "attached"
        /\ UNCHANGED <<live, log, pending, running, order, said>>
    BY DEF Follow!Consume
  <1>5. PICK f : f = Head(st[s].queue) OBVIOUS
  <1>6. PICK t : t = Follow(cf)!Named(s, f) OBVIOUS
  <1>7. PICK mine \in BOOLEAN : mine <=> Follow(cf)!Mine(s, f) OBVIOUS
  <1>8. /\ f = st[s].queue[1] /\ 1 \in DOMAIN st[s].queue /\ f \in FollowFrame(cf)
        /\ Tail(st[s].queue) \in Seq(FollowFrame(cf))
        /\ \A i \in DOMAIN Tail(st[s].queue) : /\ Tail(st[s].queue)[i] = st[s].queue[i + 1]
                                               /\ i + 1 \in DOMAIN st[s].queue
    BY ONLY <1>3, <1>4, <1>5, HeadTailIs
  <1>9. mine <=> f.type # "info" /\ f.adm = st[s].target BY ONLY <1>7 DEF Follow!Mine
  <1>10. mine => <<f.type, f.adm>> \in Kinds \X cf.Streams BY ONLY <1>8, <1>9 DEF FollowFrame
  <1>11. PICK b \in BOOLEAN : b <=> st[s].started \/ (mine /\ f.type = "start") OBVIOUS
  <1>12. PICK shown : shown = IF mine THEN Append(st[s].shown, <<f.type, f.adm>>) ELSE st[s].shown
    OBVIOUS
  <1>13. shown \in Seq(Kinds \X cf.Streams) BY ONLY <1>3, <1>10, <1>12, AppendIs
  <1>14. PICK v : v = [[[[st[s] EXCEPT !.queue = Tail(@)] EXCEPT !.target = t]
                          EXCEPT !.started = b] EXCEPT !.shown = shown]
    OBVIOUS
  <1>15. /\ st' = [st EXCEPT ![s] = v]
         /\ runs' = IF mine THEN Follow(cf)!Bound(runs, s, st[s].target) ELSE runs
    BY <1>5, Follow(cf)!Consume(s), <1>3, <1>7, <1>11, <1>12, <1>2, <1>6, <1>14, s \in cf.Streams
       DEF Follow!Consume, StreamState
  <1>16. \A i \in DOMAIN st[s].queue : FrameOk(st[s].queue[i]) BY <1>1 DEF FrameFacts
  <1>17. FrameOk(f) /\ \A i \in DOMAIN Tail(st[s].queue) : FrameOk(Tail(st[s].queue)[i])
    BY ONLY <1>8, <1>16
  <1>18. st[s].target \in Range(order) \cup {"none"} BY <1>1 DEF FrameFacts
  <1>19. /\ t \in Range(order) \cup {"none"}
         /\ f.type # "info" => t = st[s].target
         /\ ~cf.SameText /\ st[s].target = s => t = s
         /\ ~cf.SameText /\ st[s].target = "none" /\ ~st[s].started =>
               t = IF Names(f, s) THEN s ELSE "none"
    BY ONLY <1>1, <1>6, <1>8, <1>17, <1>18, NamedIs, Follow(cf)!Shape, s \in cf.Streams
  <1>20. t \in cf.Streams \cup {"none"}
    BY <1>1, <1>19 DEF FollowTypes, Range
  <1>21. /\ v \in StreamState(cf) /\ v.pc = "attached" /\ v.mark = st[s].mark
         /\ v.queue = Tail(st[s].queue) /\ v.target = t /\ v.started = b /\ v.shown = shown
         /\ v.ended = st[s].ended
    BY ONLY <1>2, <1>4, <1>8, <1>13, <1>14, <1>20, b \in BOOLEAN DEF StreamState
  <1>22. Moves(cf, s, v) BY ONLY <1>4, <1>15, <1>21, s \in cf.Streams DEF Moves
  <1>23. /\ Rewrites(cf, s, runs')
         /\ \A i \in DOMAIN runs : runs[i].id = s =>
               /\ runs'[i].released = runs[i].released
               /\ runs'[i].adm = IF mine /\ st[s].target # "none" THEN st[s].target ELSE runs[i].adm
    <2>1. CASE mine
      <3>1. runs' = Follow(cf)!Bound(runs, s, st[s].target) BY ONLY <1>15, <2>1
      <3>2. PICK es : es = Follow(cf)!Released(runs', s, "left") OBVIOUS
      <3>3. FollowTypes(cf) BY <1>1
      <3>4. /\ Rewrites(cf, s, runs')
            /\ \A i \in DOMAIN runs : runs[i].id = s =>
                  /\ runs'[i].released = runs[i].released
                  /\ runs'[i].adm = IF st[s].target # "none" THEN st[s].target ELSE runs[i].adm
        BY ONLY <1>3, <3>1, <3>2, <3>3, RewritesAre, s \in cf.Streams
      <3> QED BY ONLY <2>1, <3>4
    <2>2. CASE ~mine
      BY <1>15, <2>2, <1>1, RewritesNothing
    <2> QED BY ONLY <2>1, <2>2, mine \in BOOLEAN
  <1>24. runs' \in Seq(RunEntry(cf)) /\ Len(runs') <= cf.Cap
    BY <1>1, <1>23 DEF Rewrites, FollowTypes
  <1>25. RunFacts(cf)' BY <1>1, <1>4, <1>21, <1>22, <1>23, RunsKept
  <1>26. ASSUME ~cf.SameText PROVE BoundFacts(cf)' /\ StreamOk(s, v)
    <2>1. BoundFacts(cf) /\ StreamOk(s, st[s]) BY <1>1, <1>26
    <2>2. st[s].target \in {"none", s} /\ st[s].ended = "none" BY <1>4, <2>1 DEF StreamOk
    <2>3. s # "none" BY DEF Follow!Shape, Follow!None
    <2>4. BoundFacts(cf)'
      BY <1>21, <1>23, <2>2, <1>1, <1>4, <1>22, <2>1, RunsKept
    <2> DEFINE k == Len(st[s].shown)
    <2>5. k \in Nat /\ DOMAIN st[s].shown = 1..k /\ Len(said[s]) \in Nat
      BY <1>1, <1>3, LenProperties DEF FollowTypes
    <2>6. /\ mine => /\ st[s].target = s /\ k + 1 <= Len(said[s])
                     /\ said[s][k + 1] = f.type
                     /\ Rest(Tail(st[s].queue), s, k + 1, Len(said[s]))
          /\ ~mine => ~Turn(f, s)
      BY ONLY <1>1, <1>4, <1>7, <1>8, <2>1, HeadRead, Follow(cf)!Shape, s \in cf.Streams
    <2> HIDE DEF k
    <2>7. Reads(s, st[s]) BY <1>4, <2>1 DEF StreamOk
    <2>8. CASE mine
      <3>1. t = s /\ shown = Append(st[s].shown, <<f.type, s>>)
        BY <1>9, <1>12, <1>19, <2>6, <2>8
      <3>2. <<f.type, s>> \in Kinds \X cf.Streams BY <1>9, <1>10, <2>6, <2>8
      <3>3. /\ Len(shown) = k + 1 /\ DOMAIN shown = 1..(k + 1) /\ shown[k + 1] = <<f.type, s>>
            /\ \A i \in 1..k : shown[i] = st[s].shown[i]
        BY ONLY <1>3, <3>1, <3>2, AppendIs DEF k
      <3>4. st[s].mark[1] = live.epoch \/ Over(s)
        BY ONLY <2>3, <2>6, <2>7, <2>8 DEF Reads
      <3>5. Reads(s, v) BY ONLY <1>21, <2>6, <2>8, <3>1, <3>3, <3>4 DEF Reads
      <3>6. \A i \in DOMAIN shown : shown[i] = <<said[s][i], s>>
        BY <2>1, <2>5, <3>3, <2>6, <2>8 DEF StreamOk
      <3>7. StreamOk(s, v)
        BY ONLY <1>4, <1>21, <2>1, <2>2, <2>3, <2>6, <2>8, <3>1, <3>3, <3>5, <3>6 DEF StreamOk
      <3> QED BY <2>4, <3>7
    <2>9. CASE ~mine
      <3>1. shown = st[s].shown /\ (b <=> st[s].started) BY ONLY <1>11, <1>12, <2>9
      <3>2. ASSUME NEW m \in Nat, Rest(st[s].queue, s, m, Len(said[s]))
            PROVE  Rest(Tail(st[s].queue), s, m, Len(said[s]))
        BY <1>8, <2>6, <2>9, <1>3, <1>4, <2>5, <3>2, RestTail
      <3>3. CASE st[s].target = s /\ Rest(st[s].queue, s, k, Len(said[s]))
        BY <1>19, <1>26, <3>3, <2>3, <2>7, <1>21, <2>5, <3>1, <3>2, <1>4, <2>1, <2>2, <2>4 DEF Reads,
           k, StreamOk
      <3>4. CASE st[s].target = "none"
        <4>1. st[s].shown = <<>> /\ ~st[s].started BY <2>1, <3>4 DEF StreamOk
        <4>2. t = IF Names(f, s) THEN s ELSE "none" BY <1>19, <1>26, <3>4, <4>1
        <4>3. k = 0 /\ 0 \in Nat BY <4>1 DEF k
        <4>4. ASSUME Whole(st[s].queue, s), st[s].mark[1] = live.epoch \/ Over(s)
              PROVE  Reads(s, v)
          <5>1. Rest(Tail(st[s].queue), s, 0, Len(said[s])) BY ONLY <3>2, <4>3, <4>4 DEF Whole
          <5>2. ~Names(f, s) => Announced(Tail(st[s].queue), s, Range(order))
            BY ONLY <1>3, <1>4, <1>8, <4>4, AnnouncedMoves DEF Whole
          <5>3. Len(shown) = 0 BY ONLY <3>1, <4>1
          <5> QED BY ONLY <1>21, <4>2, <4>4, <5>1, <5>2, <5>3 DEF Reads, Whole
        <4>5. ASSUME Silent(st[s].queue, s), st[s].mark[1] # live.epoch \/ Over(s)
              PROVE  Reads(s, v)
          BY <1>3, <1>4, <1>8, <4>5, AnnouncedMoves, <1>21, <4>2 DEF Reads
        <4>6. Reads(s, v) BY ONLY <2>3, <2>7, <3>4, <4>4, <4>5 DEF Reads
        <4>7. t \in {"none", s} BY ONLY <4>2
        <4>8. StreamOk(s, v)
          BY ONLY <1>4, <1>21, <2>1, <2>2, <2>3, <3>1, <4>1, <4>6, <4>7 DEF StreamOk
        <4> QED BY <2>4, <4>8
      <3> QED BY ONLY <2>2, <2>3, <2>7, <3>3, <3>4 DEF Reads, k
    <2> QED BY ONLY <2>8, <2>9, mine \in BOOLEAN
  <1>27. \A i \in DOMAIN v.queue : FrameOk(v.queue[i]) BY ONLY <1>17, <1>21
  <1> QED BY <1>19, <1>21, <1>22, <1>24, <1>25, <1>26, <1>27, FollowMoved

-----------------------------------------------------------------------------
LEMMA FollowStarts ==
  ASSUME NEW cf, Follow(cf)!Shape, Follow(cf)!Init
  PROVE  FollowInv(cf)
  <1>1. /\ live = [up |-> FALSE, epoch |-> 0] /\ log = <<>> /\ pending = <<>> /\ running = "none"
        /\ order = <<>> /\ said = [s \in cf.Streams |-> <<>>] /\ runs = <<>>
        /\ st = [s \in cf.Streams |->
                    [pc |-> "idle", mark |-> <<0, 0>>, queue |-> <<>>, target |-> "none",
                     started |-> FALSE, shown |-> <<>>, ended |-> "none"]]
    BY DEF Follow!Init, Follow!Fresh, Follow!None
  <1>2. cf.Resets \in Nat /\ cf.Cap \in Nat BY DEF Follow!Shape
  <1>3. \A S : <<>> \in Seq(S) /\ DOMAIN <<>> = {} /\ Len(<<>>) = 0 BY EmptySeq
  <1>4. FollowTypes(cf)
    <2>1. st \in [cf.Streams -> StreamState(cf)]
      BY <1>3, <1>1 DEF StreamState
    <2>2. said \in [cf.Streams -> Seq(Kinds)] BY ONLY <1>1, <1>3
    <2>3. live \in [up: BOOLEAN, epoch: 0..cf.Resets] BY ONLY <1>1, <1>2
    <2> QED BY ONLY <1>1, <1>2, <1>3, <2>1, <2>2, <2>3 DEF FollowTypes
  <1>5. Range(order) = {} /\ Range(pending) = {} BY <1>1 DEF Range
  <1>6. \A s \in cf.Streams : /\ said[s] = <<>> /\ Len(said[s]) = 0 /\ st[s].pc = "idle"
                              /\ st[s].queue = <<>> /\ st[s].target = "none" /\ ~st[s].started
                              /\ st[s].mark = <<0, 0>> /\ st[s].shown = <<>> /\ st[s].ended = "none"
    BY <1>1
  <1>7. QueueFacts(cf)
    BY <1>1, <1>5, <1>6 DEF IsInjective, Over, QueueFacts
  <1>8. FrameFacts(cf) BY ONLY <1>1, <1>3, <1>6 DEF FrameFacts
  <1>9. RunFacts(cf) /\ BoundFacts(cf) BY ONLY <1>1, <1>3 DEF RunFacts, BoundFacts
  <1>10. LogFacts(cf)
    <2>1. ASSUME NEW s \in cf.Streams PROVE Whole(log, s)
      <3>1. Rest(log, s, 0, 0)
        BY <1>1, <1>3 DEF Rest
      <3>2. Announced(log, s, Range(order)) BY ONLY <1>1, <1>3, <1>5 DEF Announced
      <3> QED BY ONLY <1>6, <2>1, <3>1, <3>2 DEF Whole
    <2> QED BY ONLY <2>1 DEF LogFacts
  <1>11. ASSUME NEW s \in cf.Streams PROVE StreamOk(s, st[s])
    BY <1>1, <1>6, <1>3, <1>11 DEF StreamOk
  <1> QED BY ONLY <1>4, <1>7, <1>8, <1>9, <1>10, <1>11 DEF FollowInv

LEMMA FollowKept ==
  ASSUME NEW cf, Follow(cf)!Shape, FollowInv(cf), [Follow(cf)!Next]_(Follow(cf)!vars)
  PROVE  FollowInv(cf)'
  <1>1. /\ FollowTypes(cf) /\ QueueFacts(cf) /\ FrameFacts(cf) /\ RunFacts(cf)
        /\ ~cf.SameText => /\ LogFacts(cf) /\ BoundFacts(cf)
                           /\ \A s \in cf.Streams : StreamOk(s, st[s])
    BY DEF FollowInv
  <1>2. ASSUME NEW f, Publishes(cf, f), FollowTypes(cf)', QueueFacts(cf)' PROVE FollowInv(cf)'
    BY <1>1, <1>2, PublishKeepsFrames, PublishKeepsRuns, PublishKeepsLog, PublishKeepsStreams
       DEF FollowInv
  <1>3. ASSUME NEW t \in cf.Streams, Follow(cf)!Admit(t) PROVE FollowInv(cf)'
    <2>1. /\ Publishes(cf, Follow(cf)!Info(pending')) /\ FollowTypes(cf)' /\ QueueFacts(cf)'
      BY <1>1, <1>3, AdmitKept
    <2>2. PICK f : f = Follow(cf)!Info(pending') OBVIOUS
    <2> QED BY ONLY <1>2, <2>1, <2>2
  <1>4. CASE Follow(cf)!Start \/ Follow(cf)!Delta \/ Follow(cf)!Complete
    <2>1. PICK f : Publishes(cf, f) /\ FollowTypes(cf)' /\ QueueFacts(cf)'
      BY <1>1, <1>4, TurnsKept
    <2> QED BY ONLY <1>2, <2>1
  <1>5. CASE Follow(cf)!LiveGone BY <1>1, <1>5, LiveGoneKept DEF FollowInv
  <1>6. ASSUME NEW s \in cf.Streams, Follow(cf)!Expire(s) PROVE FollowInv(cf)'
    BY <1>1, <1>6, ExpireKept DEF FollowInv
  <1>7. CASE UNCHANGED Follow(cf)!vars
    <2>1. UNCHANGED <<live, log, pending, running, order, said, st, runs>>
      BY <1>7 DEF Follow!vars
    <2>2. FollowTypes(cf)' BY ONLY <1>1, <2>1 DEF FollowTypes, FollowFrame, StreamState, RunEntry
    <2>3. QueueFacts(cf)' BY ONLY <1>1, <2>1 DEF QueueFacts, Over
    <2>4. FrameFacts(cf)' BY ONLY <1>1, <2>1 DEF FrameFacts, FrameOk
    <2>5. RunFacts(cf)' BY ONLY <1>1, <2>1 DEF RunFacts
    <2>6. LogFacts(cf) => LogFacts(cf)' BY ONLY <2>1 DEF LogFacts, Whole, Over
    <2>7. BoundFacts(cf) => BoundFacts(cf)' BY ONLY <2>1 DEF BoundFacts
    <2>8. (\A s \in cf.Streams : StreamOk(s, st[s])) => (\A s \in cf.Streams : StreamOk(s, st[s]))'
      BY ONLY <2>1 DEF StreamOk, Reads, Whole, Over
    <2> QED BY ONLY <1>1, <2>2, <2>3, <2>4, <2>5, <2>6, <2>7, <2>8 DEF FollowInv
  <1>8. ASSUME NEW s \in cf.Streams, Follow(cf)!Request(s) PROVE FollowInv(cf)'
    BY PrepareKept, IssueKept, AttachKept, ConsumeKept, FinishKept, <1>8 DEF Follow!Request
  <1>9. ASSUME NEW s \in cf.Streams, Follow(cf)!HandOff(s) \/ Follow(cf)!Leave(s) PROVE FollowInv(cf)'
    BY <1>9, FinishKept
  <1>10. Follow(cf)!Next \/ UNCHANGED Follow(cf)!vars OBVIOUS
  <1> QED BY ONLY <1>3, <1>4, <1>5, <1>6, <1>7, <1>8, <1>9, <1>10 DEF Follow!Next, Follow!Core

LEMMA FollowImplies ==
  ASSUME NEW cf, Follow(cf)!Shape, FollowInv(cf)
  PROVE  /\ Follow(cf)!TypeOK
         /\ ~cf.SameText => /\ Follow(cf)!FollowsOwnSend /\ Follow(cf)!ShowsTheTurn
                            /\ Follow(cf)!EndsComplete /\ Follow(cf)!EndedReadsTerminal
  <1>1. /\ FollowTypes(cf) /\ QueueFacts(cf) /\ RunFacts(cf)
        /\ ~cf.SameText => BoundFacts(cf) /\ \A s \in cf.Streams : StreamOk(s, st[s])
    BY DEF FollowInv
  <1>2. \A s \in cf.Streams : st[s] \in StreamState(cf) BY <1>1 DEF FollowTypes
  <1>3. \A i \in DOMAIN runs : runs[i] \in RunEntry(cf) /\ runs[i].id \in cf.Streams
    <2>1. runs \in Seq(RunEntry(cf)) BY <1>1 DEF FollowTypes
    <2>2. \A i \in DOMAIN runs : runs[i] \in RunEntry(cf) BY ONLY <2>1
    <2> QED BY ONLY <2>2 DEF RunEntry
  <1>4. Follow(cf)!TypeOK
    <2>1. live.up \in BOOLEAN /\ live.epoch <= cf.Resets
      BY <1>1 DEF FollowTypes, Follow!Shape
    <2>2. \A s \in cf.Streams :
             /\ st[s].pc \in {"idle", "prepared", "sent", "issued", "attached", "closed"}
             /\ st[s].target \in cf.Streams \cup {"none"}
             /\ st[s].ended \in {"none", "run.completed", "not_seen", "left"}
      BY ONLY <1>2 DEF StreamState
    <2>3. Len(runs) <= cf.Cap /\ \A i, j \in DOMAIN runs : runs[i].id = runs[j].id => i = j
      BY <1>1 DEF FollowTypes, RunFacts
    <2>4. running \in cf.Streams \cup {"none"} /\ Range(pending) \subseteq Range(order)
      BY <1>1 DEF FollowTypes, QueueFacts
    <2> QED BY ONLY FollowLists, <2>1, <2>2, <2>3, <2>4 DEF Follow!TypeOK, Follow!None
  <1>5. ASSUME ~cf.SameText
        PROVE  /\ Follow(cf)!FollowsOwnSend /\ Follow(cf)!ShowsTheTurn
               /\ Follow(cf)!EndsComplete /\ Follow(cf)!EndedReadsTerminal
    <2>1. \A s \in cf.Streams : StreamOk(s, st[s]) BY <1>1, <1>5
    <2>2. \A i \in DOMAIN runs :
             /\ runs[i].adm \in {"none", runs[i].id}
             /\ st[runs[i].id].ended = "run.completed" => runs[i].adm = runs[i].id
      BY <1>1, <1>5 DEF BoundFacts
    <2>3. \A s \in cf.Streams :
             /\ Len(st[s].shown) <= Len(said[s])
             /\ \A i \in DOMAIN st[s].shown : st[s].shown[i] = <<said[s][i], s>>
             /\ st[s].ended = "run.completed" => Over(s) /\ Len(st[s].shown) + 1 = Len(said[s])
      BY ONLY <2>1 DEF StreamOk
    <2>4. Follow(cf)!FollowsOwnSend
      BY <2>3, <2>2 DEF Follow!FollowsOwnSend, Follow!None
    <2>5. Follow(cf)!ShowsTheTurn /\ Follow(cf)!EndsComplete
      BY ONLY <2>3 DEF Follow!ShowsTheTurn, Follow!EndsComplete
    <2>6. Follow(cf)!EndedReadsTerminal
      <3> SUFFICES ASSUME NEW i \in DOMAIN runs, st[runs[i].id].ended = "run.completed"
                   PROVE  Follow(cf)!Status(Follow(cf)!Admission(runs[i])) = "terminal"
        BY DEF Follow!EndedReadsTerminal
      <3>1. runs[i].adm = runs[i].id /\ Over(runs[i].id) BY <1>3, <2>2, <2>3
      <3>2. runs[i].id # "none" BY <1>3 DEF Follow!Shape, Follow!None
      <3>3. Follow(cf)!Admission(runs[i]) = runs[i].id
        BY ONLY <3>1, <3>2 DEF Follow!Admission, Follow!None
      <3> QED BY ONLY FollowLists, <3>1, <3>3 DEF Follow!Status, Over
    <2> QED BY <2>4, <2>5, <2>6
  <1> QED BY <1>4, <1>5

\* An open stream loses its id only to a registry full of open ones.
LEMMA OpenIdHeld ==
  ASSUME NEW cf, Follow(cf)!Shape, FollowInv(cf), [Follow(cf)!Next]_(Follow(cf)!vars)
  PROVE  Follow(cf)!OpenIdIsHeld
  <1>1. FollowTypes(cf) /\ RunFacts(cf) BY DEF FollowInv
  <1> DEFINE Keeps(s) == s \in {runs'[i].id : i \in DOMAIN runs'}
  <1> DEFINE Crammed == Len(runs) = cf.Cap /\ \A i \in DOMAIN runs : ~runs[i].released
  <1> SUFFICES ASSUME NEW s \in cf.Streams, st[s].pc \in {"issued", "attached"},
                      s \in {runs[i].id : i \in DOMAIN runs}
               PROVE  Keeps(s) \/ Crammed
    BY DEF Follow!OpenIdIsHeld, Follow!Open, Follow!Ids
  <1>2. PICK i \in DOMAIN runs : runs[i].id = s OBVIOUS
  <1>3. ~runs[i].released BY <1>1, <1>2 DEF RunFacts
  <1>4. ASSUME UNCHANGED runs PROVE Keeps(s) BY <1>2, <1>4
  <1>5. ASSUME NEW z, Rewrites(cf, z, runs') PROVE Keeps(s)
    BY <1>2, <1>5 DEF Rewrites
  <1>6. ASSUME NEW z \in cf.Streams, Follow(cf)!Issue(z) PROVE Keeps(s) \/ Crammed
    BY <1>6, <1>1, IssuedIs, <1>3, i \in DOMAIN runs, <1>2 DEF Follow!Issue
  <1>7. ASSUME NEW z, Follow(cf)!Expire(z) PROVE Keeps(s)
    BY <1>7, <1>1, <1>3, WithoutIs, i \in DOMAIN runs, <1>2 DEF Follow!Expire, RunFacts
  <1>8. ASSUME NEW z \in cf.Streams, NEW ended, Follow(cf)!End(z, ended) PROVE Keeps(s)
    <2>1. runs' = Follow(cf)!Released(Follow(cf)!Bound(runs, z, st[z].target), z, ended)
      BY <1>8 DEF Follow!End
    <2>2. st[z].target \in cf.Streams \cup {"none"}
      BY <1>1 DEF FollowTypes, StreamState
    <2>3. Rewrites(cf, z, runs') BY ONLY <1>1, <2>1, <2>2, RewritesAre, z \in cf.Streams
    <2> QED BY <1>5, <2>3
  <1>9. ASSUME NEW z \in cf.Streams, Follow(cf)!Consume(z) PROVE Keeps(s)
    <2>1. runs' = Follow(cf)!Bound(runs, z, st[z].target) \/ UNCHANGED runs
      BY <1>9 DEF Follow!Consume
    <2>2. st[z].target \in cf.Streams \cup {"none"}
      BY <1>1 DEF FollowTypes, StreamState
    <2>3. PICK es : es = Follow(cf)!Released(runs', z, "left") OBVIOUS
    <2>4. runs' = Follow(cf)!Bound(runs, z, st[z].target) => Rewrites(cf, z, runs')
      BY ONLY <1>1, <2>2, <2>3, RewritesAre, z \in cf.Streams
    <2> QED BY <1>4, <1>5, <2>1, <2>4
  <1>10. ASSUME NEW z \in cf.Streams,
                Follow(cf)!Prepare(z) \/ Follow(cf)!Deliver(z) \/ Follow(cf)!Attach(z)
         PROVE  Keeps(s)
    BY <1>10, <1>4 DEF Follow!Prepare, Follow!Deliver, Follow!Attach
  <1>11. ASSUME NEW z \in cf.Streams,
                Follow(cf)!Finish(z) \/ Follow(cf)!HandOff(z) \/ Follow(cf)!Leave(z)
         PROVE  Keeps(s)
    BY <1>11, <1>8 DEF Follow!Finish, Follow!HandOff, Follow!Leave
  <1>12. ASSUME Follow(cf)!Core \/ Follow(cf)!LiveGone \/ UNCHANGED Follow(cf)!vars PROVE Keeps(s)
    BY <1>12, <1>4 DEF Follow!Core, Follow!Start, Follow!Delta, Follow!Complete, Follow!Says,
       Follow!Admit, Follow!LiveGone, Follow!vars
  <1>13. Follow(cf)!Next \/ UNCHANGED Follow(cf)!vars OBVIOUS
  <1> HIDE DEF Keeps, Crammed
  <1> QED BY ONLY <1>6, <1>7, <1>9, <1>10, <1>11, <1>12, <1>13 DEF Follow!Next, Follow!Request

-----------------------------------------------------------------------------
(* The group: in every scenario its component keeps its invariant, whatever *)
(* the records of constants are.                                           *)

SendsHold ==
    /\ scenario = "sent" => OutboxInv(Sent)
    /\ scenario = "merged" => OutboxInv(Merged)
    /\ scenario = "drained" => OutboxInv(Drained)
    /\ scenario = "followed" => FollowInv(Followed)
    /\ scenario = "crowded" => FollowInv(Crowded)

LEMMA SendsStart == Init => SendsHold
  <1> SUFFICES ASSUME Init PROVE SendsHold OBVIOUS
  <1>1. \A cf \in {Sent, Merged, Drained} : Outbox(cf)!Shape BY Instances DEF Instances
  <1>2. \A cf \in {Followed, Crowded} : Follow(cf)!Shape BY Instances DEF Instances
  <1>3. ASSUME scenario = "sent" PROVE OutboxInv(Sent)
    BY <1>3, <1>1, OutboxStarts DEF Init
  <1>4. ASSUME scenario = "merged" PROVE OutboxInv(Merged)
    BY <1>4, <1>1, OutboxStarts DEF Init
  <1>5. ASSUME scenario = "drained" PROVE OutboxInv(Drained)
    BY <1>5, <1>1, OutboxStarts DEF Init
  <1>6. ASSUME scenario = "followed" PROVE FollowInv(Followed)
    BY <1>6, <1>2, FollowStarts DEF Init
  <1>7. ASSUME scenario = "crowded" PROVE FollowInv(Crowded)
    BY <1>7, <1>2, FollowStarts DEF Init
  <1> QED BY <1>3, <1>4, <1>5, <1>6, <1>7 DEF SendsHold

\* What the scenario at hand lets its component do.
LEMMA SendsMove ==
  ASSUME [Next]_vars
  PROVE  /\ scenario' = scenario
         /\ scenario = "sent" => [Outbox(Sent)!Next]_(Outbox(Sent)!vars)
         /\ scenario = "merged" => [Outbox(Merged)!Next]_(Outbox(Merged)!vars)
         /\ scenario = "drained" => [Outbox(Drained)!Next]_(Outbox(Drained)!vars)
         /\ scenario = "followed" => [Follow(Followed)!Next]_(Follow(Followed)!vars)
         /\ scenario = "crowded" => [Follow(Crowded)!Next]_(Follow(Crowded)!vars)
  <1>1. CASE Next BY <1>1 DEF Next
  <1>2. CASE UNCHANGED vars
    BY <1>2 DEF vars, SpoolVars, Outbox!vars, FollowVars, Follow!vars
  <1> QED BY <1>1, <1>2

LEMMA SendsKeep == SendsHold /\ [Next]_vars => SendsHold'
  <1> SUFFICES ASSUME SendsHold, [Next]_vars PROVE SendsHold' OBVIOUS
  <1>0. scenario' = scenario BY SendsMove
  <1>1. \A cf \in {Sent, Merged, Drained} : Outbox(cf)!Shape BY Instances DEF Instances
  <1>2. \A cf \in {Followed, Crowded} : Follow(cf)!Shape BY Instances DEF Instances
  <1>3. ASSUME scenario = "sent" PROVE OutboxInv(Sent)'
    BY <1>3, SendsMove, <1>1, OutboxKept DEF SendsHold
  <1>4. ASSUME scenario = "merged" PROVE OutboxInv(Merged)'
    BY <1>4, SendsMove, <1>1, OutboxKept DEF SendsHold
  <1>5. ASSUME scenario = "drained" PROVE OutboxInv(Drained)'
    BY <1>5, SendsMove, <1>1, OutboxKept DEF SendsHold
  <1>6. ASSUME scenario = "followed" PROVE FollowInv(Followed)'
    BY <1>6, SendsMove, <1>2, FollowKept DEF SendsHold
  <1>7. ASSUME scenario = "crowded" PROVE FollowInv(Crowded)'
    BY <1>7, SendsMove, <1>2, FollowKept DEF SendsHold
  <1> QED BY <1>0, <1>3, <1>4, <1>5, <1>6, <1>7 DEF SendsHold

LEMMA SendsHoldAlways == Spec => []SendsHold
  BY SendsStart, SendsKeep, PTL DEF Spec

\* Where rows do not grow too old and a text has one undelivered row, or nobody
\* else sends, a spooled send starts at most one turn, whatever requests, drain,
\* closing routes and crashes do; its row says what happened to it and merging
\* keeps a row of every text (crosssource_outbox.py). Where no two sends have one
\* text, the stream that follows a send shows that send's turn, all of it and
\* nothing else, over any drops of the live session (crosssource.py).
THEOREM SendsFollowedOnce ==
  ASSUME Unmarked(Sent), Unmarked(Drained), Unmarked(Merged) \/ Alone(Merged),
         ~Followed.SameText
  PROVE  Spec => []CrossOnce
  <1>1. SendsHold => CrossOnce
    <2>1. \A cf \in {Sent, Merged, Drained} : Outbox(cf)!Shape BY Instances DEF Instances
    <2>2. Follow(Followed)!Shape BY Instances DEF Instances
    <2>3. ASSUME SendsHold, scenario = "sent"
          PROVE  /\ Outbox(Sent)!TypeOK /\ Outbox(Sent)!OneTurnPerRow
                 /\ Outbox(Sent)!DeliveredWasInjected /\ Outbox(Sent)!RefusedIsKept
      BY <2>1, <2>3, OutboxImplies DEF SendsHold
    <2>4. ASSUME SendsHold, scenario = "drained"
          PROVE  Outbox(Drained)!OneTurnPerRow /\ Outbox(Drained)!DeliveredWasInjected
      BY <2>1, <2>4, OutboxImplies DEF SendsHold
    <2>5. ASSUME SendsHold, scenario = "merged"
          PROVE  Outbox(Merged)!OneTurnPerRow /\ Outbox(Merged)!MergedIsKept
      BY <2>1, <2>5, OutboxImplies DEF SendsHold
    <2>6. ASSUME SendsHold, scenario = "followed"
          PROVE  /\ Follow(Followed)!TypeOK /\ Follow(Followed)!FollowsOwnSend
                 /\ Follow(Followed)!ShowsTheTurn /\ Follow(Followed)!EndsComplete
                 /\ Follow(Followed)!EndedReadsTerminal
      BY <2>2, <2>6, FollowImplies DEF SendsHold
    <2> QED BY <2>3, <2>4, <2>5, <2>6 DEF CrossOnce
  <1> QED BY <1>1, SendsHoldAlways, PTL

\* A resend within the window makes no second row to inject, an open stream
\* loses its run id only to a registry full of open ones, a write waits for the
\* replay of its session, a ticket opens only within its lifetime, and a breach
\* of the cap is answered 413, whatever else the upload and the gateway do.
THEOREM StepsAreSafe == Spec => LinkSteps
  <1> DEFINE step == /\ scenario = "sent" => Outbox(Sent)!NoDoublePost
                     /\ scenario = "crowded" => Follow(Crowded)!OpenIdIsHeld
                     /\ scenario = "linked" => Link(Linked)!ReplayBeforeRelay
                     /\ scenario = "ticketed" => Ticket(Ticketed)!OpensInTime
                     /\ scenario = "proxied" => Proxy(Proxied)!CapOutranks
  <1>1. SendsHold /\ CarriersHold /\ [Next]_vars => step
    <2> SUFFICES ASSUME SendsHold, CarriersHold, [Next]_vars PROVE step OBVIOUS
    <2>1. ASSUME scenario = "sent" PROVE Outbox(Sent)!NoDoublePost
      BY <2>1, SendsMove, Instances, PostsOnce DEF Instances, SendsHold
    <2>2. ASSUME scenario = "crowded" PROVE Follow(Crowded)!OpenIdIsHeld
      BY <2>2, SendsMove, Instances, OpenIdHeld DEF Instances, SendsHold
    <2>3. ASSUME scenario = "linked" PROVE Link(Linked)!ReplayBeforeRelay
      BY <2>3, CarriersMove, ReplayedFirst DEF CarriersHold
    <2>4. ASSUME scenario = "ticketed" PROVE Ticket(Ticketed)!OpensInTime
      BY <2>4, CarriersMove, OpenedInTime DEF CarriersHold
    <2>5. ASSUME scenario = "proxied" PROVE Proxy(Proxied)!CapOutranks
      BY <2>5, CarriersMove, Outranked DEF CarriersHold
    <2> QED BY <2>1, <2>2, <2>3, <2>4, <2>5
  <1> QED BY <1>1, SendsHoldAlways, CarriersHoldAlways, PTL DEF Spec, LinkSteps

=============================================================================
