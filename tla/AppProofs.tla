----------------------------- MODULE AppProofs -----------------------------
(***************************************************************************)
(* Safety of the App's two durable queues (the group MCApp), for every     *)
(* value of the constants. cf is a record of a component's constants; the  *)
(* lemmas hold for any such record, and the theorems at the end for the    *)
(* records of all scenarios of MCApp.                                      *)
(***************************************************************************)
EXTENDS MCApp, FiniteSets, Lists, SequenceTheorems, FiniteSetTheorems,
        WellFoundedInduction, TLAPS

-----------------------------------------------------------------------------
(* Lists.                                                                  *)

LEMMA HeadTailIs ==
  ASSUME NEW S, NEW q \in Seq(S), q # <<>>
  PROVE  /\ Head(q) = q[1] /\ 1 \in DOMAIN q /\ Head(q) \in S /\ Tail(q) \in Seq(S)
         /\ Len(Tail(q)) = Len(q) - 1 /\ DOMAIN Tail(q) = 1..(Len(q) - 1)
         /\ DOMAIN q = 1..Len(q) /\ Len(q) \in Nat /\ Len(q) >= 1
         /\ \A i \in DOMAIN Tail(q) : Tail(q)[i] = q[i + 1] /\ i + 1 \in DOMAIN q
         /\ \A i \in DOMAIN q : i = 1 \/ (i - 1 \in DOMAIN Tail(q) /\ Tail(q)[i - 1] = q[i])
  BY LenProperties, EmptySeq, HeadTailProperties

LEMMA AppendIs ==
  ASSUME NEW S, NEW q \in Seq(S), NEW e \in S
  PROVE  /\ Append(q, e) \in Seq(S) /\ Len(Append(q, e)) = Len(q) + 1 /\ Len(q) \in Nat
         /\ DOMAIN q = 1..Len(q) /\ DOMAIN Append(q, e) = 1..(Len(q) + 1)
         /\ \A i \in 1..Len(q) : Append(q, e)[i] = q[i]
         /\ Append(q, e)[Len(q) + 1] = e
  BY LenProperties, AppendProperties

\* A set of numbers up to n has a least one.
LEMMA LeastIs ==
  ASSUME NEW n \in Nat, NEW S \in SUBSET (1..n), S # {}
  PROVE  \E k \in S : \A j \in S : k <= j
  <1> DEFINE F == {1..k : k \in S}
  <1>1. IsFiniteSet(1..n) BY FS_Interval
  <1>2. F \in SUBSET (SUBSET (1..n)) /\ F # {}
    <2>1. \A k \in S : 1..k \subseteq 1..n OBVIOUS
    <2>2. F \in SUBSET (SUBSET (1..n)) BY ONLY <2>1
    <2>3. PICK k \in S : TRUE OBVIOUS
    <2>4. 1..k \in F BY <2>3
    <2> QED BY ONLY <2>2, <2>4
  <1>3. IsWellFoundedOn(StrictSubsetOrdering(1..n), FiniteSubsetsOf(1..n))
    BY <1>1, FS_StrictSubsetOrderingWellFounded
  <1>4. F \subseteq FiniteSubsetsOf(1..n) BY <1>1, <1>2, FS_FiniteSubsetsOfFinite
  <1> HIDE DEF F
  <1>5. PICK A \in F : \A B \in F : <<B, A>> \notin StrictSubsetOrdering(1..n)
    BY <1>2, <1>3, <1>4, WFMin
  <1>6. \A B \in F : B \subseteq A => B = A
    <2> SUFFICES ASSUME NEW B \in F, B \subseteq A PROVE B = A OBVIOUS
    <2>1. <<B, A>> \notin StrictSubsetOrdering(1..n) BY <1>5
    <2>2. A \in SUBSET (1..n) /\ B \in SUBSET (1..n) BY <1>2, <1>5
    <2> QED BY <2>1, <2>2 DEF StrictSubsetOrdering
  <1>7. PICK k \in S : A = 1..k BY <1>5 DEF F
  <1>8. ASSUME NEW j \in S, j < k PROVE FALSE
    <2>1. j \in Nat /\ k \in Nat /\ k \in 1..k /\ k \notin 1..j BY <1>8
    <2>2. 1..j \in F /\ 1..j \subseteq 1..k BY <1>8 DEF F
    <2> QED BY <2>1, <2>2, <1>6, <1>7
  <1>9. k \in Nat /\ \A j \in S : j \in Nat OBVIOUS
  <1> QED BY <1>8, <1>9

LEMMA SubSeqIs ==
  ASSUME NEW S, NEW q \in Seq(S), NEW p \in Nat
  PROVE  LET r == SubSeq(q, p + 1, Len(q)) IN
         /\ r \in Seq(S)
         /\ \A i \in DOMAIN r : i + p \in DOMAIN q /\ r[i] = q[i + p]
  <1> DEFINE r == SubSeq(q, p + 1, Len(q))
  <1>1. Len(q) \in Nat /\ DOMAIN q = 1..Len(q) BY LenProperties
  <1>2. p + 1 \in Int /\ Len(q) \in Int BY <1>1
  <1>3. \A i \in (p + 1)..Len(q) : q[i] \in S
    BY <1>1
  <1>4. /\ r \in Seq(S) /\ Len(r) = IF p + 1 <= Len(q) THEN Len(q) - (p + 1) + 1 ELSE 0
        /\ \A i \in 1..(Len(q) - (p + 1) + 1) : r[i] = q[p + 1 + i - 1]
    BY ONLY <1>2, <1>3, SubSeqProperties
  <1> HIDE DEF r
  <1>5. DOMAIN r = 1..Len(r) /\ Len(r) \in Nat BY ONLY <1>4, LenProperties
  <1>6. \A l, n \in Nat : n = (IF p + 1 <= l THEN l - (p + 1) + 1 ELSE 0) =>
           \A i \in 1..n : i \in 1..(l - (p + 1) + 1) /\ i + p \in 1..l /\ p + 1 + i - 1 = i + p
    OBVIOUS
  <1>7. \A i \in DOMAIN r : /\ i \in 1..(Len(q) - (p + 1) + 1) /\ i + p \in DOMAIN q
                           /\ p + 1 + i - 1 = i + p
    BY ONLY <1>1, <1>4, <1>5, <1>6
  <1>8. \A i \in DOMAIN r : r[i] = q[i + p]
    <2> SUFFICES ASSUME NEW i \in DOMAIN r PROVE r[i] = q[i + p] OBVIOUS
    <2>1. r[i] = q[p + 1 + i - 1] BY ONLY <1>4, <1>7, i \in DOMAIN r
    <2> QED BY ONLY <1>7, <2>1, i \in DOMAIN r
  <1> QED BY <1>4, <1>7, <1>8 DEF r

LEMMA RemovedAtIs ==
  ASSUME NEW S, NEW q \in Seq(S), NEW i \in DOMAIN q
  PROVE  /\ RemovedAt(q, i) \in Seq(S) /\ Len(RemovedAt(q, i)) = Len(q) - 1
         /\ \A j \in DOMAIN RemovedAt(q, i) :
               RemovedAt(q, i)[j] = q[IF j < i THEN j ELSE j + 1]
         /\ \A j \in DOMAIN q : j # i =>
               /\ (IF j < i THEN j ELSE j - 1) \in DOMAIN RemovedAt(q, i)
               /\ RemovedAt(q, i)[IF j < i THEN j ELSE j - 1] = q[j]
  <1>1. Len(q) \in Nat /\ DOMAIN q = 1..Len(q) /\ i \in 1..Len(q) /\ Len(q) - 1 \in Nat
    BY LenProperties
  <1>2. \A j \in 1..(Len(q) - 1) : RemovedAt(q, i)[j] = q[IF j < i THEN j ELSE j + 1]
    BY DEF RemovedAt
  <1>3. \A j \in 1..(Len(q) - 1) : (IF j < i THEN j ELSE j + 1) \in 1..Len(q) BY <1>1
  <1>4. \A j \in 1..Len(q) : q[j] \in S BY <1>1, ElementOfSeq
  <1>5. RemovedAt(q, i) \in [1..(Len(q) - 1) -> S] BY <1>3, <1>4 DEF RemovedAt
  <1>6. RemovedAt(q, i) \in Seq(S) /\ Len(RemovedAt(q, i)) = Len(q) - 1
    <2> DEFINE n == Len(q) - 1
               r == RemovedAt(q, i)
    <2>1. n \in Nat /\ r \in [1..n -> S] BY <1>1, <1>5
    <2> HIDE DEF n, r
    <2>2. r \in Seq(S) /\ DOMAIN r = 1..n BY <2>1, IsASeq
    <2>3. Len(r) = n BY <2>1, <2>2, LenProperties
    <2> QED BY <2>2, <2>3 DEF r, n
  <1>7. DOMAIN RemovedAt(q, i) = 1..(Len(q) - 1) BY DEF RemovedAt
  <1> HIDE DEF RemovedAt
  <1> QED BY <1>1, <1>2, <1>6, <1>7

LEMMA RemovedIs ==
  ASSUME NEW S, NEW q \in Seq(S), IsInjective(q), NEW e
  PROVE  /\ Removed(q, e) \in Seq(S) /\ IsInjective(Removed(q, e))
         /\ Range(Removed(q, e)) = Range(q) \ {e}
  <1>1. CASE e \notin Range(q) BY <1>1 DEF Removed
  <1>2. CASE e \in Range(q)
    <2> DEFINE i == CHOOSE k \in DOMAIN q : q[k] = e
               r == RemovedAt(q, i)
    <2>1. i \in DOMAIN q /\ q[i] = e BY <1>2 DEF Range
    <2>2. Removed(q, e) = r BY <1>2 DEF Removed
    <2> HIDE DEF i
    <2>3. /\ r \in Seq(S) /\ Len(r) = Len(q) - 1
          /\ \A j \in DOMAIN r : r[j] = q[IF j < i THEN j ELSE j + 1]
          /\ \A j \in DOMAIN q : j # i => /\ (IF j < i THEN j ELSE j - 1) \in DOMAIN r
                                          /\ r[IF j < i THEN j ELSE j - 1] = q[j]
      BY <2>1, RemovedAtIs
    <2> HIDE DEF r
    <2>4. DOMAIN r = 1..(Len(q) - 1) /\ DOMAIN q = 1..Len(q) /\ Len(q) \in Nat
      BY <2>3, LenProperties
    <2>5. \A j \in DOMAIN r : /\ (IF j < i THEN j ELSE j + 1) \in DOMAIN q
                              /\ (IF j < i THEN j ELSE j + 1) # i
      BY <2>1, <2>4
    <2>6. IsInjective(r)
      <3> SUFFICES ASSUME NEW a \in DOMAIN r, NEW b \in DOMAIN r, r[a] = r[b] PROVE a = b
        BY DEF IsInjective
      <3>1. (IF a < i THEN a ELSE a + 1) = (IF b < i THEN b ELSE b + 1)
        BY <2>3, <2>5 DEF IsInjective
      <3> QED BY <3>1, <2>1, <2>4
    <2>7. \A j \in DOMAIN r : r[j] \in Range(q) \ {e}
      BY <2>1, <2>3, <2>5 DEF IsInjective, Range
    <2>8. Range(r) \subseteq Range(q) \ {e} BY <2>7 DEF Range
    <2>9. ASSUME NEW x \in Range(q) \ {e} PROVE x \in Range(r)
      <3>1. PICK j \in DOMAIN q : q[j] = x BY DEF Range
      <3>2. j # i BY <2>1, <3>1
      <3> QED BY <2>3, <3>1, <3>2 DEF Range
    <2> QED BY <2>2, <2>3, <2>6, <2>8, <2>9
  <1> QED BY <1>1, <1>2

LEMMA AddedIs ==
  ASSUME NEW S, NEW q \in Seq(S), IsInjective(q), NEW e \in S, e \notin Range(q)
  PROVE  /\ IsInjective(Append(q, e)) /\ Range(Append(q, e)) = Range(q) \cup {e}
  <1> DEFINE r == Append(q, e)
  <1>1. /\ Len(q) \in Nat /\ DOMAIN q = 1..Len(q) /\ DOMAIN r = 1..(Len(q) + 1)
        /\ \A i \in 1..Len(q) : r[i] = q[i]
        /\ r[Len(q) + 1] = e
    BY AppendIs
  <1> HIDE DEF r
  <1>2. \A i \in 1..Len(q) : q[i] # e BY <1>1 DEF Range
  <1>3. IsInjective(r) BY <1>1, <1>2 DEF IsInjective
  <1>4. Range(r) = Range(q) \cup {e}
    BY <1>1 DEF Range
  <1> QED BY <1>3, <1>4 DEF r

-----------------------------------------------------------------------------
(* AppWake: the observer's state, on disk, in memory and on its way.       *)

Places == {"idle", "admit", "answer", "pruning", "recording", "release", "post", "turn"}

Lanes(cf) == [at : Places, plan : SUBSET Wake(cf)!Report,
              batch : Wake(cf)!Batch \cup {Wake(cf)!NoBatch},
              kept : SUBSET Wake(cf)!Report, dead : SUBSET Wake(cf)!Report]

Txs(cf) == [value : Wake(cf)!Observed, who : {"scan", "prune", "record", "none"},
            put : BOOLEAN]

WakeTypes(cf) ==
    /\ rows \in 0..cf.Reports /\ off \subseteq Wake(cf)!Report
    /\ st \in Wake(cf)!Observed /\ saved \in Wake(cf)!Observed
    /\ txs \in Seq(Txs(cf))
    /\ owner \in [Wake(cf)!Report ->
                    Wake(cf)!Batch \cup {Wake(cf)!Free, Wake(cf)!Other, Wake(cf)!Gone}]
    /\ state \in [Wake(cf)!Batch -> {"none", "reserved", "released", "running", "terminal"}]
    /\ lane \in Lanes(cf)

\* The states the observer has, had written, or is writing.
Held == {st, saved} \cup {txs[i].value : i \in DOMAIN txs}

\* The lane waits for at most one write, and is where it waits for it; what it
\* does after that is for a batch.
Waits(who) == CASE who = "prune" -> "pruning" [] who = "record" -> "recording"
                [] OTHER -> "elsewhere"
LaneWrites(cf) ==
    /\ \A i \in DOMAIN txs : txs[i].who \in {"prune", "record"} =>
          /\ lane.at = Waits(txs[i].who)
          /\ \A j \in DOMAIN txs : txs[j].who \in {"prune", "record"} => i = j
    /\ lane.at \in {"recording", "release", "post", "turn"} => lane.batch # Wake(cf)!NoBatch
    /\ lane.at \in {"idle", "admit"} => lane.batch = Wake(cf)!NoBatch
    /\ lane.batch # Wake(cf)!NoBatch => state[lane.batch] # "none"

\* No state holds a batch that is not admitted, nor the batch of the lane
\* before it is recorded.
Ahead(b) ==
    state[b] = "none" \/ (b = lane.batch /\ lane.at \in {"answer", "pruning", "release"})
BatchFacts(cf) ==
    \A v \in Held : \A b \in Wake(cf)!Batch : Ahead(b) => v.batches[b] = "none"

\* Without the user at the editor, what the lane gives back was never taken.
QueueFacts(cf) ==
    /\ typing = FALSE /\ "typing" \in DOMAIN budget /\ budget.typing = 0
    /\ \A v \in Held : /\ \A r \in v.queued : r > v.cutoff
                       /\ ~v.armed => v = Wake(cf)!Null

NewInv(cf) == WakeTypes(cf) /\ LaneWrites(cf) /\ BatchFacts(cf) /\ QueueFacts(cf)

\* The ledger has an owner for what the observer ignores, and it is not the
\* batch the lane may still hand back.
OwnedFacts(cf) ==
    /\ \A b \in Wake(cf)!Batch : state[b] = "none" => \A r \in Wake(cf)!Report : owner[r] # b
    /\ \A v \in Held : \A r \in v.ignored : owner[r] \notin {Wake(cf)!Free, lane.batch}
    /\ \A r \in lane.dead : owner[r] \notin {Wake(cf)!Free, lane.batch}

OwnedInv(cf) == WakeTypes(cf) /\ LaneWrites(cf) /\ OwnedFacts(cf)

LEMMA WakeImplies ==
  ASSUME NEW cf
  PROVE  /\ WakeTypes(cf) => Wake(cf)!TypeOK
         /\ NewInv(cf) => Wake(cf)!QueueAfterCutoff
         /\ OwnedInv(cf) => Wake(cf)!IgnoredIsOwned
  <1>1. ASSUME WakeTypes(cf) PROVE Wake(cf)!TypeOK
    <2>1. \A i \in DOMAIN txs : txs[i] \in Txs(cf) BY <1>1, ElementOfSeq, LenProperties DEF WakeTypes
    <2>2. \A i \in DOMAIN txs : txs[i].value \in Wake(cf)!Observed BY <2>1 DEF Txs
    <2> QED BY <1>1, <2>2 DEF WakeTypes, Lanes, Wake!TypeOK
  <1>2. ASSUME NewInv(cf) PROVE Wake(cf)!QueueAfterCutoff
    BY <1>2 DEF NewInv, QueueFacts, Held, Wake!QueueAfterCutoff
  <1>3. ASSUME OwnedInv(cf) PROVE Wake(cf)!IgnoredIsOwned
    BY <1>3 DEF OwnedInv, OwnedFacts, Held, Wake!IgnoredIsOwned
  <1> QED BY <1>1, <1>2, <1>3

LEMMA WakeStarts ==
  ASSUME NEW cf, Wake(cf)!AppWakeAssumption, Wake(cf)!Init
  PROVE  /\ cf.MaxTyping = 0 => NewInv(cf)
         /\ OwnedInv(cf)
  <1> USE DEF Wake!Init, Wake!Null, Wake!Resting, Wake!Report, Wake!Batch, Wake!Free,
              Wake!Other, Wake!Gone, Wake!NoBatch
  <1>1. txs = <<>> /\ txs \in Seq(Txs(cf)) /\ DOMAIN txs = {} BY EmptySeq
  <1>2. Wake(cf)!Null \in Wake(cf)!Observed
    BY DEF Wake!Observed, Wake!AppWakeAssumption
  <1>3. Wake(cf)!Resting \in Lanes(cf) BY DEF Lanes, Places
  <1>4. WakeTypes(cf)
    BY <1>1, <1>2, <1>3 DEF WakeTypes, Wake!AppWakeAssumption
  <1>5. Held = {Wake(cf)!Null} BY <1>1 DEF Held
  <1>6. LaneWrites(cf)
    BY <1>1 DEF LaneWrites
  <1>7. BatchFacts(cf)
    <2>1. \A b \in Wake(cf)!Batch : Wake(cf)!Null.batches[b] = "none" OBVIOUS
    <2> QED BY ONLY <2>1, <1>5 DEF BatchFacts
  <1>8. cf.MaxTyping = 0 => QueueFacts(cf) BY <1>5 DEF QueueFacts
  <1>9. OwnedFacts(cf) BY <1>5 DEF OwnedFacts
  <1> QED BY <1>4, <1>6, <1>7, <1>8, <1>9 DEF NewInv, OwnedInv

\* What a step asks of the store, behind the writes in q.
Clear(q) == \A i \in DOMAIN q : q[i].who \notin {"prune", "record"}
Puts(cf, q) ==
    \/ txs' = q /\ (lane'.at = lane.at \/ Clear(q))
    \/ \E who \in {"scan", "none"} :
          txs' = Append(q, Wake(cf)!Asked(st', who)) /\ (lane'.at = lane.at \/ Clear(q))
    \/ \E who \in {"prune", "record"} :
          /\ txs' = Append(q, Wake(cf)!Asked(st', who))
          /\ Clear(q) /\ lane'.at = Waits(who)

\* What a step makes of the observer's state.
Observes(cf) ==
    \/ st' = st \/ st' = Wake(cf)!Null \/ st' = Wake(cf)!FreshArmed
    \/ \E page \in SUBSET (1..rows), mixed \in BOOLEAN :
          st' = Wake(cf)!Scanned(page, mixed) /\ (saved.armed \/ st.armed)
    \/ st' = Wake(cf)!Pruned(st) /\ st.armed /\ lane.at = "answer"
    \/ /\ st' = Wake(cf)!Recorded(st) /\ st.armed /\ lane.batch # Wake(cf)!NoBatch
       /\ lane'.at = "recording" /\ lane'.batch = lane.batch /\ state' = state
    \/ st' = Wake(cf)!Abandoned(st) /\ st.armed /\ lane.at = "release"
    \/ \E x \in {"accepted", "terminal"} :
          /\ st' = [st EXCEPT !.batches[lane.batch] = x]
          /\ st.batches[lane.batch] \in {"dispatched", "accepted"}
          /\ lane.at \in {"post", "turn"}

LEMMA RecordMoves ==
  ASSUME NEW cf, NEW q, WakeTypes(cf), Clear(q), Wake(cf)!Record(q), UNCHANGED <<saved, state, owner>>
  PROVE  /\ Puts(cf, q) /\ Observes(cf)
         /\ \/ lane' = Wake(cf)!Resting
            \/ /\ lane.batch # Wake(cf)!NoBatch
               /\ lane' = [lane EXCEPT !.at = "recording"] \/ lane' = [lane EXCEPT !.at = "release"]
  <1>0. lane \in Lanes(cf) BY DEF WakeTypes
  <1>1. CASE lane.batch = Wake(cf)!NoBatch
    BY <1>1 DEF Wake!Record, Wake!LaneEnds, Puts, Observes
  <1>2. CASE lane.batch # Wake(cf)!NoBatch /\ st.armed
    BY <1>2, <1>0 DEF Wake!Record, Lanes, Puts, Waits, Observes
  <1>3. CASE lane.batch # Wake(cf)!NoBatch /\ ~st.armed
    BY <1>3 DEF Wake!Record, Puts, Observes
  <1> QED BY <1>1, <1>2, <1>3

LEMMA ScanMoves ==
  ASSUME NEW cf, WakeTypes(cf), NEW mixed \in BOOLEAN, NEW latest \in BOOLEAN,
         Wake(cf)!Scan(1..rows, mixed, latest), UNCHANGED lane
  PROVE  Puts(cf, txs) /\ Observes(cf)
  <1>0. 1..rows \in SUBSET (1..rows) OBVIOUS
  <1>1. CASE ~on /\ st.armed
    BY <1>1 DEF Wake!Scan, Puts, Observes
  <1>2. CASE on /\ ~saved.armed /\ ~st.armed /\ latest
    BY <1>2 DEF Wake!Scan, Puts, Observes
  <1>3. CASE on /\ (saved.armed \/ st.armed)
    BY <1>3, <1>0 DEF Wake!Scan, Puts, Observes
  <1>4. CASE ~(~on /\ st.armed) /\ ~(on /\ ~saved.armed /\ ~st.armed /\ latest)
             /\ ~(on /\ (saved.armed \/ st.armed))
    BY <1>4 DEF Wake!Scan, Puts, Observes
  <1> QED BY <1>1, <1>2, <1>3, <1>4

\* Every step of the queue writes what it made of the state, or nothing.
LEMMA WakeMoves ==
  ASSUME NEW cf, WakeTypes(cf), LaneWrites(cf), [Wake(cf)!Next]_(Wake(cf)!vars)
  PROVE  /\ Observes(cf)
         /\ \/ saved' = saved /\ (Puts(cf, txs) \/ (txs # <<>> /\ Puts(cf, Tail(txs)))
                                   \/ txs' = <<>>)
            \/ /\ txs # <<>> /\ saved' = Head(txs).value /\ lane' = lane /\ st' = st
               /\ txs' = <<[Head(txs) EXCEPT !.put = TRUE]>> \o Tail(txs)
  <1> DEFINE Waiting == Wake(cf)!TxPut \/ Wake(cf)!TxDone
  <1>0. lane \in Lanes(cf) /\ txs \in Seq(Txs(cf)) BY DEF WakeTypes
  <1>1. ASSUME lane.at \notin {"pruning", "recording"} PROVE Clear(txs)
    BY <1>1 DEF LaneWrites, Clear, Waits
  <1>2. CASE Wake(cf)!Arrive \/ Wake(cf)!Switch \/ Wake(cf)!OtherClaims
             \/ Wake(cf)!OtherEnds \/ Wake(cf)!Type
    BY <1>2 DEF Wake!Arrive, Wake!Switch, Wake!OtherClaims, Wake!OtherEnds, Wake!Type, Puts, Observes
  <1>3. CASE Wake(cf)!Reopen BY <1>3 DEF Wake!Reopen, Observes
  <1>4. ASSUME NEW mixed \in BOOLEAN, Wake(cf)!Commit(mixed)
        PROVE  Observes(cf) /\ saved' = saved /\ Puts(cf, txs)
    <2>1. CASE scan.running
      BY <1>4, <2>1 DEF Wake!Commit, Puts, Observes
    <2>2. CASE ~scan.running
      BY <1>4, <2>2, ScanMoves DEF Wake!Commit
    <2> QED BY <2>1, <2>2
  <1>5. CASE Wake(cf)!TimerFires
    BY <1>5, <1>1 DEF Wake!TimerFires, Puts, Observes
  <1>6. CASE Wake(cf)!Admit
    BY <1>6, <1>1 DEF Wake!Admit, Puts, Observes
  <1>7. CASE Wake(cf)!Answer
    <2>1. lane.at = "answer" /\ saved' = saved /\ UNCHANGED <<state, owner>>
      BY <1>7 DEF Wake!Answer
    <2>2. Clear(txs) BY <2>1, <1>1
    <2>3. CASE st.armed /\ lane.dead \cap st.queued # {}
      BY <1>7, <2>3, <1>0, <2>1, <2>2 DEF Wake!Answer, Lanes, Puts, Observes, Waits
    <2>4. CASE ~(st.armed /\ lane.dead \cap st.queued # {})
      BY <1>7, <2>4, <2>1, <2>2, RecordMoves DEF Wake!Answer
    <2> QED BY <2>3, <2>4
  <1>8. CASE Wake(cf)!Release
    <2>1. lane.at = "release" /\ saved' = saved BY <1>8 DEF Wake!Release
    <2>2. CASE st.armed
      BY <1>8, <2>2, <2>1, <1>1 DEF Wake!Release, Puts, Observes
    <2>3. CASE ~st.armed
      BY <1>8, <2>1, <2>3, <1>1 DEF Wake!Release, Puts, Observes
    <2> QED BY <2>2, <2>3
  <1>9. CASE Wake(cf)!Post
    <2>1. lane.at = "post" /\ saved' = saved BY <1>9 DEF Wake!Post
    <2>2. CASE st.batches[lane.batch] = "dispatched"
      BY <1>9, <2>2, <2>1, <1>1 DEF Wake!Post, Puts, Observes
    <2>3. CASE st.batches[lane.batch] # "dispatched"
      BY <1>9, <2>1, <2>3, <1>1 DEF Wake!Post, Puts, Observes
    <2> QED BY <2>2, <2>3
  <1>10. CASE Wake(cf)!TurnEnds
    <2>1. lane.at = "turn" /\ saved' = saved BY <1>10 DEF Wake!TurnEnds
    <2>2. CASE st.batches[lane.batch] \in {"dispatched", "accepted"}
      BY <1>10, <2>2, <2>1, <1>1 DEF Wake!TurnEnds, Puts, Observes
    <2>3. CASE st.batches[lane.batch] \notin {"dispatched", "accepted"}
      BY <1>10, <2>1, <2>3, <1>1 DEF Wake!TurnEnds, Puts, Observes
    <2> QED BY <2>2, <2>3
  <1>11. CASE Wake(cf)!TxPut BY <1>11 DEF Wake!TxPut, Observes
  <1>12. CASE Wake(cf)!TxDone
    <2> DEFINE w == Head(txs).who
    <2>1. txs # <<>> /\ saved' = saved /\ UNCHANGED <<state, owner>>
      BY <1>12 DEF Wake!TxDone
    <2>2. w \in {"scan", "prune", "record", "none"}
      <3>1. Head(txs) \in Txs(cf) BY <2>1, <1>0, HeadTailIs
      <3> QED BY ONLY <3>1 DEF Txs
    <2>3. w \in {"prune", "record"} => Clear(Tail(txs)) /\ lane.at = Waits(w)
      BY <2>1, <1>0, HeadTailIs DEF LaneWrites, Clear
    <2>4. CASE w = "scan"
      <3>0. Wake(cf)!ScanReturns BY <1>12, <2>4 DEF Wake!TxDone
      <3>1. lane' = lane BY <3>0 DEF Wake!ScanReturns
      <3>2. CASE scan.dirty /\ on /\ (saved.armed \/ st.armed)
        BY <3>0, <3>2, <2>1, <3>1 DEF Wake!ScanReturns, Puts, Observes
      <3>3. CASE scan.dirty /\ ~on /\ st.armed
        BY <3>0, <3>3, <2>1, <3>1 DEF Wake!ScanReturns, Puts, Observes
      <3>4. CASE ~scan.dirty \/ (~(on /\ (saved.armed \/ st.armed)) /\ ~(~on /\ st.armed))
        BY <3>0, <3>4, <2>1, <3>1 DEF Wake!ScanReturns, Puts, Observes
      <3> QED BY <3>2, <3>3, <3>4
    <2>5. CASE w = "prune"
      BY <1>12, <2>5, <2>1, <2>3, RecordMoves DEF Wake!TxDone, Wake!PruneReturns
    <2>6. CASE w = "record"
      BY <1>12, <2>6, <2>1, <2>3 DEF Wake!TxDone, Wake!RecordReturns, Puts, Observes
    <2>7. CASE w = "none"
      BY <1>12, <2>7, <2>1 DEF Wake!TxDone, Puts, Observes
    <2> QED BY <2>2, <2>4, <2>5, <2>6, <2>7
  <1>13. CASE UNCHANGED Wake(cf)!vars BY <1>13 DEF Wake!vars, Puts, Observes
  <1> QED
    BY <1>2, <1>3, <1>4, <1>5, <1>6, <1>7, <1>8, <1>9, <1>10, <1>11, <1>12, <1>13
    DEF Wake!Next

\* What is held after a step was held before, or is the state now.
LEMMA HeldMoves ==
  ASSUME NEW cf, WakeTypes(cf), LaneWrites(cf), [Wake(cf)!Next]_(Wake(cf)!vars),
         st' \in Wake(cf)!Observed
  PROVE  /\ txs' \in Seq(Txs(cf))
         /\ \A v \in Held' : v \in Held \/ v = st'
         /\ \A i \in DOMAIN txs' : txs'[i].who \in {"prune", "record"} =>
               /\ lane'.at = Waits(txs'[i].who)
               /\ \A j \in DOMAIN txs' : txs'[j].who \in {"prune", "record"} => i = j
  <1> DEFINE Stacked(q) == /\ q \in Seq(Txs(cf)) /\ \A i \in DOMAIN q : q[i].value \in Held
                           /\ \A i \in DOMAIN q : q[i].who \in {"prune", "record"} =>
                                 /\ lane.at = Waits(q[i].who)
                                 /\ \A j \in DOMAIN q : q[j].who \in {"prune", "record"} => i = j
             Kept == /\ txs' \in Seq(Txs(cf)) /\ \A i \in DOMAIN txs' : txs'[i].value \in Held \cup {st'}
                     /\ \A i \in DOMAIN txs' : txs'[i].who \in {"prune", "record"} =>
                           /\ lane'.at = Waits(txs'[i].who)
                           /\ \A j \in DOMAIN txs' : txs'[j].who \in {"prune", "record"} => i = j
  <1>1. Stacked(txs) BY DEF WakeTypes, LaneWrites, Held
  <1>2. ASSUME txs # <<>> PROVE Stacked(Tail(txs)) /\ Head(txs).value \in Held
    BY <1>1, <1>2, HeadTailIs DEF Held
  <1>3. ASSUME NEW q, Stacked(q), Puts(cf, q) PROVE Kept
    <2>1. CASE txs' = q /\ (lane'.at = lane.at \/ Clear(q)) BY <1>3, <2>1 DEF Clear
    <2>2. ASSUME NEW who \in {"scan", "none", "prune", "record"},
                 txs' = Append(q, Wake(cf)!Asked(st', who)),
                 \/ who \notin {"prune", "record"} /\ (lane'.at = lane.at \/ Clear(q))
                 \/ Clear(q) /\ lane'.at = Waits(who)
          PROVE  Kept
      <3> DEFINE e == Wake(cf)!Asked(st', who)
      <3>1. e \in Txs(cf) /\ e.who = who /\ e.value = st' BY DEF Wake!Asked, Txs
      <3> HIDE DEF e
      <3>2. /\ txs' \in Seq(Txs(cf)) /\ Len(q) \in Nat
            /\ DOMAIN q = 1..Len(q) /\ DOMAIN txs' = 1..(Len(q) + 1)
            /\ \A i \in 1..Len(q) : txs'[i] = q[i]
            /\ txs'[Len(q) + 1] = e
        BY <1>3, <2>2, <3>1, AppendIs DEF e
      <3>3. \A i \in DOMAIN txs' : i = Len(q) + 1 \/ i \in DOMAIN q BY <3>2
      <3> QED BY <1>3, <2>2, <3>1, <3>2, <3>3 DEF Clear
    <2> QED BY <1>3, <2>1, <2>2 DEF Puts
  <1>4. ASSUME txs # <<>>, txs' = <<[Head(txs) EXCEPT !.put = TRUE]>> \o Tail(txs),
               lane' = lane
        PROVE  Kept
    <2> DEFINE e == [Head(txs) EXCEPT !.put = TRUE]
    <2>0. Head(txs) \in Txs(cf) /\ Head(txs) = txs[1] BY <1>1, <1>4, HeadTailIs
    <2>1. e \in Txs(cf) /\ e.who = txs[1].who /\ e.value = txs[1].value
      BY ONLY <2>0 DEF Txs
    <2> HIDE DEF e
    <2>2. /\ txs' \in Seq(Txs(cf)) /\ DOMAIN txs' = DOMAIN txs /\ txs'[1] = e
          /\ \A i \in DOMAIN txs : i # 1 => txs'[i] = txs[i]
      BY <1>4, <2>1, <1>1, HeadTailIs, ConcatProperties, LenProperties DEF e
    <2> QED BY <1>1, <1>4, <2>1, <2>2
  <1>5. Kept
    <2>1. CASE txs' = <<>>
      BY <2>1, EmptySeq
    <2> QED BY <1>1, <1>2, <1>3, <1>4, <2>1, WakeMoves
  <1>6. st' \in Held' /\ saved' \in Held BY <1>2, WakeMoves DEF Held
  <1> QED BY <1>5, <1>6 DEF Held

\* Every state of the observer is of its type.
LEMMA ObservedKept ==
  ASSUME NEW cf, WakeTypes(cf), LaneWrites(cf), Wake(cf)!AppWakeAssumption,
         [Wake(cf)!Next]_(Wake(cf)!vars)
  PROVE  st' \in Wake(cf)!Observed
  <1> USE DEF Wake!Report, Wake!Batch, Wake!NoBatch
  <1>1. /\ cf.Reports \in Nat /\ rows \in 0..cf.Reports /\ st \in Wake(cf)!Observed
        /\ saved \in Wake(cf)!Observed /\ lane \in Lanes(cf)
    BY DEF WakeTypes, Wake!AppWakeAssumption
  <1>2. Observes(cf) BY WakeMoves
  <1>3. Wake(cf)!Null \in Wake(cf)!Observed BY <1>1 DEF Wake!Null, Wake!Observed
  <1>4. ASSUME NEW s \in Wake(cf)!Observed, NEW q \in SUBSET Wake(cf)!Report,
               NEW i \in SUBSET Wake(cf)!Report, NEW m \in BOOLEAN
        PROVE  /\ [s EXCEPT !.queued = q, !.uncertain = m] \in Wake(cf)!Observed
               /\ [s EXCEPT !.queued = q, !.ignored = i] \in Wake(cf)!Observed
    BY DEF Wake!Observed
  <1>5. ASSUME NEW s \in Wake(cf)!Observed, NEW q \in SUBSET Wake(cf)!Report, NEW b,
               NEW x \in {"none", "dispatched", "accepted", "terminal"}
        PROVE  /\ [s EXCEPT !.queued = q, !.batches[b] = x] \in Wake(cf)!Observed
               /\ [s EXCEPT !.batches[b] = x, !.queued = q] \in Wake(cf)!Observed
               /\ [s EXCEPT !.batches[b] = x] \in Wake(cf)!Observed
    BY DEF Wake!Observed
  <1>6. st.queued \in SUBSET Wake(cf)!Report /\ saved.queued \in SUBSET Wake(cf)!Report
        /\ st.ignored \in SUBSET Wake(cf)!Report
        /\ lane.plan \in SUBSET Wake(cf)!Report /\ lane.dead \in SUBSET Wake(cf)!Report
    BY <1>1 DEF Wake!Observed, Lanes
  <1>7. ASSUME st' = Wake(cf)!FreshArmed PROVE st' \in Wake(cf)!Observed
    BY <1>1, <1>7 DEF Wake!FreshArmed, Wake!Null, Wake!Observed
  <1>8. ASSUME NEW page \in SUBSET (1..rows), NEW mixed \in BOOLEAN,
               st' = Wake(cf)!Scanned(page, mixed)
        PROVE  st' \in Wake(cf)!Observed
    <2> DEFINE s == IF saved.armed THEN saved ELSE st
               q == s.queued \cup Wake(cf)!Found(s, page)
    <2>1. st' = [s EXCEPT !.queued = q, !.uncertain = mixed] BY <1>8 DEF Wake!Scanned
    <2>2. s \in Wake(cf)!Observed BY <1>1
    <2>3. q \in SUBSET Wake(cf)!Report
      <3>1. page \in SUBSET Wake(cf)!Report BY <1>1
      <3>2. Wake(cf)!Found(s, page) \subseteq page BY DEF Wake!Found
      <3> QED BY <1>6, <3>1, <3>2
    <2> HIDE DEF s, q
    <2> QED BY <2>1, <2>2, <2>3, <1>4
  <1>9. ASSUME st' = Wake(cf)!Pruned(st) PROVE st' \in Wake(cf)!Observed
    <2> DEFINE g == lane.dead \cap st.queued
    <2>1. st' = [st EXCEPT !.queued = st.queued \ g, !.ignored = st.ignored \cup g]
      BY <1>9 DEF Wake!Pruned
    <2>2. st.queued \ g \in SUBSET Wake(cf)!Report /\ st.ignored \cup g \in SUBSET Wake(cf)!Report
      BY <1>6
    <2> QED BY <2>1, <2>2, <1>1, <1>4
  <1>10. ASSUME st' = Wake(cf)!Recorded(st) PROVE st' \in Wake(cf)!Observed
    BY <1>1, <1>5, <1>6, <1>10 DEF Wake!Recorded
  <1>11. ASSUME st' = Wake(cf)!Abandoned(st) PROVE st' \in Wake(cf)!Observed
    <2> DEFINE q == st.queued \cup (IF st.batches[lane.batch] = "none" THEN {} ELSE lane.plan)
    <2>1. st' = [st EXCEPT !.batches[lane.batch] = "none", !.queued = q]
      BY <1>11 DEF Wake!Abandoned
    <2>2. q \in SUBSET Wake(cf)!Report BY <1>6
    <2> HIDE DEF q
    <2> QED BY <2>1, <2>2, <1>1, <1>5
  <1>12. ASSUME NEW x \in {"accepted", "terminal"},
                st' = [st EXCEPT !.batches[lane.batch] = x]
         PROVE  st' \in Wake(cf)!Observed
    BY <1>1, <1>5, <1>6, <1>12
  <1> QED
    BY ONLY <1>1, <1>2, <1>3, <1>7, <1>8, <1>9, <1>10, <1>11, <1>12 DEF Observes

\* What is outside the observer is of its type.
LEMMA WakeTypesKept ==
  ASSUME NEW cf, WakeTypes(cf), LaneWrites(cf), Wake(cf)!AppWakeAssumption,
         [Wake(cf)!Next]_(Wake(cf)!vars)
  PROVE  WakeTypes(cf)'
  <1> USE DEF Wake!Report, Wake!Batch, Wake!NoBatch, Wake!Free, Wake!Other, Wake!Gone
  <1>0. st' \in Wake(cf)!Observed BY ObservedKept
  <1>1. txs' \in Seq(Txs(cf)) BY <1>0, HeldMoves
  <1>2. saved' \in Wake(cf)!Observed
    <2>1. txs # <<>> => Head(txs).value \in Wake(cf)!Observed
      <3>1. txs # <<>> => Head(txs) \in Txs(cf) BY HeadTailIs DEF WakeTypes
      <3> QED BY <3>1 DEF Txs
    <2> QED BY <2>1, WakeMoves DEF WakeTypes
  <1>3. /\ rows \in 0..cf.Reports /\ off \in SUBSET (1..cf.Reports) /\ cf.Reports \in Nat
        /\ lane \in Lanes(cf)
        /\ owner \in [1..cf.Reports -> 1..cf.MaxBatches \cup {0, 0 - 1, 0 - 2}]
        /\ state \in [1..cf.MaxBatches -> {"none", "reserved", "released", "running", "terminal"}]
    BY DEF WakeTypes, Wake!AppWakeAssumption
  <1>4. Wake(cf)!Resting \in Lanes(cf) BY DEF Wake!Resting, Lanes, Places
  <1>5. \A at \in Places : [lane EXCEPT !.at = at] \in Lanes(cf) BY <1>3 DEF Lanes
  <1> DEFINE Around == /\ rows' \in 0..cf.Reports /\ off' \in SUBSET (1..cf.Reports)
             Ledger == /\ owner' \in [1..cf.Reports -> 1..cf.MaxBatches \cup {0, 0 - 1, 0 - 2}]
                       /\ state' \in [1..cf.MaxBatches ->
                                        {"none", "reserved", "released", "running", "terminal"}]
                       /\ lane' \in Lanes(cf)
  <1>6. Around
    <2>1. CASE Wake(cf)!Arrive BY <1>3, <2>1 DEF Wake!Arrive
    <2>2. CASE ~Wake(cf)!Arrive
      BY <2>2, <1>3 DEF Wake!Next, Wake!vars, Wake!env, Wake!Switch, Wake!Type, Wake!Reopen,
         Wake!OtherClaims, Wake!OtherEnds, Wake!Commit, Wake!TimerFires, Wake!Admit, Wake!Answer,
         Wake!Release, Wake!Post, Wake!TurnEnds, Wake!TxPut, Wake!TxDone
    <2> QED BY <2>1, <2>2
  <1>7. Ledger
    <2>1. CASE Wake(cf)!Arrive \/ Wake(cf)!Switch \/ Wake(cf)!Type \/ Wake(cf)!TxPut
               \/ (\E mixed \in BOOLEAN : Wake(cf)!Commit(mixed)) \/ UNCHANGED Wake(cf)!vars
      BY <2>1, <1>3 DEF Wake!Arrive, Wake!Switch, Wake!Type, Wake!TxPut, Wake!Commit, Wake!vars
    <2>2. CASE Wake(cf)!OtherClaims
      BY <1>3, <2>2 DEF Wake!OtherClaims
    <2>3. CASE Wake(cf)!OtherEnds
      BY <1>3, <2>3 DEF Wake!OtherEnds
    <2>4. CASE Wake(cf)!Reopen BY <1>3, <1>4, <2>4 DEF Wake!Reopen
    <2>5. CASE Wake(cf)!TimerFires
      BY <1>3, <2>5 DEF WakeTypes, Wake!Oldest, Wake!Observed, Wake!Resting, Lanes, Places,
         Wake!TimerFires
    <2>6. CASE Wake(cf)!Admit
      <3>1. PICK late \in {{}} \cup {{r} : r \in {x \in lane.plan : owner[x] = 0}} :
              LET dead0 == {r \in lane.plan : owner[r] # 0}
                  claims == lane.plan \ (dead0 \cup late)
              IN  \/ /\ lane' = [lane EXCEPT !.at = "answer", !.kept = late, !.dead = dead0]
                     /\ UNCHANGED <<owner, state>>
                  \/ \E b \in 1..cf.MaxBatches :
                        /\ lane' = [lane EXCEPT !.at = "answer", !.batch = b,
                                                !.kept = late, !.dead = dead0]
                        /\ owner' = [r \in 1..cf.Reports |-> IF r \in claims THEN b ELSE owner[r]]
                        /\ state' = [state EXCEPT ![b] = "reserved"]
        BY <2>6 DEF Wake!Admit
      <3> DEFINE dead0 == {r \in lane.plan : owner[r] # 0}
                 claims == lane.plan \ (dead0 \cup late)
      <3>2. late \in SUBSET (1..cf.Reports) /\ dead0 \in SUBSET (1..cf.Reports)
        BY <1>3 DEF Lanes
      <3> HIDE DEF dead0
      <3>3. [lane EXCEPT !.at = "answer", !.kept = late, !.dead = dead0] \in Lanes(cf)
        BY <1>3, <3>2 DEF Lanes, Places
      <3>4. \A b \in 1..cf.MaxBatches :
              [lane EXCEPT !.at = "answer", !.batch = b, !.kept = late, !.dead = dead0] \in Lanes(cf)
        BY <1>3, <3>2 DEF Lanes, Places
      <3>5. CASE /\ lane' = [lane EXCEPT !.at = "answer", !.kept = late, !.dead = dead0]
                 /\ UNCHANGED <<owner, state>>
        BY <1>3, <3>3, <3>5
      <3>6. ASSUME NEW b \in 1..cf.MaxBatches,
                   lane' = [lane EXCEPT !.at = "answer", !.batch = b, !.kept = late, !.dead = dead0],
                   owner' = [r \in 1..cf.Reports |-> IF r \in claims THEN b ELSE owner[r]],
                   state' = [state EXCEPT ![b] = "reserved"]
            PROVE  Ledger
        <4>1. lane' \in Lanes(cf) BY <3>4, <3>6
        <4> HIDE DEF claims
        <4>2. owner' \in [1..cf.Reports -> 1..cf.MaxBatches \cup {0, 0 - 1, 0 - 2}]
          BY ONLY <1>3, <3>6
        <4> QED BY <1>3, <3>6, <4>1, <4>2
      <3> QED BY <3>1, <3>5, <3>6 DEF dead0
    <2>7. CASE Wake(cf)!Answer
      <3>1. UNCHANGED <<owner, state, saved>> BY <2>7 DEF Wake!Answer
      <3>2. CASE st.armed /\ lane.dead \cap st.queued # {}
        BY <1>3, <1>5, <2>7, <3>1, <3>2 DEF Wake!Answer, Places
      <3>3. CASE ~(st.armed /\ lane.dead \cap st.queued # {})
        BY <2>7, <3>3, <1>3, <1>4, <1>5, <3>1 DEF Wake!Answer, Wake!Record, Wake!LaneEnds, Places
      <3> QED BY <3>2, <3>3
    <2>8. CASE Wake(cf)!Release
      BY <1>3, <1>4, <2>8 DEF Wake!Release
    <2>9. CASE Wake(cf)!Post
      BY <1>3, <1>5, <2>9 DEF Wake!Post, Places
    <2>10. CASE Wake(cf)!TurnEnds
      BY <1>3, <1>4, <2>10 DEF Wake!TurnEnds, Wake!LaneEnds
    <2>11. CASE Wake(cf)!TxDone
      BY <2>11, <1>3, <1>4, <1>5 DEF Wake!TxDone, Wake!ScanReturns, Wake!PruneReturns,
         Wake!RecordReturns, Wake!Record, Wake!LaneEnds, Places
    <2> QED
      BY <2>1, <2>2, <2>3, <2>4, <2>5, <2>6, <2>7, <2>8, <2>9, <2>10, <2>11 DEF Wake!Next
  <1> QED BY <1>0, <1>1, <1>2, <1>6, <1>7 DEF WakeTypes

\* The lane step by step: it rests, plans, has its answer, or goes on with the
\* batch it has.
Admitted(cf) == \A b \in Wake(cf)!Batch : state'[b] = "none" => state[b] = "none"
Answers(cf) ==
    /\ lane.at = "admit" /\ lane'.at = "answer"
    /\ lane'.dead = {r \in lane.plan : owner[r] # Wake(cf)!Free}
    /\ \/ lane'.batch = lane.batch /\ UNCHANGED <<owner, state>>
       \/ \E b \in Wake(cf)!Batch, claims \in SUBSET Wake(cf)!Report :
             /\ state[b] = "none" /\ lane'.batch = b
             /\ claims \cap lane'.dead = {}
             /\ \A r \in claims : owner[r] = Wake(cf)!Free
             /\ owner' = [r \in Wake(cf)!Report |-> IF r \in claims THEN b ELSE owner[r]]
             /\ state' = [state EXCEPT ![b] = "reserved"]
GoesOn(cf) ==
    \E at \in {"pruning", "recording", "release", "post", "turn"} :
        /\ lane' = [lane EXCEPT !.at = at] /\ owner' = owner /\ Admitted(cf)
        /\ at = "pruning" => lane.at = "answer"
        /\ at # "pruning" => lane.batch # Wake(cf)!NoBatch
        /\ at = "release" => lane.at \in {"answer", "pruning"} \/ typing
Frees(cf) ==
    \/ owner' = owner
    \/ lane.at = "release" /\ \A r \in Wake(cf)!Report :
          owner'[r] = IF owner[r] = lane.batch THEN Wake(cf)!Free ELSE owner[r]
Others(cf) ==
    \A r \in Wake(cf)!Report :
        \/ owner'[r] = owner[r]
        \/ owner[r] = Wake(cf)!Free /\ owner'[r] = Wake(cf)!Other
        \/ owner[r] = Wake(cf)!Other /\ (owner'[r] = Wake(cf)!Gone \/ cf.OtherFrees)

LEMMA LaneMoves ==
  ASSUME NEW cf, WakeTypes(cf), LaneWrites(cf), [Wake(cf)!Next]_(Wake(cf)!vars)
  PROVE  \/ lane' = lane /\ state' = state /\ Others(cf)
         \/ lane' = Wake(cf)!Resting /\ Admitted(cf) /\ Frees(cf)
         \/ /\ lane.at = "idle" /\ lane'.at = "admit" /\ lane'.batch = Wake(cf)!NoBatch
            /\ lane'.dead = {} /\ UNCHANGED <<owner, state>>
         \/ Answers(cf) \/ GoesOn(cf)
  <1> USE DEF Wake!Report, Wake!Batch, Wake!NoBatch, Wake!Free, Wake!Other, Wake!Gone
  <1>0. /\ lane \in Lanes(cf)
        /\ owner \in [1..cf.Reports -> 1..cf.MaxBatches \cup {0, 0 - 1, 0 - 2}]
        /\ state \in [1..cf.MaxBatches -> {"none", "reserved", "released", "running", "terminal"}]
    BY DEF WakeTypes
  <1> DEFINE Goal == \/ lane' = lane /\ state' = state /\ Others(cf)
                     \/ lane' = Wake(cf)!Resting /\ Admitted(cf) /\ Frees(cf)
                     \/ /\ lane.at = "idle" /\ lane'.at = "admit" /\ lane'.batch = Wake(cf)!NoBatch
                        /\ lane'.dead = {} /\ UNCHANGED <<owner, state>>
                     \/ Answers(cf) \/ GoesOn(cf)
  <1>1. ASSUME UNCHANGED <<owner, state, lane>> PROVE Goal BY <1>1 DEF Others
  <1>2. CASE Wake(cf)!Arrive \/ Wake(cf)!Switch \/ Wake(cf)!Type \/ Wake(cf)!TxPut
             \/ (\E mixed \in BOOLEAN : Wake(cf)!Commit(mixed)) \/ UNCHANGED Wake(cf)!vars
    BY <1>2, <1>1 DEF Wake!Arrive, Wake!Switch, Wake!Type, Wake!TxPut, Wake!Commit, Wake!vars
  <1>3. CASE Wake(cf)!OtherClaims
    <2>1. lane' = lane /\ state' = state BY <1>3 DEF Wake!OtherClaims
    <2>2. PICK r \in 1..rows : owner[r] = 0 /\ owner' = [owner EXCEPT ![r] = 0 - 1]
      BY <1>3 DEF Wake!OtherClaims
    <2>3. Others(cf) BY <1>0, <2>2 DEF Others
    <2> QED BY <2>1, <2>3
  <1>4. CASE Wake(cf)!OtherEnds
    <2>1. lane' = lane /\ state' = state BY <1>4 DEF Wake!OtherEnds
    <2>2. PICK r \in 1..cf.Reports, o \in {0 - 2} \cup (IF cf.OtherFrees THEN {0} ELSE {}) :
              owner[r] = 0 - 1 /\ owner' = [owner EXCEPT ![r] = o]
      BY <1>4 DEF Wake!OtherEnds
    <2>3. Others(cf) BY <1>0, <2>2 DEF Others
    <2> QED BY <2>1, <2>3
  <1>5. CASE Wake(cf)!Reopen BY <1>5 DEF Wake!Reopen, Admitted, Frees
  <1>6. CASE Wake(cf)!TimerFires
    BY <1>6, <1>1 DEF Wake!TimerFires, Wake!Resting
  <1>7. CASE Wake(cf)!Admit
    <2>1. PICK late \in {{}} \cup {{r} : r \in {x \in lane.plan : owner[x] = 0}} :
            LET dead0 == {r \in lane.plan : owner[r] # 0}
                claims == lane.plan \ (dead0 \cup late)
            IN  \/ /\ lane' = [lane EXCEPT !.at = "answer", !.kept = late, !.dead = dead0]
                   /\ UNCHANGED <<owner, state>>
                \/ \E b \in 1..cf.MaxBatches :
                      /\ state[b] = "none"
                      /\ lane' = [lane EXCEPT !.at = "answer", !.batch = b,
                                              !.kept = late, !.dead = dead0]
                      /\ owner' = [r \in 1..cf.Reports |-> IF r \in claims THEN b ELSE owner[r]]
                      /\ state' = [state EXCEPT ![b] = "reserved"]
      BY <1>7 DEF Wake!Admit
    <2> DEFINE dead0 == {r \in lane.plan : owner[r] # 0}
               claims == lane.plan \ (dead0 \cup late)
    <2>2. /\ lane.at = "admit" BY <1>7 DEF Wake!Admit
    <2>3. CASE /\ lane' = [lane EXCEPT !.at = "answer", !.kept = late, !.dead = dead0]
               /\ UNCHANGED <<owner, state>>
      BY <1>0, <2>3, <2>2 DEF Lanes, Answers
    <2>4. ASSUME NEW b \in 1..cf.MaxBatches, state[b] = "none",
                 lane' = [lane EXCEPT !.at = "answer", !.batch = b, !.kept = late, !.dead = dead0],
                 owner' = [r \in 1..cf.Reports |-> IF r \in claims THEN b ELSE owner[r]],
                 state' = [state EXCEPT ![b] = "reserved"]
          PROVE  Goal
      <3>1. lane'.at = "answer" /\ lane'.batch = b /\ lane'.dead = dead0
        BY <1>0, <2>4 DEF Lanes
      <3>2. /\ claims \in SUBSET (1..cf.Reports) /\ claims \cap dead0 = {}
            /\ \A r \in claims : owner[r] = 0
        BY <1>0 DEF Lanes
      <3> HIDE DEF claims
      <3>3. Answers(cf) BY ONLY <2>2, <2>4, <3>1, <3>2
                        DEF Answers, Wake!Report, Wake!Batch, Wake!Free, dead0
      <3> QED BY <3>3
    <2> QED BY <2>1, <2>3, <2>4
  <1>8. ASSUME NEW q, Wake(cf)!Record(q), UNCHANGED <<owner, state>>,
               lane.at \in {"answer", "pruning"}
        PROVE  Goal
    BY <1>8 DEF Wake!Record, Wake!LaneEnds, Admitted, Frees, GoesOn
  <1>9. CASE Wake(cf)!Answer
    <2>1. UNCHANGED <<owner, state>> /\ lane.at = "answer" BY <1>9 DEF Wake!Answer
    <2>2. CASE st.armed /\ lane.dead \cap st.queued # {}
      BY <1>9, <2>2, <2>1 DEF Wake!Answer, GoesOn, Admitted
    <2>3. CASE ~(st.armed /\ lane.dead \cap st.queued # {})
      BY <1>9, <2>3, <1>8, <2>1 DEF Wake!Answer
    <2> QED BY <2>2, <2>3
  <1>10. CASE Wake(cf)!Release
    BY <1>10, <1>0 DEF Wake!Release, Admitted, Frees
  <1>11. CASE Wake(cf)!Post
    BY <1>11, <1>0 DEF Wake!Post, Admitted, LaneWrites, GoesOn
  <1>12. CASE Wake(cf)!TurnEnds
    BY <1>12, <1>0 DEF Wake!TurnEnds, Wake!LaneEnds, Admitted, Frees
  <1>13. CASE Wake(cf)!TxDone
    <2> DEFINE w == Head(txs).who
    <2>1. txs # <<>> /\ UNCHANGED <<state, owner>> BY <1>13 DEF Wake!TxDone
    <2>2. w \in {"prune", "record"} => lane.at = Waits(w)
      BY <2>1, HeadTailIs DEF WakeTypes, LaneWrites
    <2>3. CASE w = "prune"
      BY <1>13, <2>3, <1>8, <2>1, <2>2 DEF Wake!TxDone, Wake!PruneReturns, Waits
    <2>4. CASE w = "record"
      BY <1>13, <2>4, <2>2, <2>1 DEF Wake!TxDone, Wake!RecordReturns, LaneWrites, Waits, Admitted,
         GoesOn
    <2>5. CASE w \notin {"prune", "record"}
      BY <1>13, <2>5, <1>1, <2>1 DEF Wake!TxDone, Wake!ScanReturns
    <2> QED BY <2>3, <2>4, <2>5
  <1> QED
    BY <1>2, <1>3, <1>4, <1>5, <1>6, <1>7, <1>9, <1>10, <1>11, <1>12, <1>13 DEF Wake!Next

LEMMA LaneWritesKept ==
  ASSUME NEW cf, WakeTypes(cf), LaneWrites(cf), Wake(cf)!AppWakeAssumption,
         [Wake(cf)!Next]_(Wake(cf)!vars)
  PROVE  LaneWrites(cf)'
  <1> USE DEF Wake!NoBatch, Wake!Batch
  <1>1. \A i \in DOMAIN txs' : txs'[i].who \in {"prune", "record"} =>
           /\ lane'.at = Waits(txs'[i].who)
           /\ \A j \in DOMAIN txs' : txs'[j].who \in {"prune", "record"} => i = j
    BY ObservedKept, HeldMoves
  <1> DEFINE Rest == /\ lane'.at \in {"recording", "release", "post", "turn"} => lane'.batch # 0
                     /\ lane'.at \in {"idle", "admit"} => lane'.batch = 0
                     /\ lane'.batch # 0 => state'[lane'.batch] # "none"
  <1>2. lane \in Lanes(cf) /\ lane.batch \in 1..cf.MaxBatches \cup {0}
        /\ state \in [1..cf.MaxBatches -> {"none", "reserved", "released", "running", "terminal"}]
    BY DEF WakeTypes, Lanes
  <1>3. ASSUME lane' = lane /\ state' = state PROVE Rest
    BY <1>3 DEF LaneWrites
  <1>4. ASSUME lane' = Wake(cf)!Resting PROVE Rest BY <1>4 DEF Wake!Resting
  <1>5. ASSUME lane'.at = "admit" /\ lane'.batch = 0 PROVE Rest BY <1>5
  <1>6. ASSUME Answers(cf) PROVE Rest
    BY <1>2, <1>6 DEF Answers, LaneWrites
  <1>7. ASSUME GoesOn(cf) PROVE Rest
    <2>1. PICK at \in {"pruning", "recording", "release", "post", "turn"} :
             /\ lane' = [lane EXCEPT !.at = at] /\ Admitted(cf)
             /\ at # "pruning" => lane.batch # 0
      BY <1>7 DEF GoesOn
    <2>2. lane'.at = at /\ lane'.batch = lane.batch BY <1>2, <2>1 DEF Lanes
    <2> QED BY <1>2, <2>1, <2>2 DEF LaneWrites, Admitted
  <1>8. Rest BY <1>3, <1>4, <1>5, <1>6, <1>7, LaneMoves
  <1> QED BY <1>1, <1>8 DEF LaneWrites

LEMMA HandsOff ==
  ASSUME NEW cf, QueueFacts(cf), [Wake(cf)!Next]_(Wake(cf)!vars)
  PROVE  typing' = FALSE /\ "typing" \in DOMAIN budget' /\ budget'.typing = 0
  <1> DEFINE Goal == typing' = FALSE /\ "typing" \in DOMAIN budget' /\ budget'.typing = 0
  <1>0. typing = FALSE /\ "typing" \in DOMAIN budget /\ budget.typing = 0 BY DEF QueueFacts
  <1>1. ASSUME NEW f \in {"switch", "reopen", "other", "mixed", "overlap", "transient"},
               Wake(cf)!Spend(f), typing' = typing
        PROVE  Goal
    BY <1>0, <1>1 DEF Wake!Spend
  <1>2. ASSUME UNCHANGED <<typing, budget>> PROVE Goal BY <1>0, <1>2
  <1>3. CASE Wake(cf)!Switch \/ Wake(cf)!Reopen \/ Wake(cf)!OtherClaims
    BY <1>1, <1>3 DEF Wake!Switch, Wake!Reopen, Wake!OtherClaims, Wake!env
  <1>4. ~Wake(cf)!Type BY <1>0 DEF Wake!Type, Wake!Spend
  <1>5. ASSUME NEW mixed \in BOOLEAN, Wake(cf)!Commit(mixed) PROVE Goal
    BY <1>1, <1>2, <1>5 DEF Wake!Commit
  <1>6. CASE Wake(cf)!Admit
    BY <1>1, <1>2, <1>6 DEF Wake!Admit, Wake!env
  <1>7. CASE Wake(cf)!Arrive \/ Wake(cf)!OtherEnds \/ Wake(cf)!TimerFires \/ Wake(cf)!Answer
             \/ Wake(cf)!Release \/ Wake(cf)!Post \/ Wake(cf)!TurnEnds \/ Wake(cf)!TxPut
             \/ Wake(cf)!TxDone \/ UNCHANGED Wake(cf)!vars
    BY <1>7, <1>2 DEF Wake!Arrive, Wake!OtherEnds, Wake!TimerFires, Wake!Answer, Wake!Release,
       Wake!Post, Wake!TurnEnds, Wake!TxPut, Wake!TxDone, Wake!vars, Wake!env
  <1> QED BY <1>3, <1>4, <1>5, <1>6, <1>7 DEF Wake!Next

\* Nobody gives a batch back that is recorded.
LEMMA AheadKept ==
  ASSUME NEW cf, WakeTypes(cf), LaneWrites(cf), typing = FALSE,
         [Wake(cf)!Next]_(Wake(cf)!vars), NEW b \in Wake(cf)!Batch, Ahead(b)'
  PROVE  Ahead(b)
  <1> USE DEF Wake!NoBatch, Wake!Batch
  <1>0. /\ lane \in Lanes(cf)
        /\ state \in [1..cf.MaxBatches -> {"none", "reserved", "released", "running", "terminal"}]
    BY DEF WakeTypes
  <1>1. CASE lane' = lane /\ state' = state BY <1>1 DEF Ahead
  <1>2. CASE lane' = Wake(cf)!Resting /\ Admitted(cf)
    BY <1>2 DEF Wake!Resting, Ahead, Admitted
  <1>3. CASE lane'.at = "admit" /\ state' = state BY <1>3 DEF Ahead
  <1>4. CASE Answers(cf)
    <2>1. CASE lane'.batch = lane.batch /\ state' = state
      BY <1>4, <2>1 DEF Answers, Ahead, LaneWrites
    <2>2. CASE \E x \in Wake(cf)!Batch : /\ state[x] = "none" /\ lane'.batch = x
                                         /\ state' = [state EXCEPT ![x] = "reserved"]
      BY <1>0, <2>2 DEF Ahead
    <2> QED BY <1>4, <2>1, <2>2 DEF Answers
  <1>5. CASE GoesOn(cf)
    <2>1. PICK at \in {"pruning", "recording", "release", "post", "turn"} :
             /\ lane' = [lane EXCEPT !.at = at] /\ Admitted(cf)
             /\ at = "pruning" => lane.at = "answer"
             /\ at = "release" => lane.at \in {"answer", "pruning"}
      BY <1>5 DEF GoesOn
    <2>2. lane'.at = at /\ lane'.batch = lane.batch BY <1>0, <2>1 DEF Lanes
    <2> QED BY <2>1, <2>2 DEF Ahead, Admitted
  <1> QED BY <1>1, <1>2, <1>3, <1>4, <1>5, LaneMoves

LEMMA EmptyStates ==
  ASSUME NEW cf, NEW s \in {Wake(cf)!Null, Wake(cf)!FreshArmed}
  PROVE  /\ s.queued = {} /\ s.ignored = {}
         /\ \A b \in Wake(cf)!Batch : s.batches[b] = "none"
  <1>1. /\ Wake(cf)!Null.queued = {} /\ Wake(cf)!Null.ignored = {}
        /\ Wake(cf)!Null.batches = [b \in Wake(cf)!Batch |-> "none"]
    BY DEF Wake!Null
  <1>2. /\ Wake(cf)!FreshArmed.queued = {} /\ Wake(cf)!FreshArmed.ignored = {}
        /\ Wake(cf)!FreshArmed.batches = [b \in Wake(cf)!Batch |-> "none"]
    BY DEF Wake!FreshArmed, Wake!Null
  <1>3. s.batches = [b \in Wake(cf)!Batch |-> "none"] BY <1>1, <1>2
  <1>4. \A b \in Wake(cf)!Batch : s.batches[b] = "none" BY ONLY <1>3
  <1> QED BY <1>1, <1>2, <1>4

LEMMA NewKept ==
  ASSUME NEW cf, NewInv(cf), Wake(cf)!AppWakeAssumption, [Wake(cf)!Next]_(Wake(cf)!vars)
  PROVE  NewInv(cf)'
  <1> USE DEF Wake!NoBatch, Wake!Batch
  <1>0. /\ WakeTypes(cf) /\ LaneWrites(cf) /\ BatchFacts(cf) /\ QueueFacts(cf)
        /\ lane \in Lanes(cf) /\ st \in Wake(cf)!Observed /\ saved \in Wake(cf)!Observed
        /\ st' \in Wake(cf)!Observed
        /\ st \in Held /\ saved \in Held
        /\ state \in [1..cf.MaxBatches -> {"none", "reserved", "released", "running", "terminal"}]
    BY ObservedKept DEF NewInv, WakeTypes, Held
  <1>1. WakeTypes(cf)' /\ LaneWrites(cf)' BY <1>0, WakeTypesKept, LaneWritesKept
  <1>2. \A v \in Held' : v \in Held \/ v = st' BY <1>0, HeldMoves
  <1>3. Observes(cf) BY <1>0, WakeMoves
  <1>4. \A b \in Wake(cf)!Batch : Ahead(b)' => Ahead(b) BY <1>0, AheadKept DEF QueueFacts
  <1>5. ASSUME NEW b \in Wake(cf)!Batch, Ahead(b)' PROVE st'.batches[b] = "none"
    <2>0. \A v \in Held : v.batches[b] = "none" BY <1>0, <1>4, <1>5 DEF BatchFacts
    <2>1. CASE st' = st BY <1>0, <2>0, <2>1
    <2>2. CASE st' = Wake(cf)!Null \/ st' = Wake(cf)!FreshArmed
      BY <2>2, EmptyStates
    <2>3. ASSUME NEW page, NEW mixed, st' = Wake(cf)!Scanned(page, mixed)
          PROVE  st'.batches[b] = "none"
      <3> DEFINE s == IF saved.armed THEN saved ELSE st
      <3>1. s \in Wake(cf)!Observed /\ s.batches[b] = "none" BY <1>0, <2>0
      <3>2. st' = [s EXCEPT !.queued = s.queued \cup Wake(cf)!Found(s, page), !.uncertain = mixed]
        BY <2>3 DEF Wake!Scanned
      <3> HIDE DEF s
      <3> QED BY <3>1, <3>2 DEF Wake!Observed
    <2>4. CASE st' = Wake(cf)!Pruned(st)
      BY <1>0, <2>0, <2>4 DEF Wake!Pruned, Wake!Observed
    <2>5. CASE /\ st' = Wake(cf)!Recorded(st) /\ lane.batch # 0
               /\ lane'.at = "recording" /\ lane'.batch = lane.batch /\ state' = state
      <3>1. b # lane.batch
        BY <1>0, <2>5, <1>5 DEF LaneWrites, Ahead
      <3>2. st.batches[b] = "none" BY <1>0, <2>0
      <3> QED BY <1>0, <2>5, <3>1, <3>2 DEF Wake!Recorded, Wake!Observed
    <2>6. CASE st' = Wake(cf)!Abandoned(st)
      BY <1>0, <2>0, <2>6 DEF Wake!Abandoned, Wake!Observed
    <2>7. ASSUME NEW x, st' = [st EXCEPT !.batches[lane.batch] = x],
                 st.batches[lane.batch] \in {"dispatched", "accepted"}
          PROVE  st'.batches[b] = "none"
      BY <1>0, <2>0, <2>7 DEF Wake!Observed
    <2> QED BY <1>3, <2>1, <2>2, <2>3, <2>4, <2>5, <2>6, <2>7 DEF Observes
  <1>6. BatchFacts(cf)'
    BY <1>0, <1>2, <1>4, <1>5 DEF BatchFacts
  <1>7. \A r \in st'.queued : r > st'.cutoff
    <2>0. \A v \in Held : \A r \in v.queued : r > v.cutoff BY <1>0 DEF QueueFacts
    <2>1. CASE st' = st BY <1>0, <2>0, <2>1
    <2>2. CASE st' = Wake(cf)!Null \/ st' = Wake(cf)!FreshArmed
      BY <2>2, EmptyStates
    <2>3. ASSUME NEW page, NEW mixed, st' = Wake(cf)!Scanned(page, mixed)
          PROVE  \A r \in st'.queued : r > st'.cutoff
      <3> DEFINE s == IF saved.armed THEN saved ELSE st
      <3>1. s \in Wake(cf)!Observed /\ \A r \in s.queued : r > s.cutoff BY <1>0, <2>0
      <3>2. st' = [s EXCEPT !.queued = s.queued \cup Wake(cf)!Found(s, page), !.uncertain = mixed]
        BY <2>3 DEF Wake!Scanned
      <3> HIDE DEF s
      <3> QED BY <3>1, <3>2 DEF Wake!Observed, Wake!Found
    <2>4. CASE st' = Wake(cf)!Pruned(st)
      BY <1>0, <2>0, <2>4 DEF Wake!Pruned, Wake!Observed
    <2>5. CASE st' = Wake(cf)!Recorded(st)
      BY <1>0, <2>0, <2>5 DEF Wake!Recorded, Wake!Observed
    <2>6. CASE st' = Wake(cf)!Abandoned(st) /\ lane.at = "release"
      BY <1>0, <2>6, <2>0 DEF LaneWrites, Lanes, BatchFacts, Ahead, Wake!Abandoned, Wake!Observed
    <2>7. ASSUME NEW x, st' = [st EXCEPT !.batches[lane.batch] = x]
          PROVE  \A r \in st'.queued : r > st'.cutoff
      BY <1>0, <2>0, <2>7 DEF Wake!Observed
    <2> QED BY <1>3, <2>1, <2>2, <2>3, <2>4, <2>5, <2>6, <2>7 DEF Observes
  <1>8. ~st'.armed => st' = Wake(cf)!Null
    <2>0. \A v \in Held : ~v.armed => v = Wake(cf)!Null BY <1>0 DEF QueueFacts
    <2>1. CASE st' = st BY <1>0, <2>0, <2>1
    <2>2. CASE st' = Wake(cf)!Null BY <2>2
    <2>3. CASE st' = Wake(cf)!FreshArmed BY <2>3 DEF Wake!FreshArmed, Wake!Null
    <2>4. ASSUME NEW page, NEW mixed, st' = Wake(cf)!Scanned(page, mixed), saved.armed \/ st.armed
          PROVE  st'.armed
      BY <1>0, <2>4 DEF Wake!Scanned, Wake!Observed
    <2>5. CASE st.armed /\ (st' = Wake(cf)!Pruned(st) \/ st' = Wake(cf)!Recorded(st)
                              \/ st' = Wake(cf)!Abandoned(st))
      BY <1>0, <2>5 DEF Wake!Pruned, Wake!Recorded, Wake!Abandoned, Wake!Observed
    <2>6. ASSUME NEW x, st' = [st EXCEPT !.batches[lane.batch] = x],
                 st.batches[lane.batch] \in {"dispatched", "accepted"},
                 lane.at \in {"post", "turn"}
          PROVE  st'.armed
      <3>1. lane.batch \in 1..cf.MaxBatches BY <1>0, <2>6 DEF LaneWrites, Lanes
      <3>2. st # Wake(cf)!Null
        BY <3>1, EmptyStates, <2>6
      <3>3. st.armed BY <1>0, <2>0, <3>2
      <3> QED BY <1>0, <2>6, <3>3 DEF Wake!Observed
    <2> QED BY <1>3, <2>1, <2>2, <2>3, <2>4, <2>5, <2>6 DEF Observes
  <1>9. QueueFacts(cf)'
    BY <1>0, HandsOff, <1>2, <1>7, <1>8 DEF QueueFacts
  <1> QED BY <1>1, <1>6, <1>9 DEF NewInv

LEMMA OwnedKept ==
  ASSUME NEW cf, OwnedInv(cf), Wake(cf)!AppWakeAssumption, ~cf.OtherFrees,
         [Wake(cf)!Next]_(Wake(cf)!vars)
  PROVE  OwnedInv(cf)'
  <1> USE DEF Wake!NoBatch, Wake!Batch, Wake!Report, Wake!Free, Wake!Other, Wake!Gone
  <1>0. /\ WakeTypes(cf) /\ LaneWrites(cf) /\ OwnedFacts(cf)
        /\ lane \in Lanes(cf) /\ st \in Wake(cf)!Observed /\ saved \in Wake(cf)!Observed
        /\ st' \in Wake(cf)!Observed
        /\ st \in Held /\ saved \in Held
        /\ state \in [1..cf.MaxBatches -> {"none", "reserved", "released", "running", "terminal"}]
        /\ owner \in [1..cf.Reports -> 1..cf.MaxBatches \cup {0, 0 - 1, 0 - 2}]
        /\ lane.batch \in 1..cf.MaxBatches \cup {0} /\ lane.plan \in SUBSET (1..cf.Reports)
        /\ lane.dead \in SUBSET (1..cf.Reports)
        /\ cf.MaxBatches \in Nat
    BY ObservedKept DEF OwnedInv, WakeTypes, Held, Lanes, Wake!AppWakeAssumption
  <1>1. WakeTypes(cf)' /\ LaneWrites(cf)' BY <1>0, WakeTypesKept, LaneWritesKept
  <1>2. \A v \in Held' : v \in Held \/ v = st' BY <1>0, HeldMoves
  <1>3. Observes(cf) BY <1>0, WakeMoves
  <1> DEFINE Fixed(r) == owner[r] \notin {0, lane.batch}
             Late(r) == owner'[r] \notin {0, lane'.batch}
             Given == \A b \in 1..cf.MaxBatches : state'[b] = "none" =>
                         \A r \in 1..cf.Reports : owner'[r] # b
             Goal == Given /\ \A r \in 1..cf.Reports : Fixed(r) => Late(r)
  <1>4. \A b \in 1..cf.MaxBatches : state[b] = "none" => \A r \in 1..cf.Reports : owner[r] # b
    BY <1>0 DEF OwnedFacts
  <1>5. Goal /\ \A r \in lane'.dead : r \in 1..cf.Reports /\ (r \in lane.dead \/ Late(r))
    <2>1. CASE lane' = lane /\ state' = state /\ Others(cf)
      BY <2>1, <1>0, <1>4 DEF Others
    <2>2. CASE lane' = Wake(cf)!Resting /\ Admitted(cf) /\ Frees(cf)
      <3>1. lane'.batch = 0 /\ lane'.dead = {} BY <2>2 DEF Wake!Resting
      <3>2. \A r \in 1..cf.Reports :
              owner'[r] = owner[r] \/ (owner[r] = lane.batch /\ owner'[r] = 0)
        BY <2>2 DEF Frees
      <3>3. \A b \in 1..cf.MaxBatches : state'[b] = "none" => state[b] = "none"
        BY <2>2 DEF Admitted
      <3> QED BY <1>0, <1>4, <3>1, <3>2, <3>3
    <2>3. CASE /\ lane.at = "idle" /\ lane'.batch = 0 /\ lane'.dead = {}
               /\ UNCHANGED <<owner, state>>
      BY <1>0, <1>4, <2>3
    <2>4. CASE Answers(cf)
      <3>0. lane.at = "admit" /\ lane'.dead = {r \in lane.plan : owner[r] # 0} /\ lane.batch = 0
        BY <1>0, <2>4 DEF Answers, LaneWrites
      <3>1. CASE lane'.batch = lane.batch /\ UNCHANGED <<owner, state>>
        BY <1>0, <1>4, <3>0, <3>1
      <3>2. ASSUME NEW b \in 1..cf.MaxBatches, NEW claims \in SUBSET (1..cf.Reports),
                   state[b] = "none", lane'.batch = b, claims \cap lane'.dead = {},
                   \A r \in claims : owner[r] = 0,
                   owner' = [r \in 1..cf.Reports |-> IF r \in claims THEN b ELSE owner[r]],
                   state' = [state EXCEPT ![b] = "reserved"]
            PROVE  Goal /\ \A r \in lane'.dead : r \in 1..cf.Reports /\ (r \in lane.dead \/ Late(r))
        BY <3>2, <1>4, <1>0, <3>0
      <3> QED BY <2>4, <3>1, <3>2 DEF Answers
    <2>5. CASE GoesOn(cf)
      BY <1>0, <2>5, <1>4 DEF GoesOn, Lanes, Admitted
    <2> QED BY <1>0, <2>1, <2>2, <2>3, <2>4, <2>5, LaneMoves
  <1>6. \A v \in Held : v \in Wake(cf)!Observed
    <2>1. \A i \in DOMAIN txs : txs[i] \in Txs(cf)
      BY <1>0, ElementOfSeq, LenProperties DEF WakeTypes
    <2>2. \A i \in DOMAIN txs : txs[i].value \in Wake(cf)!Observed BY <2>1 DEF Txs
    <2> QED BY <1>0, <2>2 DEF Held
  <1>7. \A v \in Held : \A r \in v.ignored : r \in 1..cf.Reports /\ Fixed(r)
    BY <1>6, <1>0 DEF Wake!Observed, OwnedFacts
  <1>8. \A r \in lane.dead : r \in 1..cf.Reports /\ Fixed(r) BY <1>0 DEF OwnedFacts
  <1>9. \A r \in st'.ignored : r \in 1..cf.Reports /\ Fixed(r)
    <2>1. CASE st' = st BY <1>0, <1>7, <2>1
    <2>2. CASE st' = Wake(cf)!Null \/ st' = Wake(cf)!FreshArmed
      BY <2>2, EmptyStates
    <2>3. ASSUME NEW page, NEW mixed, st' = Wake(cf)!Scanned(page, mixed)
          PROVE  st'.ignored \in {st.ignored, saved.ignored}
      BY <1>0, <2>3 DEF Wake!Scanned, Wake!Observed
    <2>4. CASE st' = Wake(cf)!Pruned(st)
      BY <1>0, <2>4, <1>7, <1>8 DEF Wake!Pruned, Wake!Observed
    <2>5. ASSUME \/ st' = Wake(cf)!Recorded(st) \/ st' = Wake(cf)!Abandoned(st)
                 \/ \E x : st' = [st EXCEPT !.batches[lane.batch] = x]
          PROVE  st'.ignored = st.ignored
      BY <1>0, <2>5 DEF Wake!Recorded, Wake!Abandoned, Wake!Observed
    <2> QED BY <1>0, <1>3, <1>7, <2>1, <2>2, <2>3, <2>4, <2>5 DEF Observes
  <1>10. \A v \in Held' : \A r \in v.ignored : Late(r)
    BY <1>2, <1>5, <1>7, <1>9
  <1>11. \A r \in lane'.dead : Late(r) BY <1>5, <1>8
  <1>12. OwnedFacts(cf)' BY <1>5, <1>10, <1>11 DEF OwnedFacts
  <1> QED BY <1>1, <1>12 DEF OwnedInv

-----------------------------------------------------------------------------
(* The group: in every scenario its queue keeps its invariant.             *)

WakesHold ==
    /\ scenario = "switched" => NewInv(Switched)
    /\ scenario = "steady" => OwnedInv(Steady)

\* What the App never does while the user leaves the editor alone when the
\* setting changes, and what others reserve they wake.
LEMMA WakesKeep ==
  ASSUME Switched.MaxTyping = 0, ~Steady.OtherFrees
  PROVE  /\ Init => WakesHold
         /\ WakesHold /\ [Next]_vars => WakesHold'
  <1>0. Wake(Switched)!AppWakeAssumption /\ Wake(Steady)!AppWakeAssumption
    BY Instances DEF Instances
  <1>1. ASSUME Init PROVE WakesHold
    BY <1>1, <1>0, WakeStarts DEF Init, WakesHold
  <1>2. ASSUME WakesHold, [Next]_vars PROVE WakesHold'
    <2>1. /\ scenario' = scenario
          /\ scenario = "switched" => [Wake(Switched)!Next]_(Wake(Switched)!vars)
          /\ scenario = "steady" => [Wake(Steady)!Next]_(Wake(Steady)!vars)
      <3>1. CASE Next BY <3>1 DEF Next
      <3>2. CASE UNCHANGED vars
        BY <3>2 DEF vars, WakeVars, Wake!vars, Wake!env
      <3> QED BY <1>2, <3>1, <3>2
    <2>2. ASSUME scenario = "switched" PROVE NewInv(Switched)'
      BY <1>2, <2>2, <1>0, <2>1, NewKept DEF WakesHold
    <2>3. ASSUME scenario = "steady" PROVE OwnedInv(Steady)'
      BY <1>2, <2>3, <1>0, <2>1, OwnedKept DEF WakesHold
    <2> QED BY <2>1, <2>2, <2>3 DEF WakesHold
  <1> QED BY <1>1, <1>2

\* The observer's queue holds nothing from before its cutoff, in memory and on
\* disk, over restarts and changes of the setting in the middle of a scan or of
\* the lane, while nobody types at the edge of a POST; and what the observer
\* will never look at again the ledger has given to someone, while others wake
\* what they reserve (features/chat/auto_wake.dart, chat_controller.dart).
THEOREM WakesStayNew ==
  ASSUME Switched.MaxTyping = 0, ~Steady.OtherFrees
  PROVE  Spec => []WakesAreNew
  <1>1. WakesHold => WakesAreNew
    BY WakeImplies DEF WakesHold, NewInv, OwnedInv, WakesAreNew
  <1>2. Init => WakesHold BY WakesKeep
  <1>3. WakesHold /\ [Next]_vars => WakesHold' BY WakesKeep
  <1> QED BY <1>1, <1>2, <1>3, PTL DEF Spec

-----------------------------------------------------------------------------
(* AppOutbox: the entries, in memory, on disk and on their way there.      *)

At == {"unsent", "chosen", "saving", "submitting", "queued", "parked", "done", "kept"}
Sends(cf) == [sid : cf.Sessions \cup {0}, live : BOOLEAN, at : At]
Writes(cf) == [kind : {"enqueue", "remove", "draft"}, key : 1..cf.Keys, value : Seq(1..cf.Keys)]
Chains(cf) == [kind : {"flush", "submit", "release"}, key : 0..cf.Keys]

BusyAt == {"chosen", "saving", "submitting"}
\* The text has reached the outbox.
Entered(snd, k) == snd[k].at \notin {"unsent", "chosen"}
\* Nothing was sent in the session of k after it.
Latest(cf, k) == \A j \in 1..cf.Keys : k < j /\ send[j].sid = send[k].sid => send[j].at = "unsent"

Lefts == [drop : Nat, unknown : Nat, crash : Nat, refuse : Nat, dead : Nat]
OutboxTypes(cf) ==
    /\ send \in [1..cf.Keys -> Sends(cf)]
    /\ entries \in Seq(1..cf.Keys) /\ disk \in Seq(1..cf.Keys) /\ admitted \in Seq(1..cf.Keys)
    /\ writes \in Seq(Writes(cf)) /\ chain \in Seq(Chains(cf))
    /\ job \in Outbox(cf)!Jobs
    /\ claimed \in SUBSET (1..cf.Keys) /\ stray \in SUBSET (1..cf.Keys)
    /\ drafts \in SUBSET (1..cf.Keys)
    /\ retry \in BOOLEAN /\ up \in BOOLEAN /\ dead \in BOOLEAN
    /\ left \in Lefts

\* The keys in the order typed, the turn of a session its last text.
SendFacts(cf) ==
    /\ \E n \in 0..cf.Keys : \A k \in 1..cf.Keys : send[k].at # "unsent" <=> k <= n
    /\ \A k \in 1..cf.Keys : send[k].at \in BusyAt => Latest(cf, k)

\* A list of entries holds each once, a session's in the order typed.
Listed(snd, q) ==
    /\ IsInjective(q)
    /\ \A i \in DOMAIN q : Entered(snd, q[i])
    /\ \A i, j \in DOMAIN q : i < j /\ snd[q[i]].sid = snd[q[j]].sid => q[i] < q[j]
ListFacts(cf) ==
    /\ Listed(send, entries) /\ Listed(send, disk) /\ Listed(send, job.rest)
    /\ \A i \in DOMAIN writes : Listed(send, writes[i].value)
    /\ \A k \in Range(admitted) \cup stray : Entered(send, k)

\* The bodies of the chain, what they have claimed and which write they wait
\* for.
JobFacts(cf) ==
    /\ job.kind = "none" => job.stage = "none" /\ job.rest = <<>>
    /\ job.kind = "none" /\ job.key # 0 =>
          send[job.key].at \in {"parked", "done", "kept"} /\ Latest(cf, job.key)
    /\ job.kind # "none" => job.key # 0 /\ Entered(send, job.key) /\ job.stage # "none"
    /\ job.kind = "flush" => ~(send[job.key].live /\ send[job.key].at \in BusyAt)
    /\ job.kind = "submit" => send[job.key].live /\ send[job.key].at = "submitting"
    /\ job.kind = "release" => job.stage \in {"refused", "dropping"}
    /\ job.stage \in {"receipt", "leaving"} => job.key \in Range(admitted)
ChainFacts(cf) ==
    \A i \in DOMAIN chain : chain[i].kind = "submit" =>
        /\ chain[i].key # 0 /\ send[chain[i].key].live /\ send[chain[i].key].at = "submitting"
        /\ job.kind = "submit" => job.key # chain[i].key
        /\ \A j \in DOMAIN chain : chain[j].kind = "submit" /\ chain[j].key = chain[i].key => i = j
ClaimFacts(cf) ==
    \A k \in 1..cf.Keys :
        /\ send[k].live /\ send[k].at \in {"saving", "submitting"} => k \in claimed
        /\ k \in claimed => \/ send[k].live /\ send[k].at \in {"saving", "submitting"}
                            \/ job.kind = "none" /\ job.key = k
WriteFacts(cf) ==
    /\ \A i \in DOMAIN writes : writes[i].kind = "enqueue" =>
          /\ send[writes[i].key].at = "saving"
          /\ \A j \in DOMAIN writes :
                writes[j].kind = "enqueue" /\ writes[j].key = writes[i].key => i = j
    /\ \A i \in DOMAIN writes : writes[i].kind = "remove" =>
          /\ job.stage \in {"leaving", "dropping"} /\ job.key = writes[i].key
          /\ \A j \in DOMAIN writes : writes[j].kind = "remove" => i = j

\* The owner has the text, or the user has it back.
Settled(k) == \/ k \in Range(admitted) \/ send[k].at = "kept" \/ k \in drafts
              \/ \E i \in DOMAIN writes : writes[i].kind = "draft" /\ writes[i].key = k
\* ... or will have it when the entry is off the disk.
Over(k) == Settled(k) \/ (job.stage = "dropping" /\ job.key = k)

\* k is on disk, or will be, for as long as the first n writes go.
Present(k, n) ==
    /\ send[k].at # "saving" => /\ k \in Range(disk)
                                /\ \A i \in 1..n : writes[i].kind # "draft" => k \in Range(writes[i].value)
    /\ send[k].at = "saving" =>
          \E i \in 1..n : /\ writes[i].kind = "enqueue" /\ writes[i].key = k
                          /\ \A j \in i..n : writes[j].kind # "draft" => k \in Range(writes[j].value)
\* An entry stays on disk as long as it is in the outbox.
Saved(k) ==
    \/ k \in Range(entries) /\ Present(k, Len(writes))
    \/ /\ job.stage = "dropping" /\ job.key = k
       /\ \E n \in 0..(Len(writes) - 1) : writes[n + 1].kind = "remove" /\ Present(k, n)
SavedFacts(cf) == \A k \in 1..cf.Keys : Entered(send, k) => Settled(k) \/ Saved(k)

\* The older texts of k's session are over.
First(cf, k) == \A x \in 1..cf.Keys : x < k /\ send[x].sid = send[k].sid => Over(x)
OrderFacts(cf) ==
    /\ \A k \in Range(admitted) \cup stray : First(cf, k)
    /\ job.stage = "call" => First(cf, job.key)
    /\ \A k \in 1..cf.Keys : send[k].live /\ send[k].at # "unsent" => First(cf, k)
    /\ job.kind = "flush" => \A k \in Range(job.rest) : \A x \in 1..cf.Keys :
          x < k /\ send[x].sid = send[k].sid => Over(x) \/ x \in Range(job.rest) \/ x = job.key

\* Nothing is refused, or the App does not die.
Unrefused ==
    /\ left.refuse = 0 /\ left.dead = 0 /\ ~dead /\ drafts = {}
    /\ \A i \in DOMAIN writes : writes[i].kind # "draft"
    /\ \A i \in DOMAIN chain : chain[i].kind # "release"
    /\ job.kind # "release" /\ job.stage \notin {"refused", "dropping"}
InTurn == \A i, j \in DOMAIN admitted :
    (i < j /\ send[admitted[i]].sid = send[admitted[j]].sid /\ send[admitted[j]].at # "kept")
        => admitted[i] < admitted[j]
ModeFacts(cf) == (Unrefused /\ InTurn) \/ left.crash = 0

OutboxInv(cf) ==
    /\ OutboxTypes(cf) /\ SendFacts(cf) /\ ListFacts(cf) /\ JobFacts(cf) /\ ChainFacts(cf)
    /\ ClaimFacts(cf) /\ WriteFacts(cf) /\ SavedFacts(cf) /\ OrderFacts(cf) /\ ModeFacts(cf)

-----------------------------------------------------------------------------
LEMMA OutLists ==
  ASSUME NEW cf
  PROVE  /\ \A q : Outbox(cf)!Range(q) = Range(q)
         /\ \A q : Outbox(cf)!IsInjective(q) = IsInjective(q)
         /\ \A q, e : Outbox(cf)!Removed(q, e) = Removed(q, e)
         /\ \A S : Outbox(cf)!Cardinality(S) = Cardinality(S)
  BY DEF Range, Outbox!Range, IsInjective, Outbox!IsInjective, RemovedAt, Outbox!RemovedAt, Removed,
     Outbox!Removed, IsFiniteSet, Outbox!IsFiniteSet, Cardinality, Outbox!Cardinality

\* A flush goes on with the first key nobody has claimed.
LEMMA FlushOnIs ==
  ASSUME NEW cf, NEW q \in Seq(1..cf.Keys)
  PROVE  \/ Outbox(cf)!FlushOn(q) = Outbox(cf)!Idle
         \/ /\ up
            /\ \E i \in DOMAIN q :
                  /\ q[i] \notin claimed /\ \A j \in 1..(i - 1) : q[j] \in claimed
                  /\ Outbox(cf)!FlushOn(q) = [kind |-> "flush", key |-> q[i], stage |-> "call",
                                              rest |-> SubSeq(q, i + 1, Len(q))]
  <1>1. CASE ~(up /\ ~(Range(q) \subseteq claimed))
    BY <1>1, OutLists DEF Outbox!FlushOn
  <1>2. CASE up /\ ~(Range(q) \subseteq claimed)
    <2> DEFINE Free(i) == q[i] \notin claimed /\ \A j \in 1..(i - 1) : q[j] \in claimed
               i0 == CHOOSE i \in DOMAIN q : Free(i)
    <2>1. Len(q) \in Nat /\ DOMAIN q = 1..Len(q) BY LenProperties
    <2>2. \E i \in DOMAIN q : Free(i)
      <3> DEFINE S == {i \in 1..Len(q) : q[i] \notin claimed}
      <3>1. S # {} /\ S \in SUBSET (1..Len(q)) BY <1>2, <2>1 DEF Range
      <3>2. PICK k \in S : \A j \in S : k <= j BY <2>1, <3>1, LeastIs
      <3> QED BY <2>1, <3>2
    <2>3. i0 \in DOMAIN q /\ Free(i0) BY <2>2
    <2>4. Outbox(cf)!FlushOn(q) = [kind |-> "flush", key |-> q[i0], stage |-> "call",
                                   rest |-> SubSeq(q, i0 + 1, Len(q))]
      BY <1>2, OutLists DEF Outbox!FlushOn
    <2> HIDE DEF i0
    <2> QED BY <1>2, <2>3, <2>4
  <1> QED BY <1>1, <1>2

\* What a list that is part of another, from p on, has of it.
LEMMA ShiftedIs ==
  ASSUME NEW snd, NEW n \in Nat, NEW q \in Seq(1..n), Listed(snd, q),
         NEW r \in Seq(1..n), NEW p \in Nat,
         \A i \in DOMAIN r : i + p \in DOMAIN q /\ r[i] = q[i + p]
  PROVE  Listed(snd, r) /\ Range(r) \subseteq Range(q)
  <1>0. /\ Len(q) \in Nat /\ DOMAIN q = 1..Len(q) /\ Len(r) \in Nat /\ DOMAIN r = 1..Len(r)
    BY LenProperties
  <1>1. IsInjective(r)
    <2> SUFFICES ASSUME NEW i \in DOMAIN r, NEW j \in DOMAIN r, r[i] = r[j] PROVE i = j
      BY DEF IsInjective
    <2>1. i + p = j + p BY DEF Listed, IsInjective
    <2> QED BY <1>0, <2>1
  <1>2. \A i, j \in DOMAIN r : i < j => i + p < j + p BY <1>0
  <1>3. Range(r) \subseteq Range(q) BY DEF Range
  <1> QED BY <1>1, <1>2, <1>3 DEF Listed

LEMMA TailListed ==
  ASSUME NEW snd, NEW n \in Nat, NEW q \in Seq(1..n), Listed(snd, q), q # <<>>
  PROVE  Tail(q) \in Seq(1..n) /\ Listed(snd, Tail(q)) /\ Range(Tail(q)) \subseteq Range(q)
  <1>1. /\ Tail(q) \in Seq(1..n) /\ \A i \in DOMAIN Tail(q) : Tail(q)[i] = q[i + 1] /\ i + 1 \in DOMAIN q
    BY HeadTailIs
  <1> HIDE DEF Listed
  <1>2. Listed(snd, Tail(q)) /\ Range(Tail(q)) \subseteq Range(q)
    <2> DEFINE r == Tail(q)
    <2>1. r \in Seq(1..n) /\ \A i \in DOMAIN r : i + 1 \in DOMAIN q /\ r[i] = q[i + 1]
      BY <1>1
    <2> HIDE DEF r
    <2>2. Listed(snd, r) /\ Range(r) \subseteq Range(q) BY <2>1, ShiftedIs
    <2> QED BY <2>2 DEF r
  <1> QED BY <1>1, <1>2

\* x is among the first i of q.
Upto(q, i, x) == \E j \in 1..i : x = q[j]

LEMMA SubListed ==
  ASSUME NEW snd, NEW n \in Nat, NEW q \in Seq(1..n), Listed(snd, q), NEW i \in DOMAIN q
  PROVE  LET r == SubSeq(q, i + 1, Len(q)) IN
         /\ r \in Seq(1..n) /\ Listed(snd, r) /\ Range(r) \subseteq Range(q)
         /\ \A x \in Range(q) : x \in Range(r) \/ Upto(q, i, x)
         /\ \A x \in Range(r) : \E j \in DOMAIN q : i < j /\ x = q[j]
  <1> DEFINE r == SubSeq(q, i + 1, Len(q))
  <1>0. Len(q) \in Nat /\ DOMAIN q = 1..Len(q) /\ i \in Nat BY LenProperties
  <1>1. r \in Seq(1..n) /\ \A j \in DOMAIN r : j + i \in DOMAIN q /\ r[j] = q[j + i]
    BY <1>0, SubSeqIs
  <1>2. Len(r) = Len(q) - i /\ DOMAIN r = 1..(Len(q) - i)
    <2>1. \A j \in (i + 1)..Len(q) : q[j] \in 1..n
      BY <1>0, ElementOfSeq
    <2>2. i + 1 \in Int /\ Len(q) \in Int BY <1>0
    <2>3. Len(r) = IF i + 1 <= Len(q) THEN Len(q) - (i + 1) + 1 ELSE 0
      BY ONLY <2>1, <2>2, SubSeqProperties
    <2> HIDE DEF r
    <2>4. Len(r) = Len(q) - i BY <1>0, <2>3
    <2>5. DOMAIN r = 1..Len(r) BY <1>1, LenProperties
    <2> QED BY <2>4, <2>5
  <1> HIDE DEF r
  <1>4. Listed(snd, r) /\ Range(r) \subseteq Range(q) BY <1>0, <1>1, ShiftedIs
  <1>5. ASSUME NEW x \in Range(q) PROVE x \in Range(r) \/ \E j \in 1..i : x = q[j]
    <2>1. PICK j \in DOMAIN q : q[j] = x BY DEF Range
    <2>2. CASE j <= i BY <1>0, <2>1, <2>2
    <2>3. CASE j > i
      <3>0. j - i \in DOMAIN r /\ (j - i) + i = j BY <1>0, <1>2, <2>1, <2>3
      <3>1. j - i \in DOMAIN r /\ r[j - i] = x BY <1>1, <2>1, <3>0
      <3> QED BY <3>1 DEF Range
    <2> QED BY <1>0, <2>2, <2>3
  <1>6. ASSUME NEW x \in Range(r) PROVE \E j \in DOMAIN q : i < j /\ x = q[j]
    <2>1. PICK j \in DOMAIN r : r[j] = x BY DEF Range
    <2>2. i < j + i BY <1>0, <1>2, <2>1
    <2> QED BY <1>1, <2>1, <2>2
  <1>7. \A x \in Range(q) : x \in Range(r) \/ Upto(q, i, x) BY <1>5 DEF Upto
  <1> QED BY <1>1, <1>4, <1>6, <1>7 DEF r

\* k has its place behind q.
Newest(snd, q, k) == /\ k \notin Range(q) /\ Entered(snd, k)
                     /\ \A x \in Range(q) : snd[x].sid = snd[k].sid => x < k

LEMMA AppendListed ==
  ASSUME NEW snd, NEW n \in Nat, NEW q \in Seq(1..n), Listed(snd, q), NEW k \in 1..n,
         Newest(snd, q, k)
  PROVE  Append(q, k) \in Seq(1..n) /\ Listed(snd, Append(q, k))
         /\ Range(Append(q, k)) = Range(q) \cup {k}
  <1> DEFINE r == Append(q, k)
  <1>0. /\ k \notin Range(q) /\ Entered(snd, k)
        /\ \A x \in Range(q) : snd[x].sid = snd[k].sid => x < k
    BY DEF Newest
  <1>1. /\ r \in Seq(1..n) /\ Len(q) \in Nat /\ DOMAIN q = 1..Len(q)
        /\ DOMAIN r = 1..(Len(q) + 1) /\ \A i \in 1..Len(q) : r[i] = q[i]
        /\ r[Len(q) + 1] = k
    BY AppendIs
  <1>2. IsInjective(r) /\ Range(r) = Range(q) \cup {k} BY <1>0, AddedIs DEF Listed
  <1> HIDE DEF r
  <1>3. \A i \in DOMAIN r : i \in DOMAIN q \/ i = Len(q) + 1 BY <1>1
  <1>4. \A i \in DOMAIN q : q[i] \in Range(q) BY DEF Range
  <1>5. \A i \in DOMAIN r : Entered(snd, r[i]) BY <1>0, <1>1, <1>3 DEF Listed
  <1>6. ASSUME NEW i \in DOMAIN r, NEW j \in DOMAIN r, i < j, snd[r[i]].sid = snd[r[j]].sid
        PROVE  r[i] < r[j]
    <2>1. i \in DOMAIN q BY <1>1, <1>6
    <2>2. CASE j \in DOMAIN q BY <1>1, <1>6, <2>1, <2>2 DEF Listed
    <2>3. CASE j = Len(q) + 1 BY <1>0, <1>1, <1>4, <1>6, <2>1, <2>3
    <2> QED BY <1>3, <2>2, <2>3
  <1> QED BY <1>1, <1>2, <1>5, <1>6 DEF Listed, r

LEMMA RemovedListed ==
  ASSUME NEW snd, NEW n \in Nat, NEW q \in Seq(1..n), Listed(snd, q), NEW e
  PROVE  /\ Removed(q, e) \in Seq(1..n) /\ Listed(snd, Removed(q, e))
         /\ Range(Removed(q, e)) = Range(q) \ {e}
  <1>0. /\ Removed(q, e) \in Seq(1..n) /\ IsInjective(Removed(q, e))
        /\ Range(Removed(q, e)) = Range(q) \ {e}
    BY RemovedIs DEF Listed
  <1>1. CASE e \notin Range(q) BY <1>1 DEF Removed
  <1>2. CASE e \in Range(q)
    <2> DEFINE i0 == CHOOSE i \in DOMAIN q : q[i] = e
               r == RemovedAt(q, i0)
    <2>1. i0 \in DOMAIN q BY <1>2 DEF Range
    <2>2. Removed(q, e) = r BY <1>2 DEF Removed
    <2> HIDE DEF i0
    <2>3. /\ Len(r) = Len(q) - 1
          /\ \A j \in DOMAIN r : r[j] = q[IF j < i0 THEN j ELSE j + 1]
      BY <2>1, RemovedAtIs
    <2>4. Len(q) \in Nat /\ DOMAIN q = 1..Len(q) /\ DOMAIN r = 1..(Len(q) - 1)
      BY <1>0, <2>2, <2>3, LenProperties
    <2> HIDE DEF r
    <2>5. \A j \in DOMAIN r : (IF j < i0 THEN j ELSE j + 1) \in DOMAIN q BY <2>1, <2>4
    <2>6. \A i, j \in DOMAIN r : i < j =>
             (IF i < i0 THEN i ELSE i + 1) < (IF j < i0 THEN j ELSE j + 1)
      BY <2>1, <2>4
    <2>7. \A i \in DOMAIN r : Entered(snd, r[i]) BY <2>3, <2>5 DEF Listed
    <2>8. \A i, j \in DOMAIN r : i < j /\ snd[r[i]].sid = snd[r[j]].sid => r[i] < r[j]
      <3> SUFFICES ASSUME NEW i \in DOMAIN r, NEW j \in DOMAIN r, i < j,
                          snd[r[i]].sid = snd[r[j]].sid
                   PROVE  r[i] < r[j]
        OBVIOUS
      <3> DEFINE a == IF i < i0 THEN i ELSE i + 1
                 b == IF j < i0 THEN j ELSE j + 1
      <3>1. a \in DOMAIN q /\ b \in DOMAIN q /\ a < b /\ r[i] = q[a] /\ r[j] = q[b]
        BY <2>3, <2>5, <2>6
      <3> HIDE DEF a, b
      <3> QED BY <3>1 DEF Listed
    <2> QED BY <1>0, <2>2, <2>7, <2>8 DEF Listed
  <1> QED BY <1>0, <1>1, <1>2

LEMMA OutFields ==
  ASSUME NEW cf, OutboxTypes(cf)
  PROVE  /\ job.key \in 0..cf.Keys /\ job.rest \in Seq(1..cf.Keys)
         /\ job.kind \in {"none", "flush", "submit", "release"}
         /\ job.stage \in {"none", "call", "receipt", "refused", "leaving", "dropping"}
         /\ DOMAIN writes = 1..Len(writes) /\ Len(writes) \in Nat
         /\ DOMAIN chain = 1..Len(chain) /\ Len(chain) \in Nat
         /\ \A i \in DOMAIN writes : /\ writes[i].key \in 1..cf.Keys /\ writes[i] \in Writes(cf)
                                     /\ writes[i].value \in Seq(1..cf.Keys)
                                     /\ writes[i].kind \in {"enqueue", "remove", "draft"}
         /\ \A i \in DOMAIN chain : /\ chain[i].key \in 0..cf.Keys /\ chain[i] \in Chains(cf)
                                    /\ chain[i].kind \in {"flush", "submit", "release"}
         /\ \A k \in 1..cf.Keys : send[k] \in Sends(cf)
         /\ \A k \in Range(entries) \cup Range(disk) \cup Range(admitted) \cup Range(job.rest)
                \cup claimed \cup stray \cup drafts : k \in 1..cf.Keys
  <1>1. job \in Outbox(cf)!Jobs BY DEF OutboxTypes
  <1>2. /\ job.key \in 0..cf.Keys /\ job.rest \in Seq(1..cf.Keys)
        /\ job.kind \in {"none", "flush", "submit", "release"}
        /\ job.stage \in {"none", "call", "receipt", "refused", "leaving", "dropping"}
    BY ONLY <1>1 DEF Outbox!Jobs, Outbox!Key
  <1>3. /\ DOMAIN writes = 1..Len(writes) /\ Len(writes) \in Nat
        /\ DOMAIN chain = 1..Len(chain) /\ Len(chain) \in Nat
        /\ \A i \in DOMAIN writes : writes[i] \in Writes(cf)
        /\ \A i \in DOMAIN chain : chain[i] \in Chains(cf)
    BY ElementOfSeq, LenProperties DEF OutboxTypes
  <1>4. \A w \in Writes(cf) : /\ w.key \in 1..cf.Keys /\ w.value \in Seq(1..cf.Keys)
                              /\ w.kind \in {"enqueue", "remove", "draft"}
    BY DEF Writes
  <1>5. \A w \in Chains(cf) : w.key \in 0..cf.Keys /\ w.kind \in {"flush", "submit", "release"}
    BY DEF Chains
  <1>6. \A q \in Seq(1..cf.Keys) : \A k \in Range(q) : k \in 1..cf.Keys
    BY ElementOfSeq, LenProperties DEF Range
  <1>7. \A k \in Range(entries) \cup Range(disk) \cup Range(admitted) \cup Range(job.rest)
                \cup claimed \cup stray \cup drafts : k \in 1..cf.Keys
    BY <1>2, <1>6 DEF OutboxTypes
  <1>8. \A k \in 1..cf.Keys : send[k] \in Sends(cf) BY DEF OutboxTypes
  <1> QED BY <1>2, <1>3, <1>4, <1>5, <1>7, <1>8

\* What a step makes of the sends.
Sent(cf) ==
    \E k \in 1..cf.Keys, s \in cf.Sessions, l \in BOOLEAN :
        /\ send' = [send EXCEPT ![k] = [sid |-> s, live |-> l, at |-> "chosen"]]
        /\ \A j \in 1..cf.Keys : j < k <=> send[j].at # "unsent"
        /\ \A j \in 1..cf.Keys : send[j].sid = s => send[j].at \notin BusyAt
        /\ l => up /\ \A x \in Range(entries) : send[x].sid # s
        /\ UNCHANGED <<entries, disk, writes, claimed, chain, job, retry, up, dead, stray,
                       admitted, drafts, left>>
Follows(a, b) == \/ a = "chosen" /\ b = "saving"
                 \/ a = "saving" /\ b \in {"submitting", "queued"}
                 \/ a = "submitting" /\ b \in {"parked", "done", "kept"}
Turned(cf) ==
    \E k \in 1..cf.Keys, a \in At :
        send' = [send EXCEPT ![k].at = a] /\ Follows(send[k].at, a)
Reread(cf) ==
    send' = [k \in 1..cf.Keys |->
               IF send[k].at \notin BusyAt THEN send[k]
               ELSE [send[k] EXCEPT !.at = IF k \in Range(disk) THEN "queued" ELSE "kept"]]

LEMMA TypedIs ==
  ASSUME NEW cf, OutboxTypes(cf), SendFacts(cf), cf.Keys \in Nat
  PROVE  /\ Outbox(cf)!Typed \in 0..cf.Keys
         /\ \A k \in 1..cf.Keys : send[k].at # "unsent" <=> k <= Outbox(cf)!Typed
  <1>1. PICK n \in 0..cf.Keys : \A k \in 1..cf.Keys : send[k].at # "unsent" <=> k <= n
    BY DEF SendFacts
  <1>2. {k \in 1..cf.Keys : send[k].at # "unsent"} = 1..n BY <1>1
  <1>3. Outbox(cf)!Typed = Cardinality({k \in 1..cf.Keys : send[k].at # "unsent"})
    BY OutLists DEF Outbox!Typed, Outbox!Key
  <1>4. Cardinality(1..n) = n BY FS_Interval
  <1> QED BY <1>1, <1>2, <1>3, <1>4

LEMMA SendIs ==
  ASSUME NEW cf, OutboxTypes(cf), SendFacts(cf), JobFacts(cf), ChainFacts(cf), WriteFacts(cf),
         Outbox(cf)!OutboxAssumption, [Outbox(cf)!Next]_(Outbox(cf)!vars)
  PROVE  send' = send \/ Sent(cf) \/ Turned(cf) \/ Reread(cf)
  <1> USE DEF Outbox!Key
  <1>0. cf.Keys \in Nat BY DEF Outbox!OutboxAssumption
  <1>1. ASSUME NEW s \in cf.Sessions, Outbox(cf)!Send(s) PROVE Sent(cf)
    <2> DEFINE k == Outbox(cf)!Typed + 1
    <2>1. k \in 1..cf.Keys /\ \A j \in 1..cf.Keys : j < k <=> send[j].at # "unsent"
      BY <1>0, <1>1, TypedIs DEF Outbox!Send
    <2>2. PICK l \in BOOLEAN :
             /\ l => ~Outbox(cf)!MustQueue(s)
             /\ send' = [send EXCEPT ![k] = [sid |-> s, live |-> l, at |-> "chosen"]]
      BY <1>1 DEF Outbox!Send
    <2>3. l => up /\ \A x \in Range(entries) : send[x].sid # s
      BY <2>2, OutLists DEF Outbox!MustQueue
    <2>4. /\ \A j \in 1..cf.Keys : send[j].sid = s => send[j].at \notin BusyAt
          /\ UNCHANGED <<entries, disk, writes, claimed, chain, job, retry, up, dead, stray,
                         admitted, drafts, left>>
      BY <1>1 DEF Outbox!Send, Outbox!Busy, BusyAt, Outbox!link
    <2> HIDE DEF k
    <2> QED BY <2>1, <2>2, <2>3, <2>4 DEF Sent
  <1>2. ASSUME NEW k \in 1..cf.Keys, Outbox(cf)!Enqueue(k) PROVE Turned(cf)
    BY <1>2 DEF Outbox!Enqueue, Turned, Follows, At
  <1>3. CASE Outbox(cf)!Start
    <2>1. CASE Outbox(cf)!StartFlush \/ Outbox(cf)!StartRelease
      BY <2>1 DEF Outbox!StartFlush, Outbox!StartRelease
    <2>2. CASE Outbox(cf)!StartSubmit
      <3>1. chain # <<>> /\ Head(chain).kind = "submit"
        BY <1>3, <2>2 DEF Outbox!Start, Outbox!StartSubmit
      <3>2. 1 \in DOMAIN chain /\ Head(chain) = chain[1] BY <3>1, HeadTailIs DEF OutboxTypes
      <3>3. Head(chain).key \in 1..cf.Keys /\ send[Head(chain).key].at = "submitting"
        BY <3>1, <3>2, OutFields DEF ChainFacts
      <3> QED BY <2>2, <3>3 DEF Outbox!StartSubmit, Turned, Follows, At
    <2> QED BY <1>3, <2>1, <2>2 DEF Outbox!Start
  <1>4. ASSUME Outbox(cf)!Fail PROVE send' = send \/ Turned(cf)
    <2>1. CASE job.kind = "submit"
      BY <2>1, OutFields, <1>4 DEF JobFacts, Outbox!Fail, Turned, Follows, At
    <2>2. CASE job.kind # "submit" BY <1>4, <2>2 DEF Outbox!Fail
    <2> QED BY <2>1, <2>2
  <1>5. CASE Outbox(cf)!Written
    <2>1. writes # <<>> BY <1>5 DEF Outbox!Written
    <2>2. 1 \in DOMAIN writes /\ Head(writes) = writes[1] BY <2>1, HeadTailIs DEF OutboxTypes
    <2> DEFINE w == Head(writes)
    <2>3. CASE w.kind = "enqueue" /\ Outbox(cf)!EnqueueReturns(w.key)
      BY <2>2, <2>3, OutFields DEF WriteFacts, Outbox!EnqueueReturns, Turned, Follows, At
    <2>4. CASE w.kind = "remove" /\ Outbox(cf)!RemoveReturns(w.key)
      <3>1. CASE job.kind = "submit"
        <4>1. job.key \in 1..cf.Keys /\ send[job.key].at = "submitting" /\ w.key = job.key
          BY <2>2, <2>4, <3>1, OutFields DEF JobFacts, WriteFacts
        <4> QED BY <2>4, <3>1, <4>1 DEF Outbox!RemoveReturns, Turned, Follows, At
      <3>2. CASE job.kind # "submit" BY <2>4, <3>2 DEF Outbox!RemoveReturns
      <3> QED BY <3>1, <3>2
    <2>5. CASE w.kind = "draft" /\ send' = send BY <2>5
    <2> QED BY <1>5, <2>3, <2>4, <2>5 DEF Outbox!Written
  <1>6. CASE Outbox(cf)!Crash
    BY <1>6, OutLists DEF Outbox!Crash, Reread, Outbox!Busy, BusyAt
  <1>7. CASE Outbox(cf)!CallUnknown BY <1>4, <1>7 DEF Outbox!CallUnknown
  <1>8. CASE Outbox(cf)!LinkDown BY <1>4, <1>8 DEF Outbox!LinkDown
  <1>9. CASE Outbox(cf)!Unclaim \/ Outbox(cf)!OwnerTakes \/ Outbox(cf)!StrayEnds
             \/ Outbox(cf)!TakeOut \/ Outbox(cf)!LinkUp \/ Outbox(cf)!Degrade
             \/ Outbox(cf)!RetryFires
    BY <1>9
    DEF Outbox!Unclaim, Outbox!OwnerTakes, Outbox!StrayEnds, Outbox!TakeOut, Outbox!LinkUp,
        Outbox!Degrade, Outbox!RetryFires
  <1>10. CASE UNCHANGED Outbox(cf)!vars BY <1>10 DEF Outbox!vars
  <1> QED
    BY <1>1, <1>2, <1>3, <1>5, <1>6, <1>7, <1>8, <1>9, <1>10 DEF Outbox!Next

\* A text stays what it is: its session, whether it is a turn, and its end.
Aged(cf) ==
    \A k \in 1..cf.Keys :
        /\ send[k].at # "unsent" => /\ send'[k].sid = send[k].sid /\ send'[k].live = send[k].live
                                    /\ send'[k].at # "unsent"
        /\ Entered(send, k) => Entered(send', k)
        /\ send'[k].at \in BusyAt => send[k].at \in BusyAt \cup {"unsent"}
        /\ send[k].at \notin BusyAt \cup {"unsent"} => send'[k].at = send[k].at

LEMMA SendAges ==
  ASSUME NEW cf, OutboxTypes(cf), SendFacts(cf), JobFacts(cf), ChainFacts(cf), WriteFacts(cf),
         Outbox(cf)!OutboxAssumption, [Outbox(cf)!Next]_(Outbox(cf)!vars)
  PROVE  send' \in [1..cf.Keys -> Sends(cf)] /\ Aged(cf) /\ SendFacts(cf)'
  <1>0. send \in [1..cf.Keys -> Sends(cf)] /\ cf.Keys \in Nat
    BY DEF OutboxTypes, Outbox!OutboxAssumption
  <1>1. PICK n \in 0..cf.Keys : \A k \in 1..cf.Keys : send[k].at # "unsent" <=> k <= n
    BY DEF SendFacts
  <1>2. \A k \in 1..cf.Keys : send[k].at \in BusyAt => Latest(cf, k) BY DEF SendFacts
  <1>3. CASE send' = send BY <1>0, <1>1, <1>2, <1>3 DEF Aged, SendFacts, Latest, Entered
  <1>4. CASE Sent(cf)
    <2>1. PICK k \in 1..cf.Keys, s \in cf.Sessions, l \in BOOLEAN :
             /\ send' = [send EXCEPT ![k] = [sid |-> s, live |-> l, at |-> "chosen"]]
             /\ \A j \in 1..cf.Keys : j < k <=> send[j].at # "unsent"
             /\ \A j \in 1..cf.Keys : send[j].sid = s => send[j].at \notin BusyAt
             /\ l => up /\ \A x \in Range(entries) : send[x].sid # s
             /\ UNCHANGED <<entries, disk, writes, claimed, chain, job, retry, up, dead, stray,
                            admitted, drafts, left>>
      BY ONLY <1>4 DEF Sent
    <2>2. /\ \A j \in 1..cf.Keys : j # k => send'[j] = send[j]
          /\ send'[k] = [sid |-> s, live |-> l, at |-> "chosen"]
          /\ send[k].at = "unsent"
      BY <1>0, <2>1
    <2>3. send' \in [1..cf.Keys -> Sends(cf)] BY <1>0, <2>1 DEF Sends, At
    <2>4. Aged(cf) BY <2>2 DEF Aged, BusyAt, Entered
    <2>5. \A j \in 1..cf.Keys : send'[j].at # "unsent" <=> j <= k BY <1>0, <2>1, <2>2
    <2>6. \A j \in 1..cf.Keys : send'[j].at \in BusyAt =>
             \A x \in 1..cf.Keys : j < x /\ send'[x].sid = send'[j].sid => send'[x].at = "unsent"
      <3> SUFFICES ASSUME NEW j \in 1..cf.Keys, send'[j].at \in BusyAt,
                          NEW x \in 1..cf.Keys, j < x, send'[x].sid = send'[j].sid
                   PROVE  send'[x].at = "unsent"
        OBVIOUS
      <3>1. CASE j = k BY <1>0, <2>5, <3>1
      <3>2. CASE j # k /\ x # k BY <1>2, <2>2, <3>2 DEF Latest
      <3>3. CASE j # k /\ x = k BY <2>1, <2>2, <3>3
      <3> QED BY <3>1, <3>2, <3>3
    <2>7. SendFacts(cf)'
      BY <2>5, <2>6 DEF SendFacts, Latest
    <2> QED BY <2>3, <2>4, <2>7
  <1>5. CASE Turned(cf)
    <2>1. PICK k \in 1..cf.Keys, a \in At : send' = [send EXCEPT ![k].at = a] /\ Follows(send[k].at, a)
      BY <1>5 DEF Turned
    <2>2. /\ \A j \in 1..cf.Keys : j # k => send'[j] = send[j]
          /\ send'[k].sid = send[k].sid /\ send'[k].live = send[k].live /\ send'[k].at = a
          /\ send' \in [1..cf.Keys -> Sends(cf)]
      BY <1>0, <2>1 DEF Sends
    <2>3. send[k].at \in BusyAt /\ a \notin {"unsent", "chosen"} BY <2>1 DEF Follows, BusyAt
    <2>4. Aged(cf) BY <2>2, <2>3 DEF Aged, BusyAt, Entered
    <2>5. \A j \in 1..cf.Keys : /\ send'[j].at # "unsent" <=> send[j].at # "unsent"
                                /\ send'[j].sid = send[j].sid
                                /\ send'[j].at \in BusyAt => send[j].at \in BusyAt
      BY <2>2, <2>3 DEF BusyAt
    <2>6. SendFacts(cf)' BY <1>1, <1>2, <2>5 DEF SendFacts, Latest
    <2> QED BY <2>2, <2>4, <2>6
  <1>6. CASE Reread(cf)
    <2>1. \A k \in 1..cf.Keys :
             /\ send'[k] = IF send[k].at \notin BusyAt THEN send[k]
                           ELSE [send[k] EXCEPT !.at = IF k \in Range(disk) THEN "queued" ELSE "kept"]
             /\ send[k] \in Sends(cf)
      BY <1>0, <1>6 DEF Reread
    <2>2. \A k \in 1..cf.Keys : send'[k] \in Sends(cf)
      <3>1. \A v \in Sends(cf) : \A a \in At : [v EXCEPT !.at = a] \in Sends(cf) BY DEF Sends
      <3>2. "queued" \in At /\ "kept" \in At BY DEF At
      <3> SUFFICES ASSUME NEW k \in 1..cf.Keys PROVE send'[k] \in Sends(cf) OBVIOUS
      <3>3. CASE send[k].at \notin BusyAt BY <2>1, <3>3
      <3>4. CASE send[k].at \in BusyAt /\ k \in Range(disk)
        <4>1. send'[k] = [send[k] EXCEPT !.at = "queued"] BY <2>1, <3>4
        <4>2. send[k] \in Sends(cf) BY <2>1
        <4>3. [send[k] EXCEPT !.at = "queued"] \in Sends(cf) BY ONLY <3>1, <3>2, <4>2
        <4> QED BY ONLY <4>1, <4>3
      <3>5. CASE send[k].at \in BusyAt /\ k \notin Range(disk)
        <4>1. send'[k] = [send[k] EXCEPT !.at = "kept"] BY <2>1, <3>5
        <4>2. send[k] \in Sends(cf) BY <2>1
        <4>3. [send[k] EXCEPT !.at = "kept"] \in Sends(cf) BY ONLY <3>1, <3>2, <4>2
        <4> QED BY ONLY <4>1, <4>3
      <3> QED BY <3>3, <3>4, <3>5
    <2>3. send' \in [1..cf.Keys -> Sends(cf)]
      BY <1>6, <2>2 DEF Reread
    <2>4. \A k \in 1..cf.Keys :
             /\ send'[k].sid = send[k].sid /\ send'[k].live = send[k].live
             /\ send[k].at \notin BusyAt => send'[k].at = send[k].at
             /\ send[k].at \in BusyAt => send'[k].at \in {"queued", "kept"}
      BY <2>1 DEF Sends
    <2>5. Aged(cf) BY <2>4 DEF Aged, BusyAt, Entered
    <2>6. \A k \in 1..cf.Keys : /\ send'[k].at # "unsent" <=> send[k].at # "unsent"
                                /\ send'[k].at \notin BusyAt
      BY <2>4 DEF BusyAt
    <2>7. SendFacts(cf)' BY <1>1, <2>6 DEF SendFacts
    <2> QED BY <2>3, <2>5, <2>7
  <1> QED BY <1>3, <1>4, <1>5, <1>6, SendIs

\* What the next body is, from where it starts.
LEMMA BodiesTyped ==
  ASSUME NEW cf, OutboxTypes(cf), cf.Keys \in Nat
  PROVE  /\ Outbox(cf)!Idle \in Outbox(cf)!Jobs
         /\ \A k \in 1..cf.Keys : Outbox(cf)!NoJob(k) \in Outbox(cf)!Jobs
         /\ \A q \in Seq(1..cf.Keys) : /\ Outbox(cf)!FlushOn(q) \in Outbox(cf)!Jobs
                                       /\ Outbox(cf)!ReleaseOn(q) \in Outbox(cf)!Jobs
         /\ \A s \in {"receipt", "refused", "leaving", "dropping"} :
               [job EXCEPT !.stage = s] \in Outbox(cf)!Jobs
  <1> DEFINE J == [kind : {"none", "flush", "submit", "release"}, key : 0..cf.Keys,
                   stage : {"none", "call", "receipt", "refused", "leaving", "dropping"},
                   rest : Seq(1..cf.Keys)]
  <1>1. Outbox(cf)!Jobs = J BY DEF Outbox!Jobs, Outbox!Key
  <1>2. <<>> \in Seq(1..cf.Keys) BY EmptySeq
  <1>3. Outbox(cf)!Idle \in J BY <1>2 DEF Outbox!Idle, Outbox!NoJob, Outbox!None
  <1>4. \A k \in 1..cf.Keys : Outbox(cf)!NoJob(k) \in J BY <1>2 DEF Outbox!NoJob
  <1>5. ASSUME NEW q \in Seq(1..cf.Keys) PROVE Outbox(cf)!FlushOn(q) \in J
    <2>1. CASE Outbox(cf)!FlushOn(q) = Outbox(cf)!Idle BY <1>3, <2>1
    <2>2. ASSUME NEW i \in DOMAIN q,
                 Outbox(cf)!FlushOn(q) = [kind |-> "flush", key |-> q[i], stage |-> "call",
                                          rest |-> SubSeq(q, i + 1, Len(q))]
          PROVE  Outbox(cf)!FlushOn(q) \in J
      <3>1. q[i] \in 1..cf.Keys /\ i \in Nat BY LenProperties, ElementOfSeq
      <3>2. SubSeq(q, i + 1, Len(q)) \in Seq(1..cf.Keys) BY <3>1, SubSeqIs
      <3> QED BY <2>2, <3>1, <3>2
    <2> QED BY <2>1, <2>2, FlushOnIs
  <1>6. ASSUME NEW q \in Seq(1..cf.Keys) PROVE Outbox(cf)!ReleaseOn(q) \in J
    <2>1. CASE q = <<>> BY <1>3, <2>1 DEF Outbox!ReleaseOn
    <2>2. CASE q # <<>>
      BY <2>2, HeadTailIs DEF Outbox!ReleaseOn
    <2> QED BY <2>1, <2>2
  <1>7. \A s \in {"receipt", "refused", "leaving", "dropping"} : [job EXCEPT !.stage = s] \in J
    <2>1. job \in J BY <1>1 DEF OutboxTypes
    <2> QED BY ONLY <2>1
  <1> QED BY <1>1, <1>3, <1>4, <1>5, <1>6, <1>7

LEMMA WritesTyped ==
  ASSUME NEW cf, OutboxTypes(cf), NEW kd \in {"enqueue", "remove", "draft"},
         NEW k \in 1..cf.Keys, NEW q \in Seq(1..cf.Keys)
  PROVE  /\ Append(writes, [kind |-> kd, key |-> k, value |-> q]) \in Seq(Writes(cf))
         /\ writes # <<>> =>
              /\ Tail(writes) \in Seq(Writes(cf))
              /\ Append(Tail(writes), [kind |-> kd, key |-> k, value |-> q]) \in Seq(Writes(cf))
  BY HeadTailIs, AppendIs DEF Writes, OutboxTypes

LEMMA ChainsTyped ==
  ASSUME NEW cf, OutboxTypes(cf), NEW kd \in {"flush", "submit", "release"},
         NEW k \in 0..cf.Keys
  PROVE  /\ Append(chain, [kind |-> kd, key |-> k]) \in Seq(Chains(cf))
         /\ chain # <<>> => Tail(chain) \in Seq(Chains(cf))
  BY AppendIs, HeadTailIs DEF Chains, OutboxTypes

LEMMA LeftTyped ==
  ASSUME NEW l \in Lefts
  PROVE  /\ l.drop > 0 => [l EXCEPT !.drop = @ - 1] \in Lefts
         /\ l.unknown > 0 => [l EXCEPT !.unknown = @ - 1] \in Lefts
         /\ l.crash > 0 => [l EXCEPT !.crash = @ - 1] \in Lefts
         /\ l.refuse > 0 => [l EXCEPT !.refuse = @ - 1] \in Lefts
         /\ l.dead > 0 => [l EXCEPT !.dead = @ - 1] \in Lefts
  BY DEF Lefts

LEMMA OutTypesKept ==
  ASSUME NEW cf, OutboxInv(cf),
         Outbox(cf)!OutboxAssumption, [Outbox(cf)!Next]_(Outbox(cf)!vars)
  PROVE  OutboxTypes(cf)'
  <1> USE DEF Outbox!Key, Outbox!link
  <1>0. /\ OutboxTypes(cf) /\ SendFacts(cf) /\ JobFacts(cf) /\ ChainFacts(cf)
        /\ WriteFacts(cf) /\ cf.Keys \in Nat /\ ListFacts(cf)
    BY DEF OutboxInv, Outbox!OutboxAssumption
  <1>a. send' \in [1..cf.Keys -> Sends(cf)] BY <1>0, SendAges
  <1>1. ASSUME NEW s \in cf.Sessions, Outbox(cf)!Send(s) PROVE OutboxTypes(cf)'
    BY <1>0, <1>1, <1>a DEF Outbox!Send, OutboxTypes, Outbox!Jobs
  <1>2. ASSUME NEW k \in 1..cf.Keys, Outbox(cf)!Enqueue(k) PROVE OutboxTypes(cf)'
    BY <1>0, <1>2, AppendIs, WritesTyped, <1>a DEF OutboxTypes, Outbox!Enqueue, Outbox!Write,
       Outbox!Claims, Outbox!Jobs
  <1>3. CASE Outbox(cf)!Start
    <2>1. chain' \in Seq(Chains(cf)) BY <1>0, <1>3, HeadTailIs DEF Outbox!Start, OutboxTypes
    <2>2. claimed' \in SUBSET (1..cf.Keys) BY <1>0, <1>3 DEF Outbox!Start, OutboxTypes
    <2>3. UNCHANGED <<entries, disk, writes, up, dead, stray, admitted, drafts, left>>
      BY <1>3 DEF Outbox!Start
    <2>4. job' \in Outbox(cf)!Jobs /\ retry' \in BOOLEAN
      <3>1. CASE Outbox(cf)!StartFlush
        BY <1>0, <3>1, BodiesTyped DEF OutboxTypes, Outbox!StartFlush
      <3>2. CASE Outbox(cf)!StartRelease
        BY <1>0, <3>2, BodiesTyped DEF OutboxTypes, Outbox!StartRelease
      <3>3. CASE Outbox(cf)!StartSubmit
        <4>1. chain # <<>> /\ Head(chain).kind = "submit"
          BY <1>3, <3>3 DEF Outbox!Start, Outbox!StartSubmit
        <4>2. 1 \in DOMAIN chain /\ Head(chain) = chain[1]
          BY <1>0, <4>1, HeadTailIs DEF OutboxTypes
        <4>3. Head(chain).key \in 1..cf.Keys BY <1>0, <4>1, <4>2, OutFields DEF ChainFacts
        <4>4. [kind |-> "submit", key |-> Head(chain).key, stage |-> "call", rest |-> <<>>]
                 \in Outbox(cf)!Jobs
          BY <4>3, EmptySeq DEF Outbox!Jobs
        <4>5. Outbox(cf)!NoJob(Head(chain).key) \in Outbox(cf)!Jobs BY <1>0, <4>3, BodiesTyped
        <4> QED BY <1>0, <3>3, <4>4, <4>5 DEF Outbox!StartSubmit, OutboxTypes
      <3> QED BY <1>3, <3>1, <3>2, <3>3 DEF Outbox!Start
    <2> QED BY <1>0, <1>a, <2>1, <2>2, <2>3, <2>4 DEF OutboxTypes, Outbox!Jobs
  <1>4. ASSUME Outbox(cf)!Fail, Outbox(cf)!OnWire
        PROVE  job' \in Outbox(cf)!Jobs /\ retry' \in BOOLEAN /\ stray' \in SUBSET (1..cf.Keys)
    <2>1. job.key \in 1..cf.Keys
      BY <1>0, <1>4, OutFields DEF Outbox!OnWire, JobFacts
    <2>2. job' \in Outbox(cf)!Jobs BY <1>0, <1>4, <2>1, BodiesTyped DEF Outbox!Fail
    <2>3. retry' \in BOOLEAN BY <1>0, <1>4 DEF Outbox!Fail, Outbox!RetryAfter, OutboxTypes
    <2>4. stray' \in SUBSET (1..cf.Keys) BY <1>0, <1>4, <2>1 DEF Outbox!Fail, OutboxTypes
    <2> QED BY <2>2, <2>3, <2>4
  <1>5. CASE Outbox(cf)!Unclaim
    BY <1>0, <1>5, BodiesTyped, <1>a DEF Outbox!Unclaim, OutboxTypes, Outbox!Jobs
  <1>6. ASSUME NEW k \in 1..cf.Keys
        PROVE  Outbox(cf)!Lands(k) \in Seq(1..cf.Keys)
    BY <1>0, AppendIs DEF Outbox!Lands, OutboxTypes
  <1>7. left \in Lefts BY <1>0 DEF OutboxTypes
  <1>8. CASE Outbox(cf)!OwnerTakes
    <2>1. job.key \in 1..cf.Keys BY <1>0, <1>8, OutFields DEF Outbox!OwnerTakes, JobFacts
    <2>2. admitted' \in Seq(1..cf.Keys)
      BY <1>0, <1>6, <1>8, <2>1 DEF Outbox!OwnerTakes, OutboxTypes
    <2>3. job' \in Outbox(cf)!Jobs BY <1>0, <1>8, BodiesTyped DEF Outbox!OwnerTakes
    <2>4. left' \in Lefts
      BY <1>7, LeftTyped, <1>8 DEF Outbox!OwnerTakes
    <2>5. UNCHANGED <<entries, disk, writes, claimed, chain, retry, up, dead, stray, drafts>>
      BY <1>8 DEF Outbox!OwnerTakes
    <2> QED BY <1>0, <1>a, <2>2, <2>3, <2>4, <2>5 DEF OutboxTypes, Outbox!Jobs
  <1>9. CASE Outbox(cf)!StrayEnds
    <2>1. PICK k \in stray : stray' = stray \ {k} /\ admitted' \in {admitted, Outbox(cf)!Lands(k)}
      BY <1>9 DEF Outbox!StrayEnds
    <2>2. k \in 1..cf.Keys /\ stray' \in SUBSET (1..cf.Keys) BY <1>0, <2>1 DEF OutboxTypes
    <2>3. admitted' \in Seq(1..cf.Keys) BY <1>0, <1>6, <2>1, <2>2 DEF OutboxTypes
    <2>4. UNCHANGED <<entries, disk, writes, claimed, chain, job, retry, up, dead, drafts, left>>
      BY <1>9 DEF Outbox!StrayEnds
    <2> QED BY <1>0, <1>a, <2>2, <2>3, <2>4 DEF OutboxTypes, Outbox!Jobs
  <1>10. CASE Outbox(cf)!TakeOut
    <2>1. job.key \in 1..cf.Keys
      BY <1>0, <1>10, OutFields DEF Outbox!TakeOut, Outbox!Answered, JobFacts
    <2>2. entries' = Removed(entries, job.key) BY <1>10, OutLists DEF Outbox!TakeOut
    <2>3. entries' \in Seq(1..cf.Keys)
      BY <1>0, <2>2, RemovedIs DEF OutboxTypes, ListFacts, Listed
    <2>4. writes' \in Seq(Writes(cf))
      BY <1>0, <1>10, <2>1, <2>3, WritesTyped DEF Outbox!TakeOut, Outbox!Write
    <2>5. job' \in Outbox(cf)!Jobs BY <1>0, <1>10, BodiesTyped DEF Outbox!TakeOut
    <2>6. UNCHANGED <<disk, claimed, chain, retry, up, dead, stray, admitted, drafts, left>>
      BY <1>10 DEF Outbox!TakeOut
    <2> QED BY <1>0, <1>a, <2>3, <2>4, <2>5, <2>6 DEF OutboxTypes, Outbox!Jobs
  <1>11. CASE Outbox(cf)!CallUnknown
    BY <1>7, <1>11, LeftTyped, <1>0, <1>4, <1>a DEF Outbox!CallUnknown, OutboxTypes, Outbox!Jobs
  <1>12. CASE Outbox(cf)!LinkDown
    <2>1. left' \in Lefts
      BY <1>7, <1>12, LeftTyped DEF Outbox!LinkDown
    <2>2. UNCHANGED <<entries, disk, writes, claimed, chain, dead, admitted, drafts>> /\ up' = FALSE
      BY <1>12 DEF Outbox!LinkDown
    <2>3. job' \in Outbox(cf)!Jobs /\ retry' \in BOOLEAN /\ stray' \in SUBSET (1..cf.Keys)
      BY <1>4, <1>12, <1>0 DEF Outbox!LinkDown, OutboxTypes
    <2> QED BY <1>0, <1>a, <2>1, <2>2, <2>3 DEF OutboxTypes, Outbox!Jobs
  <1>13. CASE Outbox(cf)!LinkUp \/ Outbox(cf)!Degrade \/ Outbox(cf)!RetryFires
    <2>1. chain' \in Seq(Chains(cf))
      <3>1. /\ Outbox(cf)!Chained("flush", 0) \in Seq(Chains(cf))
            /\ Outbox(cf)!Chained("release", 0) \in Seq(Chains(cf))
        BY <1>0, ChainsTyped DEF Outbox!Chained
      <3> QED BY <1>13, <3>1
        DEF Outbox!LinkUp, Outbox!Degrade, Outbox!RetryFires, Outbox!None
    <2>2. left' \in Lefts
      BY <1>7, LeftTyped, <1>13 DEF Outbox!LinkUp, Outbox!Degrade, Outbox!RetryFires
    <2>3. /\ UNCHANGED <<entries, disk, writes, claimed, job, stray, admitted, drafts>>
          /\ up' \in {TRUE, up} /\ dead' \in {TRUE, dead} /\ retry' \in {FALSE, retry}
      BY <1>13 DEF Outbox!LinkUp, Outbox!Degrade, Outbox!RetryFires
    <2> QED BY <1>0, <1>a, <2>1, <2>2, <2>3 DEF OutboxTypes, Outbox!Jobs
  <1>14. CASE Outbox(cf)!Written
    <2> DEFINE w == Head(writes)
    <2>1. writes # <<>> BY <1>14 DEF Outbox!Written
    <2>2. /\ w.key \in 1..cf.Keys /\ w.value \in Seq(1..cf.Keys) /\ w = writes[1]
          /\ 1 \in DOMAIN writes
      BY <1>0, <2>1, HeadTailIs, OutFields DEF OutboxTypes
    <2>3. Tail(writes) \in Seq(Writes(cf)) /\ Outbox(cf)!Refused(w.key) \in Seq(Writes(cf))
      BY <1>0, <2>1, <2>2, WritesTyped, EmptySeq DEF Outbox!Refused
    <2>4. UNCHANGED <<entries, retry, up, dead, stray, admitted, left>>
      BY <1>14 DEF Outbox!Written
    <2> HIDE DEF w
    <2>5. CASE disk' = w.value /\ Outbox(cf)!EnqueueReturns(w.key)
      <3>1. writes' \in Seq(Writes(cf)) /\ UNCHANGED <<job, drafts>>
        BY <2>3, <2>5 DEF Outbox!EnqueueReturns, w
      <3>2. chain' \in Seq(Chains(cf))
        BY <1>0, <2>2, <2>5, ChainsTyped DEF Outbox!EnqueueReturns, Outbox!Chained, Outbox!None
      <3>3. claimed' \in SUBSET (1..cf.Keys)
        BY <1>0, <2>2, <2>5 DEF Outbox!EnqueueReturns, OutboxTypes
      <3> QED BY <1>0, <1>a, <2>2, <2>4, <2>5, <3>1, <3>2, <3>3 DEF OutboxTypes, Outbox!Jobs
    <2>6. CASE disk' = w.value /\ Outbox(cf)!RemoveReturns(w.key)
      <3>1. UNCHANGED <<chain, claimed, drafts>> BY <2>6 DEF Outbox!RemoveReturns
      <3>2. writes' \in Seq(Writes(cf)) BY <2>3, <2>6 DEF Outbox!RemoveReturns
      <3>3. job' \in Outbox(cf)!Jobs
        BY <1>0, <2>2, <2>6, OutFields, BodiesTyped DEF Outbox!RemoveReturns
      <3> QED BY <1>0, <1>a, <2>2, <2>4, <2>6, <3>1, <3>2, <3>3 DEF OutboxTypes, Outbox!Jobs
    <2>7. CASE /\ drafts' = drafts \cup {w.key} /\ writes' = Tail(writes)
               /\ UNCHANGED <<send, disk, chain, claimed, job>>
      BY <1>0, <1>a, <2>2, <2>3, <2>4, <2>7 DEF OutboxTypes, Outbox!Jobs
    <2> QED BY <1>14, <2>5, <2>6, <2>7 DEF Outbox!Written, w
  <1>15. CASE Outbox(cf)!Crash
    <2>1. left' \in Lefts
      BY <1>7, <1>15, LeftTyped DEF Outbox!Crash
    <2>2. /\ entries' = disk /\ writes' = <<>> /\ claimed' = {} /\ chain' = <<>>
          /\ job' = Outbox(cf)!Idle /\ retry' = FALSE /\ up' = FALSE /\ dead' = FALSE
          /\ UNCHANGED <<disk, admitted, drafts>>
      BY <1>15 DEF Outbox!Crash, Outbox!Loaded
    <2>3. stray' \in SUBSET (1..cf.Keys)
      <3>1. job.stage = "call" => job.key \in 1..cf.Keys BY <1>0, OutFields DEF JobFacts
      <3> QED BY <1>0, <1>15, <3>1 DEF Outbox!Crash, OutboxTypes
    <2>4. job' \in Outbox(cf)!Jobs BY <1>0, <2>2, BodiesTyped
    <2>5. writes' \in Seq(Writes(cf)) /\ chain' \in Seq(Chains(cf)) BY <2>2, EmptySeq
    <2> QED BY <1>0, <1>a, <2>1, <2>2, <2>3, <2>4, <2>5 DEF OutboxTypes, Outbox!Jobs
  <1>16. CASE UNCHANGED Outbox(cf)!vars
    BY <1>0, <1>16 DEF Outbox!vars, OutboxTypes, Outbox!Jobs
  <1> QED
    BY <1>1, <1>2, <1>3, <1>5, <1>8, <1>9, <1>10, <1>11, <1>12, <1>13, <1>14, <1>15, <1>16
    DEF Outbox!Next

-----------------------------------------------------------------------------
(* The lists.                                                              *)

LEMMA ListedAges ==
  ASSUME NEW cf, Aged(cf), NEW q \in Seq(1..cf.Keys), Listed(send, q)
  PROVE  Listed(send', q)
  <1>1. \A i \in DOMAIN q : q[i] \in 1..cf.Keys BY LenProperties, ElementOfSeq
  <1>2. \A i \in DOMAIN q : Entered(send, q[i]) BY DEF Listed
  <1>3. \A i \in DOMAIN q : send'[q[i]].sid = send[q[i]].sid /\ Entered(send', q[i])
    BY <1>1, <1>2 DEF Aged, Entered
  <1> QED BY <1>3 DEF Listed

LEMMA ListedIn ==
  ASSUME NEW snd, NEW q, Listed(snd, q)
  PROVE  \A x \in Range(q) : Entered(snd, x)
  BY DEF Listed, Range

LEMMA EmptyListed ==
  ASSUME NEW snd PROVE Listed(snd, <<>>) /\ Range(<<>>) = {}
  BY DEF Listed, IsInjective, Range

\* The entry that is added is the last of its session.
LEMMA EnqueueIs ==
  ASSUME NEW cf, OutboxInv(cf), cf.Keys \in Nat, NEW k \in 1..cf.Keys, Outbox(cf)!Enqueue(k)
  PROVE  /\ entries' = Append(entries, k) /\ Range(entries') = Range(entries) \cup {k}
         /\ k \notin Range(entries) /\ send[k].at = "chosen"
         /\ send' = [send EXCEPT ![k].at = "saving"]
         /\ \A j \in 1..cf.Keys : j # k => send'[j] = send[j]
         /\ send'[k].at = "saving" /\ send'[k].live = send[k].live /\ send'[k].sid = send[k].sid
         /\ claimed' = claimed \cup (IF send[k].live THEN {k} ELSE {})
         /\ writes' = Append(writes, [kind |-> "enqueue", key |-> k, value |-> entries'])
         /\ Listed(send', entries') /\ entries' \in Seq(1..cf.Keys)
         /\ UNCHANGED <<disk, chain, job, retry, up, dead, stray, admitted, drafts, left>>
  <1>0. /\ OutboxTypes(cf) /\ SendFacts(cf) /\ ListFacts(cf)
    BY DEF OutboxInv
  <1>1. /\ entries' = Append(entries, k) /\ send[k].at = "chosen"
        /\ send' = [send EXCEPT ![k].at = "saving"]
        /\ claimed' = claimed \cup (IF send[k].live THEN {k} ELSE {})
        /\ writes' = Append(writes, [kind |-> "enqueue", key |-> k, value |-> entries'])
        /\ UNCHANGED <<disk, chain, job, retry, up, dead, stray, admitted, drafts, left>>
    BY DEF Outbox!Enqueue, Outbox!Claims, Outbox!Write, Outbox!link
  <1>2. /\ send' \in [1..cf.Keys -> Sends(cf)]
        /\ \A j \in 1..cf.Keys : j # k => send'[j] = send[j]
        /\ send'[k].at = "saving" /\ send'[k].live = send[k].live /\ send'[k].sid = send[k].sid
    BY <1>0, <1>1 DEF OutboxTypes, Sends, At
  <1>3. \A x \in Range(entries) : x \in 1..cf.Keys /\ Entered(send, x)
    BY <1>0, OutFields, ListedIn DEF ListFacts
  <1>4. k \notin Range(entries) BY <1>1, <1>3 DEF Entered
  <1>5. Latest(cf, k) BY <1>0, <1>1 DEF SendFacts, BusyAt
  <1>6. \A x \in Range(entries) : send'[x].sid = send'[k].sid => x < k
    <2> SUFFICES ASSUME NEW x \in Range(entries), send'[x].sid = send'[k].sid PROVE x < k
      OBVIOUS
    <2>1. x # k /\ x \in 1..cf.Keys /\ send[x].sid = send[k].sid /\ send[x].at # "unsent"
      BY <1>2, <1>3, <1>4 DEF Entered
    <2>2. ~(k < x) BY <1>5, <2>1 DEF Latest
    <2> QED BY <2>1, <2>2
  <1>7. Listed(send', entries)
    <2>1. Aged(cf) BY <1>1, <1>2 DEF Aged, BusyAt, Entered
    <2> QED BY <1>0, <2>1, ListedAges DEF ListFacts, OutboxTypes
  <1>8. Entered(send', k) BY <1>2 DEF Entered
  <1>9. entries \in Seq(1..cf.Keys) BY <1>0 DEF OutboxTypes
  <1>10. /\ Append(entries, k) \in Seq(1..cf.Keys) /\ Listed(send', Append(entries, k))
         /\ Range(Append(entries, k)) = Range(entries) \cup {k}
    <2>1. Newest(send', entries, k) BY <1>4, <1>6, <1>8 DEF Newest
    <2> QED BY <1>7, <1>9, <2>1, AppendListed
  <1> QED BY <1>1, <1>2, <1>4, <1>10

\* What goes on with a part of a list goes on with a list.
LEMMA BodiesListed ==
  ASSUME NEW cf, cf.Keys \in Nat, NEW snd, NEW q \in Seq(1..cf.Keys), Listed(snd, q)
  PROVE  /\ Listed(snd, Outbox(cf)!FlushOn(q).rest)
         /\ Listed(snd, Outbox(cf)!ReleaseOn(q).rest)
         /\ Outbox(cf)!FlushOn(q).key # 0 => Entered(snd, Outbox(cf)!FlushOn(q).key)
         /\ Outbox(cf)!ReleaseOn(q).key # 0 => Entered(snd, Outbox(cf)!ReleaseOn(q).key)
  <1>1. Listed(snd, Outbox(cf)!Idle.rest) /\ Outbox(cf)!Idle.key = 0
    BY EmptyListed DEF Outbox!Idle, Outbox!NoJob, Outbox!None
  <1>3. ASSUME NEW i \in DOMAIN q,
               Outbox(cf)!FlushOn(q) = [kind |-> "flush", key |-> q[i], stage |-> "call",
                                        rest |-> SubSeq(q, i + 1, Len(q))]
        PROVE  /\ Listed(snd, Outbox(cf)!FlushOn(q).rest)
               /\ Entered(snd, Outbox(cf)!FlushOn(q).key)
    <2>1. Listed(snd, SubSeq(q, i + 1, Len(q))) BY SubListed
    <2>2. Entered(snd, q[i]) BY DEF Listed
    <2> QED BY <1>3, <2>1, <2>2
  <1>4. /\ Listed(snd, Outbox(cf)!FlushOn(q).rest)
        /\ Outbox(cf)!FlushOn(q).key # 0 => Entered(snd, Outbox(cf)!FlushOn(q).key)
    BY <1>1, <1>3, FlushOnIs
  <1>5. /\ Listed(snd, Outbox(cf)!ReleaseOn(q).rest)
        /\ Outbox(cf)!ReleaseOn(q).key # 0 => Entered(snd, Outbox(cf)!ReleaseOn(q).key)
    <2>1. CASE q = <<>> BY <1>1, <2>1 DEF Outbox!ReleaseOn
    <2>2. CASE q # <<>>
      <3>1. Listed(snd, Tail(q)) BY <2>2, TailListed
      <3>2. Entered(snd, Head(q)) BY <2>2, HeadTailIs DEF Listed
      <3> QED BY <2>2, <3>1, <3>2 DEF Outbox!ReleaseOn
    <2> QED BY <2>1, <2>2
  <1> QED BY <1>4, <1>5

\* Every step keeps the lists in order.
LEMMA ListFactsKept ==
  ASSUME NEW cf, OutboxInv(cf),
         Outbox(cf)!OutboxAssumption, [Outbox(cf)!Next]_(Outbox(cf)!vars)
  PROVE  ListFacts(cf)'
  <1> USE DEF Outbox!Key, Outbox!link
  <1>0. /\ OutboxTypes(cf) /\ SendFacts(cf) /\ ListFacts(cf) /\ JobFacts(cf) /\ ChainFacts(cf)
        /\ WriteFacts(cf) /\ cf.Keys \in Nat
    BY DEF OutboxInv, Outbox!OutboxAssumption
  <1>a. Aged(cf) BY <1>0, SendAges
  <1>b. /\ entries \in Seq(1..cf.Keys) /\ disk \in Seq(1..cf.Keys)
        /\ job.rest \in Seq(1..cf.Keys) /\ writes \in Seq(Writes(cf))
        /\ \A i \in DOMAIN writes : writes[i].value \in Seq(1..cf.Keys)
        /\ \A k \in Range(admitted) \cup stray : k \in 1..cf.Keys
    BY <1>0, OutFields DEF OutboxTypes
  <1>c. /\ Listed(send', entries) /\ Listed(send', disk) /\ Listed(send', job.rest)
        /\ \A i \in DOMAIN writes : Listed(send', writes[i].value)
        /\ \A k \in Range(admitted) \cup stray : Entered(send', k)
    BY <1>0, <1>a, <1>b, ListedAges DEF ListFacts, Aged
  <1>d. job.kind # "none" \/ job.stage # "none" => job.key \in 1..cf.Keys /\ Entered(send', job.key)
    BY <1>0, <1>a, OutFields DEF JobFacts, Aged
  <1>e. ASSUME NEW q, Listed(send', q), NEW kd, NEW k
        PROVE  LET r == Append(writes, [kind |-> kd, key |-> k, value |-> q]) IN
               \A i \in DOMAIN r : Listed(send', r[i].value)
    <2> DEFINE e == [kind |-> kd, key |-> k, value |-> q]
               S == Writes(cf) \cup {e}
               r == Append(writes, e)
    <2>1. writes \in Seq(S)
      <3>1. \A i \in 1..Len(writes) : writes[i] \in S BY <1>b, LenProperties, ElementOfSeq
      <3>2. Len(writes) \in Nat /\ DOMAIN writes = 1..Len(writes)
            /\ writes = [i \in 1..Len(writes) |-> writes[i]]
        BY <1>b, LenProperties
      <3> HIDE DEF S
      <3>3. writes \in [1..Len(writes) -> S] BY <3>1, <3>2
      <3> QED BY <3>2, <3>3, IsASeq
    <2>2. /\ Len(writes) \in Nat /\ DOMAIN r = 1..(Len(writes) + 1)
          /\ DOMAIN writes = 1..Len(writes)
          /\ \A i \in 1..Len(writes) : r[i] = writes[i]
          /\ r[Len(writes) + 1] = e
      <3>1. e \in S OBVIOUS
      <3> HIDE DEF S, e
      <3> QED BY <2>1, <3>1, AppendIs
    <2>3. Listed(send', e.value) BY <1>e
    <2> HIDE DEF r, e
    <2>4. \A i \in DOMAIN r : i \in DOMAIN writes \/ i = Len(writes) + 1 BY <2>2
    <2>5. \A i \in DOMAIN r : Listed(send', r[i].value) BY <1>c, <2>2, <2>3, <2>4
    <2> QED BY <2>5 DEF r, e
  <1>f. ASSUME writes # <<>>
        PROVE  /\ \A i \in DOMAIN Tail(writes) : Listed(send', Tail(writes)[i].value)
               /\ Tail(writes) \in Seq(Writes(cf))
    BY <1>b, <1>f, HeadTailIs, <1>c
  <1>1. CASE UNCHANGED <<entries, disk, job, writes, admitted, stray>>
    BY <1>c, <1>1 DEF ListFacts
  <1>2. ASSUME NEW s \in cf.Sessions, Outbox(cf)!Send(s) PROVE ListFacts(cf)'
    BY <1>1, <1>2 DEF Outbox!Send
  <1>3. ASSUME NEW k \in 1..cf.Keys, Outbox(cf)!Enqueue(k) PROVE ListFacts(cf)'
    <2>1. /\ Listed(send', entries') /\ UNCHANGED <<disk, job, admitted, stray>>
          /\ writes' = Append(writes, [kind |-> "enqueue", key |-> k, value |-> entries'])
      BY <1>0, <1>3, EnqueueIs
    <2>2. \A i \in DOMAIN writes' : Listed(send', writes'[i].value) BY <1>e, <2>1
    <2> QED BY <1>c, <2>1, <2>2 DEF ListFacts
  <1>4. ASSUME NEW b, b = Outbox(cf)!Idle \/ \E k \in 1..cf.Keys : b = Outbox(cf)!NoJob(k)
        PROVE  Listed(send', b.rest)
    BY <1>4, EmptyListed DEF Outbox!Idle, Outbox!NoJob
  <1>5. CASE Outbox(cf)!Start
    <2>1. UNCHANGED <<entries, disk, writes, admitted, stray>> BY <1>5 DEF Outbox!Start
    <2>2. Listed(send', job'.rest)
      BY <1>0, <1>b, <1>c, BodiesListed, EmptyListed, <1>5 DEF Outbox!StartFlush, Outbox!StartRelease,
         Outbox!StartSubmit, Outbox!NoJob, Outbox!Start
    <2> QED BY <1>c, <2>1, <2>2 DEF ListFacts
  <1>6. ASSUME Outbox(cf)!Fail, Outbox(cf)!OnWire, UNCHANGED <<entries, disk, writes, admitted>>
        PROVE  ListFacts(cf)'
    BY <1>6, EmptyListed, <1>c, <1>d DEF Outbox!Fail, Outbox!NoJob, Outbox!Idle, Outbox!OnWire,
       ListFacts
  <1>7. ASSUME NEW k \in 1..cf.Keys, Entered(send', k)
        PROVE  \A x \in Range(Outbox(cf)!Lands(k)) : Entered(send', x)
    <2>1. CASE Outbox(cf)!Lands(k) = admitted BY <1>c, <2>1
    <2>2. CASE Outbox(cf)!Lands(k) = Append(admitted, k)
      BY <1>0, AppendIs, <1>7, <1>c, <2>2 DEF OutboxTypes, Range
    <2> QED BY <2>1, <2>2 DEF Outbox!Lands
  <1>8. CASE Outbox(cf)!OwnerTakes
    <2>1. \A x \in Range(admitted') : Entered(send', x)
      BY <1>7, <1>8, <1>c, <1>d DEF Outbox!OwnerTakes
    <2>2. Listed(send', job'.rest)
      BY <1>0, <1>8, <1>c DEF Outbox!OwnerTakes, OutboxTypes, Outbox!Jobs
    <2>3. UNCHANGED <<entries, disk, writes, stray>> BY <1>8 DEF Outbox!OwnerTakes
    <2> QED BY <1>c, <2>1, <2>2, <2>3 DEF ListFacts
  <1>9. CASE Outbox(cf)!StrayEnds
    <2>1. PICK k \in stray : stray' = stray \ {k} /\ admitted' \in {admitted, Outbox(cf)!Lands(k)}
      BY <1>9 DEF Outbox!StrayEnds
    <2>2. k \in 1..cf.Keys /\ Entered(send', k) BY <1>b, <1>c
    <2>3. \A x \in Range(admitted') : Entered(send', x) BY <1>7, <1>c, <2>1, <2>2
    <2>4. UNCHANGED <<entries, disk, writes, job>> BY <1>9 DEF Outbox!StrayEnds
    <2> QED BY <1>c, <2>1, <2>3, <2>4 DEF ListFacts
  <1>10. CASE Outbox(cf)!TakeOut
    <2>1. entries' = Removed(entries, job.key) BY <1>10, OutLists DEF Outbox!TakeOut
    <2>2. Listed(send', entries') BY <1>0, <1>b, <1>c, <2>1, RemovedListed
    <2>3. \A i \in DOMAIN writes' : Listed(send', writes'[i].value)
      BY <1>10, <1>e, <2>2 DEF Outbox!TakeOut, Outbox!Write
    <2>4. Listed(send', job'.rest)
      BY <1>0, <1>10, <1>c DEF Outbox!TakeOut, OutboxTypes, Outbox!Jobs
    <2>5. UNCHANGED <<disk, stray, admitted>> BY <1>10 DEF Outbox!TakeOut
    <2> QED BY <1>c, <2>2, <2>3, <2>4, <2>5 DEF ListFacts
  <1>11. CASE Outbox(cf)!CallUnknown BY <1>6, <1>11 DEF Outbox!CallUnknown
  <1>12. CASE Outbox(cf)!LinkDown
    BY <1>6, <1>12, <1>1 DEF Outbox!LinkDown
  <1>13. CASE Outbox(cf)!LinkUp \/ Outbox(cf)!Degrade \/ Outbox(cf)!RetryFires
    BY <1>1, <1>13 DEF Outbox!LinkUp, Outbox!Degrade, Outbox!RetryFires
  <1>14. CASE Outbox(cf)!Written
    <2> DEFINE w == Head(writes)
    <2>1. writes # <<>> BY <1>14 DEF Outbox!Written
    <2>2. 1 \in DOMAIN writes /\ w = writes[1] BY <1>b, <2>1, HeadTailIs
    <2>3. Listed(send', w.value) BY <1>c, <2>2
    <2>4. UNCHANGED <<entries, stray, admitted>> BY <1>14 DEF Outbox!Written
    <2>5. ASSUME NEW r, r = Tail(writes) \/ r = Outbox(cf)!Refused(w.key)
          PROVE  \A i \in DOMAIN r : Listed(send', r[i].value)
      <3>1. CASE r = Tail(writes) BY <1>f, <2>1, <3>1
      <3>2. CASE r = Outbox(cf)!Refused(w.key)
        <4> DEFINE v == Tail(writes)
                   e == [kind |-> "draft", key |-> w.key, value |-> <<>>]
        <4>1. e \in Writes(cf) /\ v \in Seq(Writes(cf))
          BY <1>0, <1>f, <2>1, <2>2, OutFields, EmptySeq DEF Writes
        <4>2. Listed(send', e.value) BY EmptyListed
        <4>3. \A i \in DOMAIN v : Listed(send', v[i].value) BY <1>f, <2>1
        <4>4. r = Append(v, e) BY <3>2 DEF Outbox!Refused
        <4> HIDE DEF v, e
        <4>5. \A i \in DOMAIN r : (i \in DOMAIN v /\ r[i] = v[i]) \/ r[i] = e
          BY <4>1, <4>4, AppendIs
        <4> QED BY <4>2, <4>3, <4>5
      <3> QED BY <2>5, <3>1, <3>2
    <2> HIDE DEF w
    <2>6. CASE disk' = w.value /\ Outbox(cf)!EnqueueReturns(w.key)
      BY <2>6, <2>5, <1>c, <2>3, <2>4 DEF Outbox!EnqueueReturns, ListFacts
    <2>7. CASE disk' = w.value /\ Outbox(cf)!RemoveReturns(w.key)
      <3>1. writes' = Tail(writes) \/ writes' = Outbox(cf)!Refused(w.key)
        BY <2>7 DEF Outbox!RemoveReturns
      <3>2. \A i \in DOMAIN writes' : Listed(send', writes'[i].value) BY <2>5, <3>1
      <3>3. Listed(send', job'.rest)
        <4>1. CASE job.kind = "submit"
          BY <2>7, <4>1, EmptyListed DEF Outbox!RemoveReturns, Outbox!NoJob
        <4>2. CASE job.kind # "submit"
          BY <2>7, <4>2, <1>0, <1>b, <1>c, BodiesListed DEF Outbox!RemoveReturns
        <4> QED BY <4>1, <4>2
      <3> QED BY <1>c, <2>3, <2>4, <2>7, <3>2, <3>3 DEF ListFacts
    <2>8. CASE writes' = Tail(writes) /\ UNCHANGED <<send, disk, chain, claimed, job>>
      BY <2>5, <2>8, <1>c, <2>4 DEF ListFacts
    <2> QED BY <1>14, <2>6, <2>7, <2>8 DEF Outbox!Written, w
  <1>15. CASE Outbox(cf)!Crash
    <2>1. /\ entries' = disk /\ writes' = <<>> /\ job' = Outbox(cf)!Idle
          /\ UNCHANGED <<disk, admitted>>
      BY <1>15 DEF Outbox!Crash, Outbox!Loaded
    <2>2. \A k \in stray' : Entered(send', k)
      BY <1>15, <1>c, <1>d DEF Outbox!Crash
    <2> QED BY <1>c, <1>4, <2>1, <2>2 DEF ListFacts
  <1>16. CASE Outbox(cf)!Unclaim
    BY <1>16, <1>c, <1>4 DEF Outbox!Unclaim, ListFacts
  <1>17. CASE UNCHANGED Outbox(cf)!vars BY <1>1, <1>17 DEF Outbox!vars
  <1> QED
    BY <1>2, <1>3, <1>5, <1>8, <1>9, <1>10, <1>11, <1>12, <1>13, <1>14, <1>15, <1>16, <1>17
    DEF Outbox!Next

-----------------------------------------------------------------------------
(* What the steps do, in the terms of the invariant.                       *)

Resting(k) == [kind |-> "none", key |-> k, stage |-> "none", rest |-> <<>>]
Flushing(q, b) ==
    \/ b = Resting(0)
    \/ /\ up
       /\ \E i \in DOMAIN q :
             /\ q[i] \notin claimed /\ \A j \in 1..(i - 1) : q[j] \in claimed
             /\ b = [kind |-> "flush", key |-> q[i], stage |-> "call",
                     rest |-> SubSeq(q, i + 1, Len(q))]
Releasing(q, b) ==
    \/ b = Resting(0)
    \/ q # <<>> /\ b = [kind |-> "release", key |-> Head(q), stage |-> "refused", rest |-> Tail(q)]

\* Microtasks have run: nothing rests on a key, or with work on the chain.
Awake == job.kind = "none" => chain = <<>> /\ job.key = 0
\* No bound grows.
Shrunk == /\ left.crash = 0 => left'.crash = 0
          /\ left.refuse = 0 => left'.refuse = 0
          /\ left.dead = 0 => left'.dead = 0
Turns1(k, a) == send' = [send EXCEPT ![k].at = a]

Enters(cf) ==
    \E k \in 1..cf.Keys :
        /\ Awake /\ send[k].at = "chosen" /\ Turns1(k, "saving") /\ k \notin Range(entries)
        /\ entries' = Append(entries, k) /\ Range(entries') = Range(entries) \cup {k}
        /\ claimed' = claimed \cup (IF send[k].live THEN {k} ELSE {})
        /\ writes' = Append(writes, [kind |-> "enqueue", key |-> k, value |-> entries'])
        /\ UNCHANGED <<disk, chain, job, up, dead, stray, admitted, drafts, left>>
Starts(cf) ==
    /\ job.kind = "none" /\ chain # <<>> /\ chain' = Tail(chain) /\ claimed' = claimed \ {job.key}
    /\ \/ chain[1].kind = "flush" /\ send' = send /\ Flushing(entries, job')
       \/ chain[1].kind = "release" /\ send' = send /\ Releasing(entries, job')
       \/ \E k \in 1..cf.Keys :
             /\ chain[1].kind = "submit" /\ chain[1].key = k
             /\ send[k].live /\ send[k].at = "submitting"
             /\ \/ job' = [kind |-> "submit", key |-> k, stage |-> "call", rest |-> <<>>]
                   /\ send' = send
                \/ job' = Resting(k) /\ Turns1(k, "parked")
    /\ UNCHANGED <<entries, disk, writes, up, dead, stray, admitted, drafts, left>>
Unclaims ==
    /\ job.kind = "none" /\ chain = <<>> /\ claimed' = claimed \ {job.key} /\ job' = Resting(0)
    /\ UNCHANGED <<send, entries, disk, writes, chain, up, dead, stray, admitted, drafts, left>>
Lands1(k) == admitted' = admitted \/ (k \notin Range(admitted) /\ admitted' = Append(admitted, k))
Takes(cf) ==
    /\ job.kind # "none" /\ job.stage = "call" /\ job.key \in 1..cf.Keys
    /\ \/ Lands1(job.key) /\ job.key \in Range(admitted') /\ job' = [job EXCEPT !.stage = "receipt"]
          /\ left' = left
       \/ left.refuse > 0 /\ job' = [job EXCEPT !.stage = "refused"] /\ admitted' = admitted
    /\ Shrunk
    /\ UNCHANGED <<send, entries, disk, writes, claimed, chain, up, dead, stray, drafts>>
Strays ==
    /\ Awake /\ \E k \in stray : stray' = stray \ {k} /\ Lands1(k)
    /\ UNCHANGED <<send, entries, disk, writes, claimed, chain, job, up, dead, drafts, left>>
TakesOut(cf) ==
    /\ job.kind # "none" /\ job.stage \in {"receipt", "refused"} /\ job.key \in 1..cf.Keys
    /\ entries' = Removed(entries, job.key) /\ Range(entries') = Range(entries) \ {job.key}
    /\ writes' = Append(writes, [kind |-> "remove", key |-> job.key, value |-> entries'])
    /\ job' = [job EXCEPT !.stage = IF job.stage = "refused" THEN "dropping" ELSE "leaving"]
    /\ UNCHANGED <<send, disk, claimed, chain, up, dead, stray, admitted, drafts, left>>
Fails(cf) ==
    /\ job.kind \in {"flush", "submit"} /\ job.stage \in {"call", "receipt", "refused"}
    /\ job.key \in 1..cf.Keys
    /\ stray' = IF job.stage = "call" THEN stray \cup {job.key} ELSE stray
    /\ \/ job.kind = "submit" /\ job' = Resting(job.key) /\ Turns1(job.key, "parked")
       \/ job.kind = "flush" /\ job' = Resting(0) /\ send' = send
    /\ Shrunk
    /\ UNCHANGED <<entries, disk, writes, claimed, chain, dead, admitted, drafts>>
Links(cf) ==
    /\ Awake /\ Shrunk
    /\ \/ chain' = chain /\ dead' = dead
       \/ chain' = Append(chain, [kind |-> "flush", key |-> 0]) /\ dead' = dead
       \/ chain' = Append(chain, [kind |-> "release", key |-> 0]) /\ left.dead > 0
    /\ UNCHANGED <<send, entries, disk, writes, claimed, job, stray, admitted, drafts>>
SavesEntry(cf) ==
    \E k \in 1..cf.Keys :
        /\ Awake /\ writes # <<>> /\ writes[1].kind = "enqueue" /\ writes[1].key = k
        /\ disk' = writes[1].value /\ writes' = Tail(writes) /\ send[k].at = "saving"
        /\ \/ send[k].live /\ Turns1(k, "submitting") /\ claimed' = claimed \cup {k}
              /\ chain' = Append(chain, [kind |-> "submit", key |-> k])
           \/ ~send[k].live /\ Turns1(k, "queued") /\ claimed' = claimed
              /\ chain' = Append(chain, [kind |-> "flush", key |-> 0])
        /\ UNCHANGED <<entries, job, up, dead, stray, admitted, drafts, left>>
SavesRemoval(cf) ==
    /\ writes # <<>> /\ writes[1].kind = "remove" /\ writes[1].key = job.key
    /\ job.kind # "none" /\ job.stage \in {"leaving", "dropping"} /\ job.key \in 1..cf.Keys
    /\ disk' = writes[1].value
    /\ \/ /\ job.kind = "submit" /\ job' = Resting(job.key) /\ writes' = Tail(writes)
          /\ Turns1(job.key, IF job.stage = "dropping" THEN "kept" ELSE "done")
       \/ /\ job.kind = "flush" /\ Flushing(job.rest, job') /\ send' = send
          /\ writes' = IF job.stage = "dropping"
                       THEN Append(Tail(writes), [kind |-> "draft", key |-> job.key, value |-> <<>>])
                       ELSE Tail(writes)
       \/ /\ job.kind = "release" /\ Releasing(job.rest, job') /\ send' = send
          /\ job.stage = "dropping"
          /\ writes' = Append(Tail(writes), [kind |-> "draft", key |-> job.key, value |-> <<>>])
    /\ UNCHANGED <<entries, claimed, chain, up, dead, stray, admitted, drafts, left>>
SavesDraft(cf) ==
    /\ Awake /\ writes # <<>> /\ writes[1].kind = "draft" /\ writes' = Tail(writes)
    /\ drafts' = drafts \cup {writes[1].key}
    /\ UNCHANGED <<send, entries, disk, claimed, chain, job, up, dead, stray, admitted, left>>
Crashes(cf) ==
    /\ left.crash > 0 /\ Shrunk /\ Reread(cf) /\ ~dead'
    /\ entries' = disk /\ writes' = <<>> /\ claimed' = {} /\ chain' = <<>> /\ job' = Resting(0)
    /\ stray' = IF job.stage = "call" THEN stray \cup {job.key} ELSE stray
    /\ UNCHANGED <<disk, admitted, drafts>>
Still == UNCHANGED <<send, entries, disk, writes, claimed, chain, job, up, dead, stray, admitted,
                     drafts, left>>

Steps(cf) ==
    \/ Sent(cf) /\ Awake
    \/ Enters(cf) \/ Starts(cf) \/ Unclaims \/ Takes(cf) \/ Strays \/ TakesOut(cf)
    \/ Fails(cf) \/ Links(cf) \/ SavesEntry(cf) \/ SavesRemoval(cf) \/ SavesDraft(cf)
    \/ Crashes(cf) \/ Still

LEMMA BodiesAre ==
  ASSUME NEW cf, cf.Keys \in Nat
  PROVE  /\ Outbox(cf)!Idle = Resting(0) /\ \A k : Outbox(cf)!NoJob(k) = Resting(k)
         /\ \A q \in Seq(1..cf.Keys) : /\ Flushing(q, Outbox(cf)!FlushOn(q))
                                       /\ Releasing(q, Outbox(cf)!ReleaseOn(q))
  BY FlushOnIs DEF Outbox!Idle, Outbox!NoJob, Outbox!None, Resting, Flushing, Releasing,
     Outbox!ReleaseOn

LEMMA ShrunkIs ==
  ASSUME NEW cf, OutboxTypes(cf)
  PROVE  /\ left' = left => Shrunk
         /\ left' = [left EXCEPT !.drop = @ - 1] => Shrunk
         /\ left' = [left EXCEPT !.unknown = @ - 1] => Shrunk
         /\ left.crash > 0 /\ left' = [left EXCEPT !.crash = @ - 1] => Shrunk
         /\ left.refuse > 0 /\ left' = [left EXCEPT !.refuse = @ - 1] => Shrunk
         /\ left.dead > 0 /\ left' = [left EXCEPT !.dead = @ - 1] => Shrunk
  BY DEF OutboxTypes, Lefts, Shrunk

LEMMA StepsAre ==
  ASSUME NEW cf, OutboxInv(cf),
         Outbox(cf)!OutboxAssumption, [Outbox(cf)!Next]_(Outbox(cf)!vars)
  PROVE  Steps(cf)
  <1> USE DEF Outbox!Key, Outbox!link
  <1>0. /\ OutboxTypes(cf) /\ SendFacts(cf) /\ ListFacts(cf) /\ JobFacts(cf) /\ ChainFacts(cf)
        /\ WriteFacts(cf) /\ cf.Keys \in Nat
    BY DEF OutboxInv, Outbox!OutboxAssumption
  <1>a. /\ entries \in Seq(1..cf.Keys) /\ job.rest \in Seq(1..cf.Keys)
        /\ job.kind \in {"none", "flush", "submit", "release"}
        /\ writes \in Seq(Writes(cf)) /\ chain \in Seq(Chains(cf))
    BY <1>0, OutFields DEF OutboxTypes
  <1>b. job.kind # "none" \/ job.stage # "none" => job.key \in 1..cf.Keys /\ job.kind # "none"
    BY <1>0, OutFields DEF JobFacts
  <1>c. ~Outbox(cf)!Ready => Awake BY <1>0 DEF Outbox!Ready, Outbox!None, Awake
  <1>1. ASSUME NEW s \in cf.Sessions, Outbox(cf)!Send(s) PROVE Sent(cf) /\ Awake
    <2>1. Awake BY <1>1, <1>c DEF Outbox!Send
    <2> DEFINE k == Outbox(cf)!Typed + 1
    <2>2. k \in 1..cf.Keys /\ \A j \in 1..cf.Keys : j < k <=> send[j].at # "unsent"
      BY <1>0, <1>1, TypedIs DEF Outbox!Send
    <2>3. PICK l \in BOOLEAN :
             /\ l => ~Outbox(cf)!MustQueue(s)
             /\ send' = [send EXCEPT ![k] = [sid |-> s, live |-> l, at |-> "chosen"]]
      BY <1>1 DEF Outbox!Send
    <2>4. l => up /\ \A x \in Range(entries) : send[x].sid # s
      BY <2>3, OutLists DEF Outbox!MustQueue
    <2>5. /\ \A j \in 1..cf.Keys : send[j].sid = s => send[j].at \notin BusyAt
          /\ UNCHANGED <<entries, disk, writes, claimed, chain, job, retry, up, dead, stray,
                         admitted, drafts, left>>
      BY <1>1 DEF Outbox!Send, Outbox!Busy, BusyAt
    <2> HIDE DEF k
    <2> QED BY <2>1, <2>2, <2>3, <2>4, <2>5 DEF Sent
  <1>2. ASSUME NEW k \in 1..cf.Keys, Outbox(cf)!Enqueue(k) PROVE Enters(cf)
    BY <1>2, <1>c, <1>0, EnqueueIs DEF Outbox!Enqueue, Enters, Turns1
  <1>3. CASE Outbox(cf)!Start
    <2>0. Head(chain) = chain[1] /\ 1 \in DOMAIN chain
      BY <1>3, <1>a, HeadTailIs DEF Outbox!Start
    <2>1. /\ job.kind = "none" /\ chain # <<>> /\ chain' = Tail(chain)
          /\ claimed' = claimed \ {job.key}
          /\ UNCHANGED <<entries, disk, writes, up, dead, stray, admitted, drafts, left>>
      BY <1>3 DEF Outbox!Start
    <2>2. CASE Outbox(cf)!StartFlush
      BY <1>0, <1>a, <2>0, <2>2, BodiesAre, <2>1 DEF Outbox!StartFlush, Starts, Steps
    <2>3. CASE Outbox(cf)!StartRelease
      BY <1>0, <1>a, <2>0, <2>3, BodiesAre, <2>1 DEF Outbox!StartRelease, Starts, Steps
    <2>4. CASE Outbox(cf)!StartSubmit
      <3> DEFINE k == chain[1].key
      <3>1. chain[1].kind = "submit" BY <2>0, <2>4 DEF Outbox!StartSubmit
      <3>2. k \in 1..cf.Keys /\ send[k].live /\ send[k].at = "submitting"
        BY <1>0, <2>0, <3>1, OutFields DEF ChainFacts
      <3>3. \/ job' = [kind |-> "submit", key |-> k, stage |-> "call", rest |-> <<>>]
               /\ send' = send
            \/ job' = Resting(k) /\ Turns1(k, "parked")
        BY <1>0, <2>0, <2>4, BodiesAre DEF Outbox!StartSubmit, Turns1
      <3> HIDE DEF k
      <3>4. chain[1].key = k BY DEF k
      <3> QED BY <2>1, <3>1, <3>2, <3>3, <3>4 DEF Starts, Steps
    <2> QED BY <1>3, <2>2, <2>3, <2>4 DEF Outbox!Start
  <1>4. CASE Outbox(cf)!Unclaim
    BY <1>0, <1>4, BodiesAre DEF Outbox!Unclaim, Unclaims, Steps
  <1>5. ASSUME NEW k \in 1..cf.Keys
        PROVE  /\ admitted' = Outbox(cf)!Lands(k) => Lands1(k) /\ k \in Range(admitted')
               /\ admitted' \in {admitted, Outbox(cf)!Lands(k)} => Lands1(k)
    <2>1. \/ Outbox(cf)!Lands(k) = admitted /\ k \in Range(admitted)
          \/ Outbox(cf)!Lands(k) = Append(admitted, k) /\ k \notin Range(admitted)
      BY OutLists DEF Outbox!Lands
    <2>2. k \in Range(Append(admitted, k))
      <3>1. admitted \in Seq(1..cf.Keys) BY <1>0 DEF OutboxTypes
      <3> QED BY <3>1, AppendIs DEF Range
    <2> QED BY <2>1, <2>2 DEF Lands1
  <1>6. CASE Outbox(cf)!OwnerTakes
    BY <1>6, <1>b, <1>0, ShrunkIs, <1>5 DEF Outbox!OwnerTakes, Takes, Steps
  <1>7. CASE Outbox(cf)!StrayEnds
    <2>1. PICK k \in stray : stray' = stray \ {k} /\ admitted' \in {admitted, Outbox(cf)!Lands(k)}
      BY <1>7 DEF Outbox!StrayEnds
    <2>2. k \in 1..cf.Keys BY <1>0 DEF OutboxTypes
    <2>3. Lands1(k) BY <1>5, <2>1, <2>2
    <2>4. UNCHANGED <<send, entries, disk, writes, claimed, chain, job, up, dead, drafts, left>>
          /\ Awake
      BY <1>7, <1>c DEF Outbox!StrayEnds
    <2> QED BY <2>1, <2>3, <2>4 DEF Strays, Steps
  <1>8. CASE Outbox(cf)!TakeOut
    <2>1. job.kind # "none" /\ job.stage \in {"receipt", "refused"} /\ job.key \in 1..cf.Keys
      BY <1>8, <1>b DEF Outbox!TakeOut, Outbox!Answered
    <2>2. entries' = Removed(entries, job.key) BY <1>8, OutLists DEF Outbox!TakeOut
    <2>3. Range(entries') = Range(entries) \ {job.key}
      BY <1>0, <1>a, RemovedIs, <2>2 DEF ListFacts, Listed
    <2>4. /\ writes' = Append(writes, [kind |-> "remove", key |-> job.key, value |-> entries'])
          /\ job' = [job EXCEPT !.stage = IF job.stage = "refused" THEN "dropping" ELSE "leaving"]
          /\ UNCHANGED <<send, disk, claimed, chain, up, dead, stray, admitted, drafts, left>>
      BY <1>8 DEF Outbox!TakeOut, Outbox!Write
    <2> QED BY <2>1, <2>2, <2>3, <2>4 DEF TakesOut, Steps
  <1>9. ASSUME Outbox(cf)!Fail, Outbox(cf)!OnWire, Shrunk,
               UNCHANGED <<entries, disk, writes, claimed, chain, dead, admitted, drafts>>
        PROVE  Fails(cf)
    BY <1>9, <1>a, <1>b, <1>0, BodiesAre DEF Outbox!OnWire, Outbox!Fail, Turns1, Fails
  <1>10. CASE Outbox(cf)!CallUnknown
    BY <1>0, <1>10, ShrunkIs, <1>9 DEF Outbox!CallUnknown, Steps
  <1>11. CASE Outbox(cf)!LinkDown
    BY <1>0, <1>11, <1>c, ShrunkIs, <1>9 DEF Outbox!LinkDown, Steps, Links
  <1>12. CASE Outbox(cf)!LinkUp \/ Outbox(cf)!Degrade \/ Outbox(cf)!RetryFires
    BY <1>0, <1>12, <1>c, ShrunkIs DEF Outbox!LinkUp, Outbox!Degrade, Outbox!RetryFires,
       Outbox!Chained, Outbox!None, Links, Steps
  <1>13. CASE Outbox(cf)!Written
    <2> DEFINE w == Head(writes)
    <2>1. writes # <<>> /\ Awake BY <1>13, <1>c DEF Outbox!Written
    <2>2. 1 \in DOMAIN writes /\ w = writes[1] BY <1>a, <2>1, HeadTailIs
    <2>3. w.key \in 1..cf.Keys BY <1>0, <2>2, OutFields
    <2>4. UNCHANGED <<entries, up, dead, stray, admitted, left>> BY <1>13 DEF Outbox!Written
    <2>5. \/ w.kind = "enqueue" /\ disk' = w.value /\ Outbox(cf)!EnqueueReturns(w.key)
          \/ w.kind = "remove" /\ disk' = w.value /\ Outbox(cf)!RemoveReturns(w.key)
          \/ /\ w.kind = "draft" /\ drafts' = drafts \cup {w.key} /\ writes' = Tail(writes)
             /\ UNCHANGED <<send, disk, chain, claimed, job>>
      BY <1>13 DEF Outbox!Written
    <2> HIDE DEF w
    <2>6. CASE w.kind = "enqueue" /\ disk' = w.value /\ Outbox(cf)!EnqueueReturns(w.key)
      <3>1. send[w.key].at = "saving" BY <1>0, <2>2, <2>6 DEF WriteFacts
      <3>2. send[w.key].live \in BOOLEAN
        BY <1>0, <2>3, OutFields DEF Sends
      <3>3. \/ send[w.key].live /\ Turns1(w.key, "submitting") /\ claimed' = claimed \cup {w.key}
               /\ chain' = Append(chain, [kind |-> "submit", key |-> w.key])
            \/ ~send[w.key].live /\ Turns1(w.key, "queued") /\ claimed' = claimed
               /\ chain' = Append(chain, [kind |-> "flush", key |-> 0])
        BY <2>6, <3>2 DEF Outbox!EnqueueReturns, Outbox!Chained, Outbox!None, Turns1
      <3>4. writes' = Tail(writes) /\ UNCHANGED <<job, drafts>>
        BY <2>6 DEF Outbox!EnqueueReturns
      <3> QED BY <2>1, <2>2, <2>3, <2>4, <2>6, <3>1, <3>3, <3>4 DEF SavesEntry, Steps
    <2>7. CASE w.kind = "remove" /\ disk' = w.value /\ Outbox(cf)!RemoveReturns(w.key)
      <3>1. job.stage \in {"leaving", "dropping"} /\ job.key = w.key
        BY <1>0, <2>2, <2>7 DEF WriteFacts
      <3>2. job.kind # "none" /\ job.key \in 1..cf.Keys BY <1>b, <3>1
      <3>3. UNCHANGED <<claimed, chain, drafts>> BY <2>7 DEF Outbox!RemoveReturns
      <3>4. CASE job.kind = "submit"
        BY <1>0, <2>7, <3>1, <3>4, BodiesAre, <2>1, <2>2, <2>4, <3>2, <3>3 DEF Outbox!RemoveReturns,
           Turns1, SavesRemoval, Steps
      <3>5. CASE job.kind = "flush"
        BY <1>0, <1>a, <2>7, <3>1, <3>5, BodiesAre, <2>1, <2>2, <2>4, <3>2, <3>3
           DEF Outbox!RemoveReturns, Outbox!Refused, SavesRemoval, Steps
      <3>6. CASE job.kind = "release"
        BY <1>0, <3>1, <3>6, <1>a, <2>7, BodiesAre, <2>1, <2>2, <2>4, <3>2, <3>3 DEF JobFacts,
           Outbox!RemoveReturns, Outbox!Refused, SavesRemoval, Steps
      <3> QED BY <1>a, <3>2, <3>4, <3>5, <3>6
    <2>8. CASE /\ w.kind = "draft" /\ drafts' = drafts \cup {w.key} /\ writes' = Tail(writes)
               /\ UNCHANGED <<send, disk, chain, claimed, job>>
      BY <2>1, <2>2, <2>4, <2>8 DEF SavesDraft, Steps
    <2> QED BY <2>5, <2>6, <2>7, <2>8
  <1>14. CASE Outbox(cf)!Crash
    <2>1. Shrunk BY <1>0, <1>14, ShrunkIs DEF Outbox!Crash
    <2>2. Reread(cf) BY <1>14, OutLists DEF Outbox!Crash, Reread, Outbox!Busy, BusyAt
    <2> QED BY <1>0, <1>14, <2>1, <2>2, BodiesAre DEF Outbox!Crash, Crashes, Outbox!Loaded, Steps
  <1>15. CASE UNCHANGED Outbox(cf)!vars BY <1>15 DEF Outbox!vars, Still, Steps
  <1> QED
    BY <1>1, <1>2, <1>3, <1>4, <1>6, <1>7, <1>8, <1>10, <1>11, <1>12, <1>13, <1>14, <1>15
    DEF Outbox!Next, Steps

-----------------------------------------------------------------------------
(* The bodies, the chain and the claims.                                   *)

\* Only a new send makes a text of one that was not sent.
Plain(cf) == \A k \in 1..cf.Keys : /\ send'[k].sid = send[k].sid /\ send'[k].live = send[k].live
                                   /\ send'[k].at = "unsent" <=> send[k].at = "unsent"

LEMMA TurnsAre ==
  ASSUME NEW cf, OutboxTypes(cf), NEW k \in 1..cf.Keys, NEW a, Turns1(k, a)
  PROVE  /\ \A j \in 1..cf.Keys : j # k => send'[j] = send[j]
         /\ send'[k].at = a /\ send'[k].live = send[k].live /\ send'[k].sid = send[k].sid
  BY Turns1(k, a), k \in 1..cf.Keys DEF OutboxTypes, Sends, Turns1

LEMMA SentIs ==
  ASSUME NEW cf, OutboxTypes(cf), Sent(cf)
  PROVE  \E k \in 1..cf.Keys, s \in cf.Sessions :
            /\ send[k].at = "unsent" /\ send'[k].at = "chosen" /\ send'[k].sid = s
            /\ \A j \in 1..cf.Keys : j # k => send'[j] = send[j]
            /\ \A j \in 1..cf.Keys : j < k <=> send[j].at # "unsent"
            /\ \A j \in 1..cf.Keys : send[j].sid = s => send[j].at \notin BusyAt
            /\ send'[k].live => \A x \in Range(entries) : send[x].sid # s
            /\ UNCHANGED <<entries, disk, writes, claimed, chain, job, up, dead, stray,
                           admitted, drafts, left>>
  <1>1. PICK k \in 1..cf.Keys, s \in cf.Sessions, l \in BOOLEAN :
             /\ send' = [send EXCEPT ![k] = [sid |-> s, live |-> l, at |-> "chosen"]]
             /\ \A j \in 1..cf.Keys : j < k <=> send[j].at # "unsent"
             /\ \A j \in 1..cf.Keys : send[j].sid = s => send[j].at \notin BusyAt
             /\ l => up /\ \A x \in Range(entries) : send[x].sid # s
             /\ UNCHANGED <<entries, disk, writes, claimed, chain, job, retry, up, dead, stray,
                            admitted, drafts, left>>
    BY ONLY Sent(cf) DEF Sent
  <1>2. send \in [1..cf.Keys -> Sends(cf)] BY DEF OutboxTypes
  <1>3. /\ \A j \in 1..cf.Keys : j # k => send'[j] = send[j]
        /\ send'[k] = [sid |-> s, live |-> l, at |-> "chosen"]
    BY ONLY <1>1, <1>2
  <1>4. send[k].at = "unsent" BY <1>1
  <1> QED BY <1>1, <1>3, <1>4

LEMMA RereadIs ==
  ASSUME NEW cf, OutboxTypes(cf), Reread(cf)
  PROVE  \A k \in 1..cf.Keys :
            /\ send'[k].sid = send[k].sid /\ send'[k].live = send[k].live
            /\ send[k].at \notin BusyAt => send'[k] = send[k]
            /\ send[k].at \in BusyAt =>
                  send'[k].at = IF k \in Range(disk) THEN "queued" ELSE "kept"
  BY DEF Reread, OutboxTypes, Sends

\* A body that flushes goes on with an entry that is no live turn under way.
LEMMA FlushingIs ==
  ASSUME NEW cf, OutboxTypes(cf), ClaimFacts(cf), NEW q \in Seq(1..cf.Keys), Listed(send, q),
         NEW b, Flushing(q, b)
  PROVE  \/ b = Resting(0)
         \/ /\ b.kind = "flush" /\ b.stage = "call" /\ b.key \in Range(q)
            /\ b.key \in 1..cf.Keys /\ Entered(send, b.key)
            /\ ~(send[b.key].live /\ send[b.key].at \in BusyAt)
  <1>1. CASE b = Resting(0) BY <1>1
  <1>2. CASE b # Resting(0)
    <2>1. PICK i \in DOMAIN q : /\ q[i] \notin claimed
                                /\ b = [kind |-> "flush", key |-> q[i], stage |-> "call",
                                        rest |-> SubSeq(q, i + 1, Len(q))]
      BY <1>2 DEF Flushing
    <2>2. q[i] \in 1..cf.Keys /\ q[i] \in Range(q) /\ Entered(send, q[i])
      BY LenProperties, ElementOfSeq DEF Range, Listed
    <2>3. ~(send[q[i]].live /\ send[q[i]].at \in BusyAt)
      BY <2>1, <2>2 DEF ClaimFacts, BusyAt, Entered
    <2> QED BY <2>1, <2>2, <2>3
  <1> QED BY <1>1, <1>2

LEMMA ReleasingIs ==
  ASSUME NEW n \in Nat, NEW snd, NEW q \in Seq(1..n), Listed(snd, q),
         NEW b, Releasing(q, b)
  PROVE  \/ b = Resting(0)
         \/ /\ b.kind = "release" /\ b.stage = "refused" /\ b.key \in 1..n /\ Entered(snd, b.key)
            /\ b.key \in Range(q)
  <1>1. CASE b = Resting(0) BY <1>1
  <1>2. CASE b # Resting(0)
    BY <1>2, HeadTailIs DEF Releasing, Range, Listed
  <1> QED BY <1>1, <1>2

\* A body that is not another one still knows what it did about its text.
LEMMA SameJob ==
  ASSUME NEW cf, OutboxTypes(cf), JobFacts(cf), Aged(cf), Awake,
         job'.kind = job.kind, job'.key = job.key, job'.rest = job.rest,
         job.kind = "none" => job'.stage = "none",
         job.kind # "none" => job'.stage # "none",
         job.kind = "release" => job'.stage \in {"refused", "dropping"},
         job.kind = "submit" => send'[job.key] = send[job.key],
         job'.stage \in {"receipt", "leaving"} => job.key \in Range(admitted')
  PROVE  JobFacts(cf)'
  BY OutFields DEF JobFacts, Aged, Entered, BusyAt, Awake

\* A body that is over leaves its key to be unclaimed, if any.
LEMMA RestingJob ==
  ASSUME NEW cf, OutboxTypes(cf), NEW k \in 0..cf.Keys, job' = Resting(k),
         k # 0 => /\ Plain(cf) /\ Latest(cf, k)
                  /\ send'[k].at \in {"parked", "done", "kept"}
  PROVE  JobFacts(cf)'
  BY DEF Resting, Latest, Plain, JobFacts

LEMMA FlushJob ==
  ASSUME NEW cf, OutboxTypes(cf), ClaimFacts(cf), cf.Keys \in Nat, NEW q \in Seq(1..cf.Keys), Listed(send, q),
         Flushing(q, job'), send' = send
  PROVE  JobFacts(cf)'
  BY RestingJob, FlushingIs DEF JobFacts

LEMMA ReleaseJob ==
  ASSUME NEW cf, OutboxTypes(cf), cf.Keys \in Nat, NEW q \in Seq(1..cf.Keys), Listed(send, q),
         Releasing(q, job'), send' = send
  PROVE  JobFacts(cf)'
  BY RestingJob, ReleasingIs DEF JobFacts

LEMMA PlainIs ==
  ASSUME NEW cf, OutboxTypes(cf), SendFacts(cf), JobFacts(cf), ChainFacts(cf), WriteFacts(cf),
         Outbox(cf)!OutboxAssumption, [Outbox(cf)!Next]_(Outbox(cf)!vars)
  PROVE  Sent(cf) \/ Plain(cf)
  <1>1. CASE send' = send BY <1>1 DEF Plain
  <1>2. CASE Turned(cf)
    <2>1. PICK k \in 1..cf.Keys, a \in At : send' = [send EXCEPT ![k].at = a] /\ Follows(send[k].at, a)
      BY <1>2 DEF Turned
    <2>2. Turns1(k, a) BY <2>1 DEF Turns1
    <2>3. send[k].at # "unsent" /\ a # "unsent" BY <2>1 DEF Follows
    <2> QED BY <2>2, <2>3, TurnsAre DEF Plain
  <1>3. CASE Reread(cf) BY <1>3, RereadIs DEF Plain, BusyAt
  <1> QED BY <1>1, <1>2, <1>3, SendIs

LEMMA JobFactsKept ==
  ASSUME NEW cf, OutboxInv(cf),
         Outbox(cf)!OutboxAssumption, [Outbox(cf)!Next]_(Outbox(cf)!vars)
  PROVE  JobFacts(cf)'
  <1>0. /\ OutboxTypes(cf) /\ SendFacts(cf) /\ ListFacts(cf) /\ JobFacts(cf) /\ ChainFacts(cf)
        /\ ClaimFacts(cf) /\ WriteFacts(cf) /\ cf.Keys \in Nat
    BY DEF OutboxInv, Outbox!OutboxAssumption
  <1>a. Aged(cf) /\ (Sent(cf) \/ Plain(cf)) /\ Steps(cf) BY <1>0, SendAges, PlainIs, StepsAre
  <1>b. /\ Listed(send, entries) /\ entries \in Seq(1..cf.Keys)
        /\ Listed(send, job.rest) /\ job.rest \in Seq(1..cf.Keys)
    BY <1>0, OutFields DEF ListFacts, OutboxTypes
  <1>c. job.kind # "none" => job.key \in 1..cf.Keys /\ Entered(send, job.key)
    BY <1>0, OutFields DEF JobFacts
  <1>d. \A k \in 1..cf.Keys : send[k].at = "submitting" => Latest(cf, k)
    BY <1>0 DEF SendFacts, BusyAt
  <1>e. ASSUME NEW s, job' = [job EXCEPT !.stage = s]
        PROVE  job'.kind = job.kind /\ job'.key = job.key /\ job'.rest = job.rest /\ job'.stage = s
    BY <1>0, <1>e DEF OutboxTypes, Outbox!Jobs
  <1>1. ASSUME Awake, UNCHANGED <<job, admitted>>,
               job.kind = "submit" => send'[job.key] = send[job.key]
        PROVE  JobFacts(cf)'
    BY <1>1, <1>0, <1>a, SameJob DEF JobFacts
  <1>2. CASE Sent(cf) /\ Awake
    BY <1>0, <1>2, <1>c, SentIs, <1>1 DEF Entered, Sent
  <1>3. CASE Enters(cf)
    <2>1. PICK k \in 1..cf.Keys : /\ Awake /\ send[k].at = "chosen" /\ Turns1(k, "saving")
                                  /\ UNCHANGED <<job, admitted>>
      BY <1>3 DEF Enters
    <2>2. job.kind = "submit" => send'[job.key] = send[job.key]
      BY <1>0, <1>c, <2>1, TurnsAre DEF Entered
    <2> QED BY <1>1, <2>1, <2>2
  <1>4. CASE Starts(cf)
    <2>1. CASE send' = send /\ Flushing(entries, job') BY <1>0, <1>b, <2>1, FlushJob
    <2>2. CASE send' = send /\ Releasing(entries, job') BY <1>0, <1>b, <2>2, ReleaseJob
    <2>3. ASSUME NEW k \in 1..cf.Keys, send[k].live /\ send[k].at = "submitting"
                                   /\ send' = send,
                 job' = [kind |-> "submit", key |-> k, stage |-> "call", rest |-> <<>>]
          PROVE  JobFacts(cf)'
      BY <2>3 DEF JobFacts, Entered
    <2>4. ASSUME NEW k \in 1..cf.Keys, send[k].live /\ send[k].at = "submitting",
                 job' = Resting(k), Turns1(k, "parked"), Plain(cf)
          PROVE  JobFacts(cf)'
      BY <1>0, <1>d, <2>4, TurnsAre, RestingJob
    <2>5. ASSUME NEW k \in 1..cf.Keys, Turns1(k, "parked"), send[k].at = "submitting"
          PROVE  Plain(cf)
      BY <1>0, <2>5, TurnsAre DEF Plain
    <2> QED BY <1>4, <2>1, <2>2, <2>3, <2>4, <2>5 DEF Starts
  <1>5. CASE Unclaims BY <1>0, <1>5, RestingJob DEF Unclaims
  <1>6. CASE Takes(cf)
    BY <1>6, <1>e, <1>0, <1>a, SameJob DEF Takes, JobFacts, Awake
  <1>7. CASE Strays
    <2>1. PICK k \in stray : Lands1(k) BY <1>7 DEF Strays
    <2>2. \A x \in Range(admitted) : x \in Range(admitted')
      <3>1. CASE admitted' = admitted BY <3>1
      <3>2. CASE admitted' = Append(admitted, k)
        <4>1. k \in 1..cf.Keys /\ admitted \in Seq(1..cf.Keys) BY <1>0 DEF OutboxTypes
        <4> QED BY <3>2, <4>1, AppendIs DEF Range
      <3> QED BY <2>1, <3>1, <3>2 DEF Lands1
    <2>3. Awake /\ job' = job /\ send' = send BY <1>7 DEF Strays
    <2>4. /\ job'.stage \in {"receipt", "leaving"} => job.key \in Range(admitted')
          /\ job.kind = "release" => job'.stage \in {"refused", "dropping"}
          /\ job.kind = "none" => job'.stage = "none"
          /\ job.kind # "none" => job'.stage # "none"
      BY <1>0, <2>2, <2>3 DEF JobFacts
    <2> QED BY <1>0, <1>a, <2>3, <2>4, SameJob
  <1>8. CASE TakesOut(cf)
    BY <1>8, <1>e, <1>0, <1>a, SameJob DEF TakesOut, JobFacts, Awake
  <1>9. CASE Fails(cf)
    <2>1. CASE job' = Resting(0) BY <1>0, <2>1, RestingJob
    <2>2. CASE job.kind = "submit" /\ job' = Resting(job.key) /\ Turns1(job.key, "parked")
      BY <1>0, <1>c, <2>2, <1>d, TurnsAre, RestingJob DEF JobFacts, Plain
    <2> QED BY <1>9, <2>1, <2>2 DEF Fails
  <1>10. CASE Links(cf) BY <1>1, <1>10 DEF Links
  <1>11. CASE SavesEntry(cf)
    <2>1. PICK k \in 1..cf.Keys, a \in At : /\ Awake /\ send[k].at = "saving" /\ Turns1(k, a)
                                            /\ UNCHANGED <<job, admitted>>
      BY <1>11 DEF SavesEntry, At
    <2>2. job.kind = "submit" => send'[job.key] = send[job.key]
      BY <1>0, <1>c, <2>1, TurnsAre DEF JobFacts
    <2> QED BY <1>1, <2>1, <2>2
  <1>12. CASE SavesRemoval(cf)
    <2>1. CASE job.kind = "submit"
      BY <1>12, <2>1, <1>0, <1>c, <1>d, TurnsAre, RestingJob DEF SavesRemoval, JobFacts, Plain
    <2>2. CASE send' = send /\ Flushing(job.rest, job') BY <1>0, <1>b, <2>2, FlushJob
    <2>3. CASE send' = send /\ Releasing(job.rest, job') BY <1>0, <1>b, <2>3, ReleaseJob
    <2> QED BY <1>12, <2>1, <2>2, <2>3 DEF SavesRemoval
  <1>13. CASE SavesDraft(cf) BY <1>1, <1>13 DEF SavesDraft
  <1>14. CASE Crashes(cf) BY <1>0, <1>14, RestingJob DEF Crashes
  <1>15. CASE Still BY <1>0, <1>15 DEF Still, JobFacts, Entered, Latest
  <1> QED
    BY <1>2, <1>3, <1>4, <1>5, <1>6, <1>7, <1>8, <1>9, <1>10, <1>11, <1>12, <1>13, <1>14, <1>15,
       <1>a
    DEF Steps

\* The turns on the chain, when some of the chain is done.
LEMMA ChainShifts ==
  ASSUME NEW cf, OutboxTypes(cf), ChainFacts(cf), NEW d \in {0, 1}, DOMAIN chain' \subseteq Nat,
         \A i \in DOMAIN chain' : i + d \in DOMAIN chain /\ chain'[i] = chain[i + d],
         \A i \in DOMAIN chain' : chain'[i].kind = "submit" =>
            /\ send'[chain'[i].key] = send[chain'[i].key]
            /\ job'.kind = "submit" => job'.key # chain'[i].key
  PROVE  ChainFacts(cf)'
  <1>1. ASSUME NEW i \in DOMAIN chain', chain'[i].kind = "submit"
        PROVE  /\ chain'[i].key # 0 /\ send'[chain'[i].key].live
               /\ send'[chain'[i].key].at = "submitting"
    BY <1>1 DEF ChainFacts
  <1>2. ASSUME NEW i \in DOMAIN chain', NEW j \in DOMAIN chain', chain'[i].kind = "submit",
               chain'[j].kind = "submit", chain'[j].key = chain'[i].key
        PROVE  i = j
    BY <1>2, d \in {0, 1} DEF ChainFacts
  <1> QED BY <1>1, <1>2 DEF ChainFacts

LEMMA ChainGrows ==
  ASSUME NEW cf, OutboxTypes(cf), ChainFacts(cf), NEW e \in Chains(cf),
         chain' = Append(chain, e),
         \A i \in DOMAIN chain : chain[i].kind = "submit" =>
            /\ send'[chain[i].key] = send[chain[i].key]
            /\ job'.kind = "submit" => job'.key # chain[i].key,
         e.kind = "submit" =>
            /\ e.key # 0 /\ send'[e.key].live /\ send'[e.key].at = "submitting"
            /\ send[e.key].at = "saving"
            /\ job'.kind = "submit" => job'.key # e.key
  PROVE  ChainFacts(cf)'
  <1>0. /\ DOMAIN chain = 1..Len(chain) /\ Len(chain) \in Nat
        /\ DOMAIN chain' = 1..(Len(chain) + 1)
        /\ \A i \in 1..Len(chain) : chain'[i] = chain[i]
        /\ chain'[Len(chain) + 1] = e
    BY AppendIs DEF OutboxTypes
  <1>1. \A i \in DOMAIN chain' : i \in DOMAIN chain \/ i = Len(chain) + 1 BY <1>0
  <1>2. \A i \in DOMAIN chain : chain[i].kind = "submit" => send[chain[i].key].at = "submitting"
    BY DEF ChainFacts
  <1>3. ASSUME NEW i \in DOMAIN chain', chain'[i].kind = "submit"
        PROVE  /\ chain'[i].key # 0 /\ send'[chain'[i].key].live
               /\ send'[chain'[i].key].at = "submitting"
               /\ job'.kind = "submit" => job'.key # chain'[i].key
    BY <1>0, <1>3, <1>1 DEF ChainFacts
  <1>4. ASSUME NEW i \in DOMAIN chain', NEW j \in DOMAIN chain', chain'[i].kind = "submit",
               chain'[j].kind = "submit", chain'[j].key = chain'[i].key
        PROVE  i = j
    BY <1>0, <1>4, <1>2, <1>1 DEF ChainFacts
  <1> QED BY <1>3, <1>4 DEF ChainFacts

LEMMA ChainFactsKept ==
  ASSUME NEW cf, OutboxInv(cf),
         Outbox(cf)!OutboxAssumption, [Outbox(cf)!Next]_(Outbox(cf)!vars)
  PROVE  ChainFacts(cf)'
  <1>0. /\ OutboxTypes(cf) /\ SendFacts(cf) /\ ListFacts(cf) /\ JobFacts(cf) /\ ChainFacts(cf)
        /\ ClaimFacts(cf) /\ WriteFacts(cf) /\ cf.Keys \in Nat
    BY DEF OutboxInv, Outbox!OutboxAssumption
  <1>a. Steps(cf) BY <1>0, StepsAre
  <1>b. /\ DOMAIN chain = 1..Len(chain) /\ Len(chain) \in Nat
        /\ \A i \in DOMAIN chain : chain[i].key \in 0..cf.Keys /\ i \in Nat
    BY <1>0, OutFields
  <1>c. \A i \in DOMAIN chain : chain[i].kind = "submit" =>
           /\ chain[i].key \in 1..cf.Keys /\ send[chain[i].key].at = "submitting"
           /\ send[chain[i].key].live /\ (job.kind = "submit" => job.key # chain[i].key)
    BY <1>0, <1>b DEF ChainFacts
  <1>1. ASSUME chain' = chain, job'.kind = "submit" => job.kind = "submit" /\ job'.key = job.key,
               \A k \in 1..cf.Keys : send[k].at = "submitting" =>
                  send'[k] = send[k] \/ (job.kind = "submit" /\ k = job.key)
        PROVE  ChainFacts(cf)'
    BY <1>1, <1>b, <1>c, <1>0, ChainShifts
  <1>2. ASSUME NEW k \in 1..cf.Keys, NEW a, Turns1(k, a), send[k].at # "submitting"
        PROVE  \A j \in 1..cf.Keys : send[j].at = "submitting" => send'[j] = send[j]
    BY <1>0, <1>2, TurnsAre
  <1>3. CASE Sent(cf)
    BY <1>0, <1>3, SentIs, <1>1
  <1>4. CASE Enters(cf)
    <2>1. PICK k \in 1..cf.Keys : send[k].at = "chosen" /\ Turns1(k, "saving")
                                  /\ UNCHANGED <<chain, job>>
      BY <1>4 DEF Enters
    <2>2. \A j \in 1..cf.Keys : send[j].at = "submitting" => send'[j] = send[j] BY <1>2, <2>1
    <2> QED BY <1>1, <2>1, <2>2
  <1>5. CASE Starts(cf)
    <2>1. /\ chain # <<>> /\ chain' = Tail(chain) BY <1>5 DEF Starts
    <2>2. /\ DOMAIN chain' \subseteq Nat /\ 1 \in DOMAIN chain
          /\ \A i \in DOMAIN chain' : i + 1 \in DOMAIN chain /\ chain'[i] = chain[i + 1] /\ i + 1 # 1
      BY <1>0, <2>1, HeadTailIs, <1>b DEF OutboxTypes
    <2>3. ASSUME send' = send, job'.kind # "submit" PROVE ChainFacts(cf)'
      BY <1>0, <2>2, <2>3, ChainShifts
    <2>4. CASE send' = send /\ Flushing(entries, job')
      BY <2>4, <2>3 DEF Flushing, Resting
    <2>5. CASE send' = send /\ Releasing(entries, job')
      BY <2>5, <2>3 DEF Releasing, Resting
    <2>6. ASSUME NEW k \in 1..cf.Keys, chain[1].kind = "submit", chain[1].key = k,
                 \/ job' = [kind |-> "submit", key |-> k, stage |-> "call", rest |-> <<>>]
                    /\ send' = send
                 \/ job' = Resting(k) /\ Turns1(k, "parked")
          PROVE  ChainFacts(cf)'
      BY <1>0, <2>2, <2>6, TurnsAre, <1>c, ChainShifts DEF ChainFacts, Resting
    <2> QED BY <1>5, <2>4, <2>5, <2>6 DEF Starts
  <1>6. CASE Unclaims BY <1>1, <1>6 DEF Unclaims, Resting
  <1>7. CASE Takes(cf) \/ TakesOut(cf)
    BY <1>7, <1>0, <1>1 DEF Takes, TakesOut, OutboxTypes, Outbox!Jobs
  <1>8. CASE Strays \/ SavesDraft(cf) \/ Still BY <1>1, <1>8 DEF Strays, SavesDraft, Still
  <1>9. ASSUME NEW a, job.kind = "submit", job' = Resting(job.key), Turns1(job.key, a), chain' = chain
        PROVE  ChainFacts(cf)'
    BY <1>0, <1>9, OutFields, TurnsAre, <1>1 DEF JobFacts, Resting
  <1>10. CASE Fails(cf)
    BY <1>10, <1>1, <1>9 DEF Fails, Resting
  <1>11. ASSUME NEW kd \in {"flush", "release"}, UNCHANGED <<send, job>>,
                chain' = Append(chain, [kind |-> kd, key |-> 0])
         PROVE  ChainFacts(cf)'
    <2> DEFINE e == [kind |-> kd, key |-> 0]
    <2>1. e \in Chains(cf) /\ e.kind # "submit" BY <1>0 DEF Chains
    <2> HIDE DEF e
    <2>2. chain' = Append(chain, e) BY <1>11 DEF e
    <2>3. \A i \in DOMAIN chain : chain[i].kind = "submit" =>
            /\ send'[chain[i].key] = send[chain[i].key]
            /\ job'.kind = "submit" => job'.key # chain[i].key
      BY <1>11, <1>c
    <2> QED BY <1>0, <2>1, <2>2, <2>3, ChainGrows
  <1>12. CASE Links(cf)
    <2>1. UNCHANGED <<send, job>> BY <1>12 DEF Links
    <2>2. CASE chain' = chain BY <1>1, <2>1, <2>2
    <2>3. CASE chain' # chain
      BY <1>12, <2>3, <1>11, <2>1 DEF Links
    <2> QED BY <2>2, <2>3
  <1>13. CASE SavesEntry(cf)
    <2>1. PICK k \in 1..cf.Keys :
             /\ send[k].at = "saving" /\ job' = job
             /\ \/ /\ send[k].live /\ Turns1(k, "submitting")
                   /\ chain' = Append(chain, [kind |-> "submit", key |-> k])
                \/ /\ Turns1(k, "queued")
                   /\ chain' = Append(chain, [kind |-> "flush", key |-> 0])
      BY <1>13 DEF SavesEntry
    <2>2. PICK a \in {"submitting", "queued"}, e \in Chains(cf) :
             /\ Turns1(k, a) /\ chain' = Append(chain, e)
             /\ e.kind = "submit" => e.key = k /\ send[k].live /\ a = "submitting"
      BY <1>0, <2>1 DEF Chains
    <2>3. /\ \A j \in 1..cf.Keys : j # k => send'[j] = send[j]
          /\ send'[k].at = a /\ send'[k].live = send[k].live
      BY <1>0, <2>2, TurnsAre
    <2>4. \A i \in DOMAIN chain : chain[i].kind = "submit" => chain[i].key # k
      BY <1>c, <2>1
    <2>5. job.kind = "submit" => job.key # k BY <1>0, <2>1 DEF JobFacts
    <2>6. \A i \in DOMAIN chain : chain[i].kind = "submit" =>
            /\ send'[chain[i].key] = send[chain[i].key]
            /\ job'.kind = "submit" => job'.key # chain[i].key
      BY <1>c, <2>1, <2>3, <2>4
    <2>7. e.kind = "submit" =>
            /\ e.key # 0 /\ send'[e.key].live /\ send'[e.key].at = "submitting"
            /\ send[e.key].at = "saving"
            /\ job'.kind = "submit" => job'.key # e.key
      BY <2>1, <2>2, <2>3, <2>5
    <2> QED BY <1>0, <2>2, <2>6, <2>7, ChainGrows
  <1>14. CASE SavesRemoval(cf)
    <2>1. chain' = chain BY <1>14 DEF SavesRemoval
    <2>2. CASE job.kind = "submit" BY <1>9, <1>14, <2>1, <2>2 DEF SavesRemoval
    <2>3. CASE send' = send /\ Flushing(job.rest, job')
      BY <2>3, <1>1, <2>1 DEF Flushing, Resting
    <2>4. CASE send' = send /\ Releasing(job.rest, job')
      BY <2>4, <1>1, <2>1 DEF Releasing, Resting
    <2> QED BY <1>14, <2>2, <2>3, <2>4 DEF SavesRemoval
  <1>15. CASE Crashes(cf) BY <1>15 DEF Crashes, ChainFacts
  <1> QED
    BY <1>3, <1>4, <1>5, <1>6, <1>7, <1>8, <1>10, <1>12, <1>13, <1>14, <1>15, <1>a DEF Steps

LEMMA ClaimFactsKept ==
  ASSUME NEW cf, OutboxInv(cf),
         Outbox(cf)!OutboxAssumption, [Outbox(cf)!Next]_(Outbox(cf)!vars)
  PROVE  ClaimFacts(cf)'
  <1>0. /\ OutboxTypes(cf) /\ JobFacts(cf) /\ ClaimFacts(cf) /\ cf.Keys \in Nat
    BY DEF OutboxInv, Outbox!OutboxAssumption
  <1>a. Steps(cf) BY <1>0, StepsAre
  <1>b. job.key \in 0..cf.Keys BY <1>0, OutFields
  <1> DEFINE Under(snd, k) == snd[k].live /\ snd[k].at \in {"saving", "submitting"}
  <1>c. \A k \in 1..cf.Keys : /\ Under(send, k) => k \in claimed
                              /\ k \in claimed => Under(send, k) \/ (job.kind = "none" /\ job.key = k)
    BY <1>0 DEF ClaimFacts
  <1>d. ASSUME \A k \in 1..cf.Keys :
                  /\ Under(send', k) => k \in claimed'
                  /\ k \in claimed' => Under(send', k) \/ (job'.kind = "none" /\ job'.key = k)
        PROVE  ClaimFacts(cf)'
    BY <1>d DEF ClaimFacts
  <1>e. Awake => \A k \in 1..cf.Keys : k \in claimed => Under(send, k)
    BY <1>c DEF Awake
  <1>1. CASE Sent(cf) /\ Awake
    <2>1. PICK k \in 1..cf.Keys : /\ send[k].at = "unsent" /\ send'[k].at = "chosen"
                                  /\ \A j \in 1..cf.Keys : j # k => send'[j] = send[j]
                                  /\ UNCHANGED <<claimed, job>>
      BY <1>0, <1>1, SentIs
    <2>2. k \notin claimed BY <1>1, <1>e, <2>1
    <2> QED BY <1>c, <1>d, <2>1, <2>2
  <1>2. CASE Enters(cf)
    <2>1. PICK k \in 1..cf.Keys : /\ Awake /\ send[k].at = "chosen" /\ Turns1(k, "saving")
                                  /\ claimed' = claimed \cup (IF send[k].live THEN {k} ELSE {})
                                  /\ job' = job
      BY <1>2 DEF Enters
    <2>2. /\ \A j \in 1..cf.Keys : j # k => send'[j] = send[j]
          /\ send'[k].at = "saving" /\ send'[k].live = send[k].live
      BY <1>0, <2>1, TurnsAre
    <2>3. k \notin claimed BY <1>e, <2>1
    <2> QED BY <1>c, <1>d, <2>1, <2>2, <2>3
  <1>3. CASE Starts(cf) \/ Unclaims
    <2>1. job.kind = "none" /\ claimed' = claimed \ {job.key} BY <1>3 DEF Starts, Unclaims
    <2>2. ~(job.key \in 1..cf.Keys /\ Under(send, job.key)) BY <1>0, <2>1 DEF JobFacts
    <2>3. \/ send' = send
          \/ \E k \in 1..cf.Keys : job' = Resting(k) /\ Turns1(k, "parked")
      BY <1>3 DEF Starts, Unclaims
    <2>4. \A k \in 1..cf.Keys : (Under(send, k) => k \in claimed') /\ (k \in claimed' => Under(send, k))
      BY <1>c, <2>1, <2>2
    <2>5. CASE send' = send BY <1>d, <2>4, <2>5
    <2>6. ASSUME NEW k \in 1..cf.Keys, job' = Resting(k), Turns1(k, "parked") PROVE ClaimFacts(cf)'
      BY <1>0, <2>6, TurnsAre, <1>d, <2>4 DEF Resting
    <2> QED BY <2>3, <2>5, <2>6
  <1>4. CASE Takes(cf) \/ TakesOut(cf)
    BY <1>4, <1>0, <1>c, <1>d DEF Takes, TakesOut, OutboxTypes, Outbox!Jobs
  <1>5. CASE UNCHANGED <<claimed, send, job>> BY <1>c, <1>d, <1>5
  <1>6. CASE Strays \/ Links(cf) \/ SavesDraft(cf) \/ Still
    BY <1>5, <1>6 DEF Strays, Links, SavesDraft, Still
  <1>7. ASSUME NEW a, a \notin {"saving", "submitting"}, job.kind = "submit",
               job' = Resting(job.key), Turns1(job.key, a), claimed' = claimed
        PROVE  ClaimFacts(cf)'
    BY <1>0, <1>7, <1>b, TurnsAre, <1>c, <1>d DEF JobFacts, Resting
  <1>8. ASSUME job.kind # "none", UNCHANGED <<claimed, send>> PROVE ClaimFacts(cf)'
    BY <1>c, <1>d, <1>8
  <1>9. CASE Fails(cf) BY <1>7, <1>8, <1>9 DEF Fails
  <1>10. CASE SavesEntry(cf)
    <2>1. PICK k \in 1..cf.Keys :
             /\ Awake /\ send[k].at = "saving" /\ job' = job
             /\ \/ send[k].live /\ Turns1(k, "submitting") /\ claimed' = claimed \cup {k}
                \/ ~send[k].live /\ Turns1(k, "queued") /\ claimed' = claimed
      BY <1>10 DEF SavesEntry
    <2>2. \A j \in 1..cf.Keys : j # k => send'[j] = send[j] BY <1>0, <2>1, TurnsAre
    <2>3. CASE send[k].live /\ Turns1(k, "submitting") /\ claimed' = claimed \cup {k}
      BY <1>0, <2>3, TurnsAre, <1>c, <1>d, <2>1, <2>2
    <2>4. CASE ~send[k].live /\ Turns1(k, "queued") /\ claimed' = claimed
      BY <1>0, <2>4, TurnsAre, <1>e, <2>1, <1>c, <1>d, <2>2
    <2> QED BY <2>1, <2>3, <2>4
  <1>11. CASE SavesRemoval(cf)
    <2>1. CASE job.kind = "submit"
      BY <1>11, <2>1, <1>7 DEF SavesRemoval
    <2>2. CASE job.kind # "submit" BY <1>8, <1>11, <2>2 DEF SavesRemoval
    <2> QED BY <2>1, <2>2
  <1>12. CASE Crashes(cf)
    BY <1>0, <1>12, RereadIs, <1>d DEF Crashes, BusyAt
  <1> QED
    BY <1>1, <1>2, <1>3, <1>4, <1>6, <1>9, <1>10, <1>11, <1>12, <1>a DEF Steps

-----------------------------------------------------------------------------
(* The writes.                                                             *)

\* The writes that are left when some are done.
LEMMA WriteShifts ==
  ASSUME NEW cf, OutboxTypes(cf), WriteFacts(cf), NEW d \in {0, 1}, DOMAIN writes' \subseteq Nat,
         \A i \in DOMAIN writes' : \/ i + d \in DOMAIN writes /\ writes'[i] = writes[i + d]
                                   \/ writes'[i].kind = "draft",
         \A i \in DOMAIN writes' : writes'[i].kind = "enqueue" =>
            send'[writes'[i].key].at = send[writes'[i].key].at,
         \A i \in DOMAIN writes' : writes'[i].kind = "remove" =>
            job'.stage \in {"leaving", "dropping"} /\ job'.key = job.key
  PROVE  WriteFacts(cf)'
  <1>1. ASSUME NEW i \in DOMAIN writes', writes'[i].kind # "draft"
        PROVE  i + d \in DOMAIN writes /\ writes'[i] = writes[i + d]
    BY <1>1
  <1>2. \A i, j \in DOMAIN writes' : i + d = j + d => i = j
    OBVIOUS
  <1>3. ASSUME NEW i \in DOMAIN writes', writes'[i].kind = "enqueue"
        PROVE  /\ send'[writes'[i].key].at = "saving"
               /\ \A j \in DOMAIN writes' :
                     writes'[j].kind = "enqueue" /\ writes'[j].key = writes'[i].key => i = j
    BY <1>1, <1>3, <1>2 DEF WriteFacts
  <1>4. ASSUME NEW i \in DOMAIN writes', writes'[i].kind = "remove"
        PROVE  /\ job'.key = writes'[i].key
               /\ \A j \in DOMAIN writes' : writes'[j].kind = "remove" => i = j
    BY <1>1, <1>4, <1>2 DEF WriteFacts
  <1> QED BY <1>3, <1>4 DEF WriteFacts

LEMMA WriteFactsKept ==
  ASSUME NEW cf, OutboxInv(cf),
         Outbox(cf)!OutboxAssumption, [Outbox(cf)!Next]_(Outbox(cf)!vars)
  PROVE  WriteFacts(cf)'
  <1>0. /\ OutboxTypes(cf) /\ JobFacts(cf) /\ ClaimFacts(cf) /\ WriteFacts(cf) /\ cf.Keys \in Nat
    BY DEF OutboxInv, Outbox!OutboxAssumption
  <1>a. Steps(cf) BY <1>0, StepsAre
  <1>b. /\ DOMAIN writes = 1..Len(writes) /\ Len(writes) \in Nat /\ writes \in Seq(Writes(cf))
        /\ \A i \in DOMAIN writes : writes[i].key \in 1..cf.Keys /\ i \in Nat
    <2>1. writes \in Seq(Writes(cf)) BY <1>0 DEF OutboxTypes
    <2>2. DOMAIN writes = 1..Len(writes) /\ Len(writes) \in Nat BY <2>1
    <2>3. \A i \in DOMAIN writes : writes[i] \in Writes(cf) BY <2>1, <2>2
    <2>4. \A i \in DOMAIN writes : writes[i].key \in 1..cf.Keys BY <2>3 DEF Writes
    <2> QED BY <2>1, <2>2, <2>4
  <1>c. \A i \in DOMAIN writes : writes[i].kind = "enqueue" => send[writes[i].key].at = "saving"
    BY <1>0 DEF WriteFacts
  <1>d. \A i \in DOMAIN writes : writes[i].kind = "remove" =>
            job.kind # "none" /\ job.stage \in {"leaving", "dropping"} /\ job.key = writes[i].key
    BY <1>0 DEF WriteFacts, JobFacts
  <1>1. ASSUME writes' = writes,
               \A k \in 1..cf.Keys : send[k].at = "saving" => send'[k].at = "saving",
               job.stage \in {"leaving", "dropping"} =>
                  job'.stage \in {"leaving", "dropping"} /\ job'.key = job.key
        PROVE  WriteFacts(cf)'
    BY <1>1, <1>b, <1>c, <1>d, <1>0, WriteShifts
  <1>2. CASE Sent(cf)
    BY <1>0, <1>2, SentIs, <1>1
  <1>3. CASE Enters(cf)
    <2>1. PICK k \in 1..cf.Keys :
             /\ send[k].at = "chosen" /\ Turns1(k, "saving") /\ job' = job
             /\ writes' = Append(writes, [kind |-> "enqueue", key |-> k, value |-> entries'])
      BY <1>3 DEF Enters
    <2> DEFINE e == [kind |-> "enqueue", key |-> k, value |-> entries']
    <2>2. /\ DOMAIN writes' = 1..(Len(writes) + 1) /\ \A i \in 1..Len(writes) : writes'[i] = writes[i]
          /\ writes'[Len(writes) + 1] = e
      <3>1. entries' \in Seq(1..cf.Keys) BY <1>0, OutTypesKept DEF OutboxTypes
      <3>2. e \in Writes(cf) BY <3>1 DEF Writes
      <3>3. writes' = Append(writes, e) BY <2>1
      <3> HIDE DEF e
      <3> QED BY <1>b, <3>2, <3>3, AppendIs
    <2>3. e.kind = "enqueue" /\ e.key = k OBVIOUS
    <2> HIDE DEF e
    <2>4. \A i \in DOMAIN writes' : i \in DOMAIN writes \/ i = Len(writes) + 1 BY <1>b, <2>2
    <2>5. /\ \A j \in 1..cf.Keys : j # k => send'[j] = send[j]
          /\ send'[k].at = "saving"
      BY <1>0, <2>1, TurnsAre
    <2>6. \A i \in DOMAIN writes : writes[i].kind = "enqueue" => writes[i].key # k BY <1>c, <2>1
    <2>7. ASSUME NEW i \in DOMAIN writes', writes'[i].kind = "enqueue"
          PROVE  /\ send'[writes'[i].key].at = "saving"
                 /\ \A j \in DOMAIN writes' :
                       writes'[j].kind = "enqueue" /\ writes'[j].key = writes'[i].key => i = j
      <3>1. CASE i \in DOMAIN writes
        <4>1. writes'[i] = writes[i] BY <1>b, <2>2, <3>1
        <4>2. writes'[i].key # k BY <2>6, <2>7, <3>1, <4>1
        <4>3. send'[writes'[i].key].at = "saving" BY <1>b, <1>c, <2>5, <2>7, <3>1, <4>1, <4>2
        <4>4. ASSUME NEW j \in DOMAIN writes', writes'[j].kind = "enqueue",
                     writes'[j].key = writes'[i].key
              PROVE  i = j
          BY <2>2, <2>3, <2>4, <4>2, <4>4, <1>b, <1>0, <2>7, <3>1, <4>1 DEF WriteFacts
        <4> QED BY <4>3, <4>4
      <3>2. CASE i = Len(writes) + 1
        <4>1. writes'[i] = e BY <2>2, <3>2
        <4>2. ASSUME NEW j \in DOMAIN writes', writes'[j].kind = "enqueue", writes'[j].key = k
              PROVE  i = j
          <5>1. CASE j \in DOMAIN writes
            BY <1>b, <2>2, <5>1, <2>6, <4>2
          <5> QED BY <2>4, <3>2, <5>1
        <4> QED BY <2>3, <2>5, <4>1, <4>2
      <3> QED BY <2>4, <3>1, <3>2
    <2>8. ASSUME NEW i \in DOMAIN writes', writes'[i].kind = "remove"
          PROVE  i \in DOMAIN writes /\ writes'[i] = writes[i]
      BY <1>b, <2>2, <2>3, <2>4, <2>8
    <2>9. \A i \in DOMAIN writes' : writes'[i].kind = "remove" =>
             /\ job'.stage \in {"leaving", "dropping"} /\ job'.key = writes'[i].key
             /\ \A j \in DOMAIN writes' : writes'[j].kind = "remove" => i = j
      BY <1>0, <2>1, <2>8 DEF WriteFacts
    <2> QED BY <2>7, <2>9 DEF WriteFacts
  <1>4. ASSUME NEW k \in 1..cf.Keys, NEW a, send[k].at # "saving", Turns1(k, a)
        PROVE  \A j \in 1..cf.Keys : send[j].at = "saving" => send'[j].at = "saving"
    BY <1>0, <1>4, TurnsAre
  <1>5. ASSUME writes' = writes, send' = send,
               job.stage \notin {"leaving", "dropping"}
        PROVE  WriteFacts(cf)'
    BY <1>1, <1>5
  <1>6. CASE Starts(cf)
    <2>1. writes' = writes /\ job.stage = "none" BY <1>0, <1>6 DEF Starts, JobFacts
    <2>2. CASE send' = send BY <1>5, <2>1, <2>2
    <2>3. ASSUME NEW k \in 1..cf.Keys, send[k].at = "submitting", Turns1(k, "parked")
          PROVE  WriteFacts(cf)'
      BY <1>4, <2>3, <1>1, <2>1
    <2> QED BY <1>6, <2>2, <2>3 DEF Starts
  <1>7. CASE Unclaims
    BY <1>0, <1>7, <1>5 DEF Unclaims, JobFacts
  <1>8. CASE Takes(cf)
    BY <1>8, <1>5 DEF Takes
  <1>9. CASE UNCHANGED <<writes, send, job>> BY <1>1, <1>9
  <1>10. CASE Strays \/ Links(cf) \/ Still BY <1>9, <1>10 DEF Strays, Links, Still
  <1>11. CASE TakesOut(cf)
    <2>1. /\ job.stage \in {"receipt", "refused"} /\ job.key \in 1..cf.Keys /\ send' = send
          /\ writes' = Append(writes, [kind |-> "remove", key |-> job.key, value |-> entries'])
          /\ job' = [job EXCEPT !.stage = IF job.stage = "refused" THEN "dropping" ELSE "leaving"]
      BY <1>11 DEF TakesOut
    <2> DEFINE e == [kind |-> "remove", key |-> job.key, value |-> entries']
    <2>2. /\ DOMAIN writes' = 1..(Len(writes) + 1) /\ \A i \in 1..Len(writes) : writes'[i] = writes[i]
          /\ writes'[Len(writes) + 1] = e
      <3>1. entries' \in Seq(1..cf.Keys) BY <1>0, OutTypesKept DEF OutboxTypes
      <3>2. e \in Writes(cf) BY <2>1, <3>1 DEF Writes
      <3>3. writes' = Append(writes, e) BY <2>1
      <3> HIDE DEF e
      <3> QED BY <1>b, <3>2, <3>3, AppendIs
    <2>3. e.kind = "remove" /\ e.key = job.key OBVIOUS
    <2> HIDE DEF e
    <2>4. \A i \in DOMAIN writes' : i \in DOMAIN writes \/ i = Len(writes) + 1 BY <1>b, <2>2
    <2>5. job'.stage \in {"leaving", "dropping"} /\ job'.key = job.key
      BY <1>0, <2>1 DEF OutboxTypes, Outbox!Jobs
    <2>6. \A i \in DOMAIN writes : writes[i].kind # "remove" BY <1>d, <2>1
    <2>7. \A i \in DOMAIN writes' : writes'[i].kind = "remove" => i = Len(writes) + 1
      BY <1>b, <2>2, <2>4, <2>6
    <2>8. \A i \in DOMAIN writes' : writes'[i].kind = "enqueue" =>
             i \in DOMAIN writes /\ writes'[i] = writes[i]
      BY <1>b, <2>2, <2>3, <2>4
    <2>9. ASSUME NEW i \in DOMAIN writes', writes'[i].kind = "enqueue"
          PROVE  /\ send'[writes'[i].key].at = "saving"
                 /\ \A j \in DOMAIN writes' :
                       writes'[j].kind = "enqueue" /\ writes'[j].key = writes'[i].key => i = j
      BY <1>0, <2>1, <2>8, <2>9 DEF WriteFacts
    <2> QED BY <2>2, <2>3, <2>5, <2>7, <2>9 DEF WriteFacts
  <1>12. CASE Fails(cf)
    <2>1. writes' = writes /\ job.stage \notin {"leaving", "dropping"} BY <1>12 DEF Fails
    <2>2. CASE send' = send BY <1>5, <2>1, <2>2
    <2>3. CASE job.kind = "submit" /\ Turns1(job.key, "parked")
      BY <1>0, <1>12, <2>3, <1>4, <1>1, <2>1 DEF JobFacts, Fails
    <2> QED BY <1>12, <2>2, <2>3 DEF Fails
  <1>13. ASSUME writes # <<>>
         PROVE  /\ DOMAIN Tail(writes) \subseteq Nat /\ Tail(writes) \in Seq(Writes(cf))
                /\ 1 \in DOMAIN writes
                /\ \A i \in DOMAIN Tail(writes) :
                      i + 1 \in DOMAIN writes /\ Tail(writes)[i] = writes[i + 1] /\ i + 1 # 1
    BY <1>b, <1>13, HeadTailIs
  <1>14. CASE SavesEntry(cf)
    <2>1. PICK k \in 1..cf.Keys, a \in {"submitting", "queued"} :
             /\ writes # <<>> /\ writes[1].kind = "enqueue" /\ writes[1].key = k
             /\ writes' = Tail(writes) /\ Turns1(k, a) /\ job' = job
      BY <1>14 DEF SavesEntry
    <2>2. \A j \in 1..cf.Keys : j # k => send'[j] = send[j] BY <1>0, <2>1, TurnsAre
    <2>3. /\ DOMAIN writes' \subseteq Nat /\ 1 \in DOMAIN writes
          /\ \A i \in DOMAIN writes' :
                i + 1 \in DOMAIN writes /\ writes'[i] = writes[i + 1] /\ i + 1 # 1
      BY <1>13, <2>1
    <2>4. \A i \in DOMAIN writes' : writes'[i].kind = "enqueue" =>
             writes'[i].key # k /\ writes'[i].key \in 1..cf.Keys
      BY <1>0, <1>b, <2>1, <2>3 DEF WriteFacts
    <2>5. \A i \in DOMAIN writes' : writes'[i].kind = "enqueue" =>
             send'[writes'[i].key].at = send[writes'[i].key].at
      BY <2>2, <2>4
    <2>6. \A i \in DOMAIN writes' : writes'[i].kind = "remove" =>
             job'.stage \in {"leaving", "dropping"} /\ job'.key = job.key
      BY <1>d, <2>1, <2>3
    <2> QED BY <1>0, <2>3, <2>5, <2>6, WriteShifts
  <1>15. CASE SavesRemoval(cf)
    <2>1. /\ writes # <<>> /\ writes[1].kind = "remove" /\ job.key \in 1..cf.Keys
          /\ \/ writes' = Tail(writes)
             \/ writes' = Append(Tail(writes), [kind |-> "draft", key |-> job.key, value |-> <<>>])
      BY <1>15 DEF SavesRemoval
    <2>2. /\ DOMAIN Tail(writes) \subseteq Nat /\ Tail(writes) \in Seq(Writes(cf))
          /\ 1 \in DOMAIN writes
          /\ \A i \in DOMAIN Tail(writes) :
                i + 1 \in DOMAIN writes /\ Tail(writes)[i] = writes[i + 1] /\ i + 1 # 1
      BY <1>13, <2>1
    <2>3. /\ DOMAIN writes' \subseteq Nat
          /\ \A i \in DOMAIN writes' :
                \/ i + 1 \in DOMAIN writes /\ writes'[i] = writes[i + 1] /\ i + 1 # 1
                \/ writes'[i].kind = "draft"
      <3>1. CASE writes' = Tail(writes) BY <2>2, <3>1
      <3>2. CASE writes' = Append(Tail(writes), [kind |-> "draft", key |-> job.key, value |-> <<>>])
        <4> DEFINE e == [kind |-> "draft", key |-> job.key, value |-> <<>>]
        <4>1. e \in Writes(cf) /\ e.kind = "draft" BY <2>1, EmptySeq DEF Writes
        <4> HIDE DEF e
        <4>2. writes' = Append(Tail(writes), e) BY <3>2 DEF e
        <4>3. /\ DOMAIN writes' = 1..(Len(Tail(writes)) + 1) /\ Len(Tail(writes)) \in Nat
              /\ DOMAIN Tail(writes) = 1..Len(Tail(writes))
              /\ \A i \in 1..Len(Tail(writes)) : writes'[i] = Tail(writes)[i]
              /\ writes'[Len(Tail(writes)) + 1] = e
          BY <2>2, <4>1, <4>2, AppendIs
        <4>4. \A i \in DOMAIN writes' : i \in DOMAIN Tail(writes) \/ i = Len(Tail(writes)) + 1
          BY <4>3
        <4> QED BY <2>2, <4>1, <4>3, <4>4
      <3> QED BY <2>1, <3>1, <3>2
    <2>4. \A i \in DOMAIN writes' : writes'[i].kind # "remove"
      BY <1>0, <2>1, <2>2, <2>3 DEF WriteFacts
    <2>5. \A k \in 1..cf.Keys : send[k].at = "saving" => send'[k].at = "saving"
      <3>1. CASE send' = send BY <3>1
      <3>2. CASE job.kind = "submit" /\ \E a : Turns1(job.key, a)
        BY <1>0, <3>2, <1>4, <2>1 DEF JobFacts
      <3> QED BY <1>15, <3>1, <3>2 DEF SavesRemoval
    <2>6. \A i \in DOMAIN writes' : writes'[i].kind = "enqueue" =>
             send'[writes'[i].key].at = send[writes'[i].key].at
      BY <1>b, <1>c, <2>3, <2>5
    <2> QED BY <1>0, <2>3, <2>4, <2>6, WriteShifts
  <1>16. CASE SavesDraft(cf)
    BY <1>16, <1>13, <1>d, <1>0, WriteShifts DEF SavesDraft
  <1>17. CASE Crashes(cf) BY <1>17 DEF Crashes, WriteFacts
  <1> QED
    BY <1>2, <1>3, <1>6, <1>7, <1>8, <1>10, <1>11, <1>12, <1>14, <1>15, <1>16, <1>17, <1>a
    DEF Steps

-----------------------------------------------------------------------------
(* What the writes become.                                                 *)

\* A write asked for, the oldest one done, and both.
Grown(e) == /\ DOMAIN writes' = 1..(Len(writes) + 1) /\ Len(writes') = Len(writes) + 1
            /\ \A i \in 1..Len(writes) : writes'[i] = writes[i]
            /\ writes'[Len(writes) + 1] = e
Done == /\ 1 \in DOMAIN writes
        /\ DOMAIN writes' = 1..(Len(writes) - 1) /\ Len(writes') = Len(writes) - 1
        /\ \A i \in 1..(Len(writes) - 1) : writes'[i] = writes[i + 1]
Drafted(k) == /\ 1 \in DOMAIN writes
              /\ DOMAIN writes' = 1..Len(writes) /\ Len(writes') = Len(writes)
              /\ \A i \in 1..(Len(writes) - 1) : writes'[i] = writes[i + 1]
              /\ writes'[Len(writes)].kind = "draft" /\ writes'[Len(writes)].key = k

LEMMA GrownIs ==
  ASSUME NEW cf, OutboxTypes(cf), NEW e \in Writes(cf), writes' = Append(writes, e)
  PROVE  Grown(e)
  BY AppendIs DEF OutboxTypes, Grown

LEMMA DoneIs ==
  ASSUME NEW cf, OutboxTypes(cf), writes # <<>>, writes' = Tail(writes)
  PROVE  Done
  BY HeadTailIs DEF OutboxTypes, Done

LEMMA DraftedIs ==
  ASSUME NEW cf, OutboxTypes(cf), writes # <<>>, NEW k \in 1..cf.Keys,
         writes' = Append(Tail(writes), [kind |-> "draft", key |-> k, value |-> <<>>])
  PROVE  Drafted(k)
  <1> DEFINE e == [kind |-> "draft", key |-> k, value |-> <<>>]
             q == Tail(writes)
  <1>1. writes \in Seq(Writes(cf)) BY DEF OutboxTypes
  <1>2. /\ q \in Seq(Writes(cf)) /\ Len(q) = Len(writes) - 1 /\ 1 \in DOMAIN writes
        /\ \A i \in 1..(Len(writes) - 1) : q[i] = writes[i + 1]
        /\ Len(writes) \in Nat
    BY <1>1, HeadTailIs
  <1>3. e \in Writes(cf) /\ e.kind = "draft" /\ e.key = k BY EmptySeq DEF Writes
  <1>4. writes' = Append(q, e) OBVIOUS
  <1> HIDE DEF e, q
  <1>5. /\ Len(writes') = Len(q) + 1 /\ DOMAIN writes' = 1..(Len(q) + 1)
        /\ \A i \in 1..Len(q) : writes'[i] = q[i]
        /\ writes'[Len(q) + 1] = e
    BY <1>2, <1>3, <1>4, AppendIs
  <1>6. Len(q) + 1 = Len(writes) BY <1>2
  <1>7. \A i \in 1..(Len(writes) - 1) : writes'[i] = writes[i + 1] BY <1>2, <1>5
  <1> QED BY <1>2, <1>3, <1>5, <1>6, <1>7 DEF Drafted

LEMMA LandsIs ==
  ASSUME NEW n \in Nat, admitted \in Seq(1..n), NEW k \in 1..n, Lands1(k)
  PROVE  /\ Range(admitted) \subseteq Range(admitted')
         /\ Range(admitted') \subseteq Range(admitted) \cup {k}
  <1>1. CASE admitted' = admitted BY <1>1
  <1>2. CASE k \notin Range(admitted) /\ admitted' = Append(admitted, k)
    <2>1. /\ DOMAIN admitted = 1..Len(admitted) /\ Len(admitted) \in Nat
          /\ DOMAIN admitted' = 1..(Len(admitted) + 1)
          /\ \A i \in 1..Len(admitted) : admitted'[i] = admitted[i]
          /\ admitted'[Len(admitted) + 1] = k
      BY <1>2, AppendIs
    <2>2. \A x \in Range(admitted) : x \in Range(admitted') BY <2>1 DEF Range
    <2>3. \A x \in Range(admitted') : x \in Range(admitted) \cup {k} BY <2>1 DEF Range
    <2> QED BY <2>2, <2>3
  <1> QED BY <1>1, <1>2 DEF Lands1

\* A draft asked for is saved, or stays asked for; an entry that is dropped
\* is the user's once the write is done.
DraftsKept == \A i \in DOMAIN writes : writes[i].kind = "draft" =>
    \/ writes[i].key \in drafts'
    \/ \E j \in DOMAIN writes' : writes'[j].kind = "draft" /\ writes'[j].key = writes[i].key
DropKept == job.stage = "dropping" =>
    \/ job'.stage = "dropping" /\ job'.key = job.key
    \/ send'[job.key].at = "kept"
    \/ \E j \in DOMAIN writes' : writes'[j].kind = "draft" /\ writes'[j].key = job.key

LEMMA DraftsStay ==
  ASSUME NEW cf, OutboxTypes(cf)
  PROVE  /\ writes' = writes => DraftsKept
         /\ \A e : Grown(e) => DraftsKept
         /\ Done /\ (writes[1].kind # "draft" \/ writes[1].key \in drafts') => DraftsKept
         /\ \A k : Drafted(k) /\ writes[1].kind # "draft" => DraftsKept
  <1>0. DOMAIN writes = 1..Len(writes) /\ Len(writes) \in Nat BY OutFields
  <1>1. writes' = writes => DraftsKept BY DEF DraftsKept
  <1>2. ASSUME NEW e, Grown(e) PROVE DraftsKept
    BY <1>0, <1>2 DEF Grown, DraftsKept
  <1>3. ASSUME Done, writes[1].kind # "draft" \/ writes[1].key \in drafts' PROVE DraftsKept
    <2>1. \A i \in DOMAIN writes : i # 1 => i - 1 \in DOMAIN writes' /\ writes'[i - 1] = writes[i]
      BY <1>0, <1>3 DEF Done
    <2> QED BY <1>3, <2>1 DEF DraftsKept
  <1>4. ASSUME NEW k, Drafted(k), writes[1].kind # "draft" PROVE DraftsKept
    <2>1. \A i \in DOMAIN writes : i # 1 => i - 1 \in DOMAIN writes' /\ writes'[i - 1] = writes[i]
      BY <1>0, <1>4 DEF Drafted
    <2> QED BY <1>4, <2>1 DEF DraftsKept
  <1> QED BY <1>1, <1>2, <1>3, <1>4

LEMMA KeptIs ==
  ASSUME NEW cf, OutboxTypes(cf), Aged(cf), DraftsKept, DropKept, drafts \subseteq drafts',
         Range(admitted) \subseteq Range(admitted')
  PROVE  \A k \in 1..cf.Keys : (Settled(k) => Settled(k)') /\ (Over(k) => Over(k)')
  <1>1. ASSUME NEW k \in 1..cf.Keys, Settled(k) PROVE Settled(k)'
    BY <1>1 DEF Settled, Aged, BusyAt, DraftsKept
  <1>2. ASSUME NEW k \in 1..cf.Keys, job.stage = "dropping", job.key = k PROVE Over(k)'
    BY <1>2 DEF DropKept, Over, Settled
  <1> QED BY <1>1, <1>2 DEF Over

LEMMA OverKept ==
  ASSUME NEW cf, OutboxInv(cf),
         Outbox(cf)!OutboxAssumption, [Outbox(cf)!Next]_(Outbox(cf)!vars)
  PROVE  \A k \in 1..cf.Keys : (Settled(k) => Settled(k)') /\ (Over(k) => Over(k)')
  <1>0. /\ OutboxTypes(cf) /\ SendFacts(cf) /\ ListFacts(cf) /\ JobFacts(cf) /\ ChainFacts(cf)
        /\ ClaimFacts(cf) /\ WriteFacts(cf) /\ cf.Keys \in Nat
    BY DEF OutboxInv, Outbox!OutboxAssumption
  <1>a. Aged(cf) /\ Steps(cf) BY <1>0, SendAges, StepsAre
  <1>b. admitted \in Seq(1..cf.Keys) /\ stray \subseteq 1..cf.Keys BY <1>0 DEF OutboxTypes
  <1> DEFINE G == \A k \in 1..cf.Keys : (Settled(k) => Settled(k)') /\ (Over(k) => Over(k)')
  <1>1. ASSUME DraftsKept, DropKept, drafts \subseteq drafts', admitted' = admitted PROVE G
    BY <1>0, <1>a, <1>1, KeptIs
  <1>2. ASSUME UNCHANGED <<writes, drafts, admitted>>, DropKept PROVE G
    BY <1>0, <1>1, <1>2, DraftsStay
  <1>3. ASSUME UNCHANGED <<writes, drafts, admitted, job>> PROVE G
    BY <1>2, <1>3 DEF DropKept
  <1>4. CASE Sent(cf)
    BY <1>4, <1>3 DEF Sent
  <1>5. CASE Enters(cf)
    <2>1. PICK k \in 1..cf.Keys :
             /\ writes' = Append(writes, [kind |-> "enqueue", key |-> k, value |-> entries'])
             /\ UNCHANGED <<drafts, admitted, job>>
      BY <1>5 DEF Enters
    <2> DEFINE e == [kind |-> "enqueue", key |-> k, value |-> entries']
    <2>2. entries' \in Seq(1..cf.Keys) BY <1>0, OutTypesKept DEF OutboxTypes
    <2>3. e \in Writes(cf) BY <2>2 DEF Writes
    <2>4. Grown(e) BY <1>0, <2>1, <2>3, GrownIs
    <2> HIDE DEF e
    <2>5. DraftsKept BY <1>0, <2>4, DraftsStay
    <2> QED BY <1>1, <2>1, <2>5 DEF DropKept
  <1>6. CASE Starts(cf) \/ Unclaims
    BY <1>0, <1>6, <1>2 DEF Starts, Unclaims, JobFacts, DropKept
  <1>7. ASSUME NEW k \in 1..cf.Keys, Lands1(k), UNCHANGED <<writes, drafts>>, DropKept PROVE G
    BY <1>0, <1>b, <1>7, LandsIs, <1>a, KeptIs, DraftsStay
  <1>8. CASE Takes(cf)
    BY <1>8, <1>7 DEF Takes, Lands1, DropKept
  <1>9. CASE Strays
    <2>1. PICK k \in stray : Lands1(k) BY <1>9 DEF Strays
    <2>2. UNCHANGED <<writes, drafts, job>> BY <1>9 DEF Strays
    <2> QED BY <1>7, <1>b, <2>1, <2>2 DEF DropKept
  <1>10. CASE TakesOut(cf)
    <2>1. /\ job.stage \in {"receipt", "refused"} /\ job.key \in 1..cf.Keys
          /\ writes' = Append(writes, [kind |-> "remove", key |-> job.key, value |-> entries'])
          /\ UNCHANGED <<drafts, admitted>>
      BY <1>10 DEF TakesOut
    <2> DEFINE e == [kind |-> "remove", key |-> job.key, value |-> entries']
    <2>2. entries' \in Seq(1..cf.Keys) BY <1>0, OutTypesKept DEF OutboxTypes
    <2>3. e \in Writes(cf) BY <2>1, <2>2 DEF Writes
    <2>4. Grown(e) BY <1>0, <2>1, <2>3, GrownIs
    <2> HIDE DEF e
    <2>5. DraftsKept BY <1>0, <2>4, DraftsStay
    <2> QED BY <1>1, <2>1, <2>5 DEF DropKept
  <1>11. CASE Fails(cf)
    BY <1>11, <1>2 DEF Fails, DropKept
  <1>12. CASE Links(cf) \/ Still
    BY <1>12, <1>3 DEF Links, Still
  <1>13. CASE SavesEntry(cf)
    BY <1>13, <1>0, DoneIs, DraftsStay, <1>1 DEF SavesEntry, DropKept
  <1>14. CASE SavesRemoval(cf)
    <2>1. /\ writes # <<>> /\ writes[1].kind = "remove" /\ UNCHANGED <<drafts, admitted>>
          /\ job.key \in 1..cf.Keys
      BY <1>14 DEF SavesRemoval
    <2>2. CASE writes' = Tail(writes)
               /\ (job.stage = "dropping" => job.kind = "submit" /\ Turns1(job.key, "kept"))
      BY <1>0, <2>1, <2>2, DoneIs, DraftsStay, TurnsAre, <1>1 DEF DropKept
    <2>3. CASE writes' = Append(Tail(writes), [kind |-> "draft", key |-> job.key, value |-> <<>>])
      <3>1. Drafted(job.key) BY <1>0, <2>1, <2>3, DraftedIs
      <3>2. DraftsKept BY <1>0, <2>1, <3>1, DraftsStay
      <3>3. Len(writes) \in DOMAIN writes'
        BY <1>0, OutFields, <3>1 DEF Drafted
      <3>4. DropKept BY <3>1, <3>3 DEF DropKept, Drafted
      <3> QED BY <1>1, <2>1, <3>2, <3>4
    <2> QED BY <1>14, <2>2, <2>3 DEF SavesRemoval
  <1>15. CASE SavesDraft(cf)
    BY <1>15, <1>0, DoneIs, DraftsStay, <1>1 DEF SavesDraft, DropKept
  <1>16. CASE Crashes(cf)
    <2>1. /\ left.crash > 0 /\ UNCHANGED <<drafts, admitted>> BY <1>16 DEF Crashes
    <2>2. Unrefused
      BY <1>0, <2>1 DEF OutboxTypes, Lefts, OutboxInv, ModeFacts
    <2>3. DraftsKept /\ DropKept BY <2>2 DEF Unrefused, DraftsKept, DropKept
    <2> QED BY <1>1, <2>1, <2>3
  <1> QED
    BY <1>a, <1>4, <1>5, <1>6, <1>8, <1>9, <1>10, <1>11, <1>12, <1>13, <1>14, <1>15, <1>16 DEF Steps

-----------------------------------------------------------------------------
(* What is on disk, or will be.                                            *)

\* k waits for its first write, before the step and after it.
Saving(snd, k) == snd[k].at = "saving"

LEMMA PresentSame ==
  ASSUME NEW cf, OutboxTypes(cf), NEW k \in 1..cf.Keys, NEW n \in 0..Len(writes), Present(k, n),
         disk' = disk, \A i \in 1..n : writes'[i] = writes[i],
         Saving(send', k) <=> Saving(send, k)
  PROVE  Present(k, n)'
  <1>0. Len(writes) \in Nat BY OutFields
  <1>1. CASE ~Saving(send, k)
    BY <1>1 DEF Present, Saving
  <1>2. CASE Saving(send, k)
    <2>1. PICK i \in 1..n : /\ writes[i].kind = "enqueue" /\ writes[i].key = k
                            /\ \A j \in i..n : writes[j].kind # "draft" => k \in Range(writes[j].value)
      BY <1>2 DEF Present, Saving
    <2>2. \A j \in i..n : j \in 1..n BY <1>0
    <2>3. \A j \in i..n : writes'[j].kind # "draft" => k \in Range(writes'[j].value)
      BY <2>1, <2>2
    <2>4. writes'[i].kind = "enqueue" /\ writes'[i].key = k BY <2>1
    <2> QED BY <1>2, <2>1, <2>3, <2>4 DEF Present, Saving
  <1> QED BY <1>1, <1>2

\* One more write that has k, or says nothing of the outbox.
LEMMA PresentMore ==
  ASSUME NEW cf, NEW k \in 1..cf.Keys, NEW n \in Nat, Present(k, n)',
         writes'[n + 1].kind # "draft" => k \in Range(writes'[n + 1].value)
  PROVE  Present(k, n + 1)'
  <1>1. \A i \in 1..(n + 1) : i \in 1..n \/ i = n + 1 OBVIOUS
  <1>2. CASE ~Saving(send', k) BY <1>1, <1>2 DEF Present, Saving
  <1>3. CASE Saving(send', k)
    <2>1. PICK i \in 1..n : /\ writes'[i].kind = "enqueue" /\ writes'[i].key = k
                            /\ \A j \in i..n : writes'[j].kind # "draft" => k \in Range(writes'[j].value)
      BY <1>3 DEF Present, Saving
    <2>2. \A j \in i..(n + 1) : j \in i..n \/ j = n + 1 OBVIOUS
    <2>3. \A j \in i..(n + 1) : writes'[j].kind # "draft" => k \in Range(writes'[j].value)
      BY <2>1, <2>2
    <2>4. i \in 1..(n + 1) OBVIOUS
    <2> QED BY <1>3, <2>1, <2>3, <2>4 DEF Present, Saving
  <1> QED BY <1>2, <1>3

\* The oldest write is done.
LEMMA PresentDone ==
  ASSUME NEW cf, OutboxTypes(cf), WriteFacts(cf), NEW k \in 1..cf.Keys, NEW n \in 1..Len(writes),
         Present(k, n),
         \A i \in 1..(n - 1) : writes'[i] = writes[i + 1],
         disk' = IF writes[1].kind = "draft" THEN disk ELSE writes[1].value,
         Saving(send', k) <=> Saving(send, k) /\ ~(writes[1].kind = "enqueue" /\ writes[1].key = k)
  PROVE  Present(k, n - 1)'
  <1>0. Len(writes) \in Nat /\ DOMAIN writes = 1..Len(writes) /\ n \in Nat /\ n - 1 \in Nat
        /\ 1 \in 1..n /\ \A i \in 1..(n - 1) : i + 1 \in 1..n
    BY OutFields
  <1>1. CASE ~Saving(send, k)
    BY <1>1, <1>0 DEF Present, Saving
  <1>2. CASE Saving(send, k)
    <2>1. PICK i \in 1..n : /\ writes[i].kind = "enqueue" /\ writes[i].key = k
                            /\ \A j \in i..n : writes[j].kind # "draft" => k \in Range(writes[j].value)
      BY <1>2 DEF Present, Saving
    <2>2. CASE writes[1].kind = "enqueue" /\ writes[1].key = k
      <3>1. i = 1 BY <1>0, <2>1, <2>2 DEF WriteFacts
      <3>2. ~Saving(send', k) BY <2>2
      <3>3. k \in Range(disk') BY <1>0, <2>1, <2>2, <3>1
      <3>4. \A j \in 1..(n - 1) : j + 1 \in i..n BY <1>0, <3>1
      <3>5. \A j \in 1..(n - 1) : writes'[j].kind # "draft" => k \in Range(writes'[j].value)
        BY <2>1, <3>4
      <3> QED BY <3>2, <3>3, <3>5 DEF Present, Saving
    <2>3. CASE ~(writes[1].kind = "enqueue" /\ writes[1].key = k)
      <3>1. i # 1 BY <2>1, <2>3
      <3>2. i - 1 \in 1..(n - 1) /\ (i - 1) + 1 = i BY <1>0, <3>1
      <3>3. writes'[i - 1].kind = "enqueue" /\ writes'[i - 1].key = k BY <2>1, <3>2
      <3>4. \A j \in (i - 1)..(n - 1) : j \in 1..(n - 1) /\ j + 1 \in i..n BY <1>0, <3>2
      <3>5. \A j \in (i - 1)..(n - 1) : writes'[j].kind # "draft" => k \in Range(writes'[j].value)
        BY <2>1, <3>4
      <3>6. Saving(send', k) BY <1>2, <2>3
      <3> QED BY <3>2, <3>3, <3>5, <3>6 DEF Present, Saving
    <2> QED BY <2>2, <2>3
  <1> QED BY <1>1, <1>2

\* A text that leaves the composer for the outbox.
LEMMA PresentNew ==
  ASSUME NEW k, NEW n \in Nat, Saving(send', k), writes'[n + 1].kind = "enqueue",
         writes'[n + 1].key = k, k \in Range(writes'[n + 1].value)
  PROVE  Present(k, n + 1)'
  BY DEF Present, Saving

\* No text comes to the outbox, and none waits less for its first write.
Quiet(cf) == \A k \in 1..cf.Keys : /\ Saving(send', k) <=> Saving(send, k)
                                   /\ Entered(send', k) => Entered(send, k)

LEMMA QuietIs ==
  ASSUME NEW cf, OutboxTypes(cf)
  PROVE  /\ send' = send => Quiet(cf)
         /\ Sent(cf) => Quiet(cf)
         /\ \A k \in 1..cf.Keys, a \in {"parked", "done", "kept"} :
               send[k].at = "submitting" /\ Turns1(k, a) => Quiet(cf)
  <1>1. send' = send => Quiet(cf) BY DEF Quiet
  <1>2. Sent(cf) => Quiet(cf) BY SentIs DEF Quiet, Saving, Entered
  <1>3. ASSUME NEW k \in 1..cf.Keys, NEW a \in {"parked", "done", "kept"},
               send[k].at = "submitting", Turns1(k, a)
        PROVE  Quiet(cf)
    BY <1>3, TurnsAre DEF Quiet, Saving, Entered
  <1> QED BY <1>1, <1>2, <1>3

\* Where a text is held that the user no longer has.
LEMMA SavedStays ==
  ASSUME NEW cf, OutboxTypes(cf), Quiet(cf), UNCHANGED <<writes, disk, entries>>,
         job' = job \/ job.stage # "dropping", NEW k \in 1..cf.Keys, Saved(k)
  PROVE  Saved(k)'
  <1>0. Len(writes) \in Nat /\ Len(writes') = Len(writes) BY OutFields
  <1>1. Saving(send', k) <=> Saving(send, k) BY DEF Quiet
  <1>2. \A n \in 0..Len(writes) : Present(k, n) => Present(k, n)' BY <1>1, PresentSame
  <1>3. CASE k \in Range(entries) /\ Present(k, Len(writes))
    BY <1>0, <1>2, <1>3 DEF Present, Saved
  <1>4. ASSUME job.stage = "dropping", job.key = k, NEW n \in 0..(Len(writes) - 1),
               writes[n + 1].kind = "remove", Present(k, n)
        PROVE  Saved(k)'
    BY <1>0, <1>2, <1>4 DEF Saved
  <1> QED BY <1>3, <1>4 DEF Saved

\* ... when a write is asked for.
LEMMA SavedGrown ==
  ASSUME NEW cf, OutboxTypes(cf), NEW e, Grown(e), disk' = disk, NEW k \in 1..cf.Keys,
         Saving(send', k) <=> Saving(send, k), k \in Range(entries), Present(k, Len(writes)),
         k \in Range(entries'), k \in Range(e.value)
  PROVE  Saved(k)'
  <1>0. Len(writes) \in Nat /\ Len(writes') = Len(writes) + 1 BY OutFields DEF Grown
  <1>1. Len(writes) \in 0..Len(writes) BY <1>0
  <1> DEFINE n == Len(writes)
  <1>3. n \in 0..Len(writes) /\ Present(k, n) /\ \A i \in 1..n : writes'[i] = writes[i]
    BY <1>1 DEF Grown
  <1>4. ASSUME NEW m \in 0..Len(writes), m = Len(writes), Present(k, m),
               \A i \in 1..m : writes'[i] = writes[i]
        PROVE  Present(k, m + 1)'
    BY <1>4, PresentSame, <1>0, PresentMore DEF Grown
  <1>5. \A m \in 0..Len(writes) : m = Len(writes) => Present(k, m + 1)'
    BY <1>3, <1>4
  <1>6. Present(k, Len(writes))' BY <1>0, <1>1, <1>5 DEF Present
  <1> QED BY <1>6 DEF Saved

\* ... and when the oldest one is done.
LEMMA SavedDone ==
  ASSUME NEW cf, OutboxTypes(cf), WriteFacts(cf), NEW k \in 1..cf.Keys,
         Done \/ (\E d : Drafted(d)),
         disk' = IF writes[1].kind = "draft" THEN disk ELSE writes[1].value,
         Saving(send', k) <=> Saving(send, k) /\ ~(writes[1].kind = "enqueue" /\ writes[1].key = k),
         entries' = entries, k \in Range(entries), Present(k, Len(writes))
  PROVE  Saved(k)'
  <1>0. Len(writes) \in Nat /\ DOMAIN writes = 1..Len(writes) /\ Len(writes) >= 1
    BY OutFields DEF Done, Drafted
  <1>1. \A i \in 1..(Len(writes) - 1) : writes'[i] = writes[i + 1] BY DEF Done, Drafted
  <1>2. ASSUME NEW m \in 1..Len(writes), m = Len(writes), Present(k, m),
               \A i \in 1..(m - 1) : writes'[i] = writes[i + 1]
        PROVE  Present(k, m - 1)'
    BY <1>2, PresentDone
  <1>3. \A m \in 1..Len(writes) : m = Len(writes) => Present(k, m - 1)' BY <1>1, <1>2
  <1>4. Len(writes) \in 1..Len(writes) BY <1>0
  <1>5. CASE Done
    BY <1>5, <1>3, <1>4 DEF Done, Present, Saved
  <1>6. ASSUME NEW d, Drafted(d) PROVE Saved(k)'
    <2>1. Len(writes') = Len(writes) /\ writes'[Len(writes)].kind = "draft" BY <1>6 DEF Drafted
    <2>2. ASSUME NEW m \in 1..Len(writes), m = Len(writes) PROVE Present(k, m)'
      <3>1. m - 1 \in Nat /\ (m - 1) + 1 = m BY <1>0
      <3>2. Present(k, m - 1)' BY <1>3, <2>2
      <3>3. writes'[(m - 1) + 1].kind = "draft" BY <2>1, <2>2, <3>1
      <3>4. Present(k, (m - 1) + 1)' BY <3>1, <3>2, <3>3, PresentMore
      <3> QED BY <3>1, <3>4
    <2>3. \A m \in 1..Len(writes) : m = Len(writes) => Present(k, m)' BY <2>2
    <2>4. Present(k, Len(writes))' BY <1>4, <2>1, <2>3 DEF Present
    <2> QED BY <2>4 DEF Saved
  <1> QED BY <1>5, <1>6

\* What is dropped is held by the outbox until its own write is done.
LEMMA DroppedDone ==
  ASSUME NEW cf, OutboxTypes(cf), WriteFacts(cf), NEW k \in 1..cf.Keys, Done, job' = job,
         disk' = IF writes[1].kind = "draft" THEN disk ELSE writes[1].value,
         Saving(send', k) <=> Saving(send, k) /\ ~(writes[1].kind = "enqueue" /\ writes[1].key = k),
         writes[1].kind # "remove", job.stage = "dropping", job.key = k,
         NEW n \in 0..(Len(writes) - 1), writes[n + 1].kind = "remove", Present(k, n)
  PROVE  Saved(k)'
  <1>0. Len(writes) \in Nat /\ Len(writes') = Len(writes) - 1 BY OutFields DEF Done
  <1>1. n # 0 BY DEF Done
  <1>2. n \in 1..Len(writes) /\ n - 1 \in 0..(Len(writes) - 2) /\ (n - 1) + 1 = n
        /\ n \in 1..(Len(writes) - 1)
    BY <1>0, <1>1
  <1>3. \A i \in 1..(n - 1) : writes'[i] = writes[i + 1] BY <1>0, <1>2 DEF Done
  <1>4. Present(k, n - 1)' BY <1>2, <1>3, PresentDone
  <1>5. writes'[(n - 1) + 1].kind = "remove" BY <1>2 DEF Done
  <1>6. n - 1 \in 0..(Len(writes') - 1) BY <1>0, <1>2
  <1> QED BY <1>4, <1>5, <1>6 DEF Saved

LEMMA SavedFactsKept ==
  ASSUME NEW cf, OutboxInv(cf),
         Outbox(cf)!OutboxAssumption, [Outbox(cf)!Next]_(Outbox(cf)!vars)
  PROVE  SavedFacts(cf)'
  <1>0. /\ OutboxTypes(cf) /\ SendFacts(cf) /\ ListFacts(cf) /\ JobFacts(cf) /\ ChainFacts(cf)
        /\ ClaimFacts(cf) /\ WriteFacts(cf) /\ SavedFacts(cf) /\ cf.Keys \in Nat
    BY DEF OutboxInv, Outbox!OutboxAssumption
  <1>a. Aged(cf) /\ Steps(cf) BY <1>0, SendAges, StepsAre
  <1>b. \A k \in 1..cf.Keys : (Settled(k) => Settled(k)') /\ (Over(k) => Over(k)')
    BY OverKept
  <1>c. DOMAIN writes = 1..Len(writes) /\ Len(writes) \in Nat BY <1>0, OutFields
  <1>1. ASSUME NEW k \in 1..cf.Keys, Entered(send, k), Saved(k) => Settled(k)' \/ Saved(k)'
        PROVE  Settled(k)' \/ Saved(k)'
    BY <1>0, <1>1, <1>b DEF SavedFacts
  <1>2. ASSUME \A k \in 1..cf.Keys : Entered(send', k) => Entered(send, k),
               \A k \in 1..cf.Keys : Entered(send, k) /\ Saved(k) => Settled(k)' \/ Saved(k)'
        PROVE  SavedFacts(cf)'
    BY <1>1, <1>2 DEF SavedFacts
  <1>3. ASSUME Quiet(cf), UNCHANGED <<writes, disk, entries>>,
               job' = job \/ job.stage # "dropping"
        PROVE  SavedFacts(cf)'
    BY <1>0, <1>3, SavedStays, <1>2 DEF Quiet
  <1>4. CASE Sent(cf)
    BY <1>0, <1>4, QuietIs, <1>3 DEF Sent
  <1>5. CASE Enters(cf)
    <2>1. PICK k \in 1..cf.Keys :
             /\ send[k].at = "chosen" /\ Turns1(k, "saving") /\ k \notin Range(entries)
             /\ Range(entries') = Range(entries) \cup {k}
             /\ writes' = Append(writes, [kind |-> "enqueue", key |-> k, value |-> entries'])
             /\ UNCHANGED <<disk, job>>
      BY <1>5 DEF Enters
    <2> DEFINE e == [kind |-> "enqueue", key |-> k, value |-> entries']
    <2>2. entries' \in Seq(1..cf.Keys) BY <1>0, OutTypesKept DEF OutboxTypes
    <2>3. e \in Writes(cf) /\ e.kind = "enqueue" /\ e.key = k /\ e.value = entries'
      BY <2>2 DEF Writes
    <2>4. Grown(e) BY <1>0, <2>1, <2>3, GrownIs
    <2> HIDE DEF e
    <2>5. /\ \A j \in 1..cf.Keys : j # k => send'[j] = send[j]
          /\ send'[k].at = "saving"
      BY <1>0, <2>1, TurnsAre
    <2>6. Saved(k)'
      <3>1. writes'[Len(writes) + 1] = e /\ Len(writes') = Len(writes) + 1 BY <2>4 DEF Grown
      <3>2. k \in Range(entries') BY <2>1
      <3>3. ASSUME NEW m \in Nat, m = Len(writes) PROVE Present(k, m + 1)'
        BY <2>3, <2>5, <3>1, <3>2, <3>3, PresentNew DEF Saving
      <3>4. \A m \in Nat : m = Len(writes) => Present(k, m + 1)' BY <3>3
      <3>5. Present(k, Len(writes))' BY <1>c, <3>1, <3>4 DEF Present
      <3> QED BY <3>2, <3>5 DEF Saved
    <2>7. ASSUME NEW j \in 1..cf.Keys, j # k, Entered(send', j) PROVE Settled(j)' \/ Saved(j)'
      <3>1. Entered(send, j) /\ (Saving(send', j) <=> Saving(send, j))
        BY <2>5, <2>7 DEF Entered, Saving
      <3>2. ASSUME j \in Range(entries), Present(j, Len(writes)) PROVE Saved(j)'
        BY <1>0, <2>1, <2>3, <2>4, <3>1, <3>2, SavedGrown
      <3>3. ASSUME job.stage = "dropping", job.key = j, NEW n \in 0..(Len(writes) - 1),
                   writes[n + 1].kind = "remove", Present(j, n)
            PROVE  Saved(j)'
        <4>1. n \in 0..Len(writes) /\ n + 1 \in 1..Len(writes) BY <1>c
        <4>2. \A i \in 1..n : writes'[i] = writes[i] BY <1>c, <2>4 DEF Grown
        <4>3. Present(j, n)' BY <1>0, <2>1, <3>1, <3>3, <4>1, <4>2, PresentSame
        <4>4. n \in 0..(Len(writes') - 1) /\ writes'[n + 1] = writes[n + 1]
          BY <1>c, <2>4, <4>1 DEF Grown
        <4> QED BY <2>1, <3>3, <4>3, <4>4 DEF Saved
      <3>4. Saved(j) => Saved(j)' BY <3>2, <3>3 DEF Saved
      <3> QED BY <1>1, <3>1, <3>4
    <2> QED BY <2>6, <2>7 DEF SavedFacts
  <1>6. CASE Starts(cf)
    <2>1. UNCHANGED <<writes, disk, entries>> /\ job.stage = "none"
      BY <1>0, <1>6 DEF Starts, JobFacts
    <2>2. Quiet(cf)
      BY <1>6, <1>0, QuietIs DEF Starts
    <2> QED BY <1>3, <2>1, <2>2
  <1>7. CASE Unclaims \/ Takes(cf) \/ Strays \/ Links(cf) \/ Still
    BY <1>0, <1>7, <1>3, QuietIs DEF Unclaims, Takes, Strays, Links, Still, JobFacts
  <1>8. CASE Fails(cf)
    <2>1. UNCHANGED <<writes, disk, entries>> /\ job.stage # "dropping" BY <1>8 DEF Fails
    <2>2. CASE send' = send BY <1>0, <1>3, <2>1, <2>2, QuietIs
    <2>3. CASE job.kind = "submit" /\ Turns1(job.key, "parked")
      BY <1>0, <1>8, <2>3, QuietIs, <1>3, <2>1 DEF JobFacts, Fails
    <2> QED BY <1>8, <2>2, <2>3 DEF Fails
  <1>9. CASE TakesOut(cf)
    <2>1. /\ job.stage \in {"receipt", "refused"} /\ job.key \in 1..cf.Keys /\ job.kind # "none"
          /\ Range(entries') = Range(entries) \ {job.key}
          /\ writes' = Append(writes, [kind |-> "remove", key |-> job.key, value |-> entries'])
          /\ job' = [job EXCEPT !.stage = IF job.stage = "refused" THEN "dropping" ELSE "leaving"]
          /\ UNCHANGED <<send, disk, admitted>>
      BY <1>9 DEF TakesOut
    <2> DEFINE e == [kind |-> "remove", key |-> job.key, value |-> entries']
    <2>2. entries' \in Seq(1..cf.Keys) BY <1>0, OutTypesKept DEF OutboxTypes
    <2>3. e \in Writes(cf) /\ e.kind = "remove" /\ e.value = entries' BY <2>1, <2>2 DEF Writes
    <2>4. Grown(e) BY <1>0, <2>1, <2>3, GrownIs
    <2> HIDE DEF e
    <2>5. \A j \in 1..cf.Keys : Saving(send', j) <=> Saving(send, j) BY <2>1
    <2>6. ASSUME NEW j \in 1..cf.Keys, Entered(send, j), Saved(j) PROVE Settled(j)' \/ Saved(j)'
      <3>1. j \in Range(entries) /\ Present(j, Len(writes)) BY <2>1, <2>6 DEF Saved
      <3>2. CASE j # job.key BY <1>0, <2>1, <2>3, <2>4, <2>5, <3>1, <3>2, SavedGrown
      <3>3. CASE j = job.key /\ job.stage = "receipt" BY <1>0, <2>1, <3>3 DEF JobFacts, Settled
      <3>4. CASE j = job.key /\ job.stage = "refused"
        <4>1. job'.stage = "dropping" /\ job'.key = j
          BY <1>0, <2>1, <3>4 DEF OutboxTypes, Outbox!Jobs
        <4>2. ASSUME NEW m \in 0..Len(writes), m = Len(writes) PROVE Present(j, m)'
          BY <2>4, <4>2, <3>1, <1>0, <2>1, <2>5, PresentSame DEF Grown
        <4>3. \A m \in 0..Len(writes) : m = Len(writes) => Present(j, m)' BY <4>2
        <4>4. /\ Len(writes) \in 0..Len(writes) /\ Len(writes) \in 0..(Len(writes') - 1)
              /\ writes'[Len(writes) + 1] = e
          BY <1>c, <2>4 DEF Grown
        <4>5. \E n \in 0..(Len(writes') - 1) : writes'[n + 1].kind = "remove" /\ Present(j, n)'
          BY <2>3, <4>3, <4>4
        <4> QED BY <4>1, <4>5 DEF Saved
      <3> QED BY <2>1, <3>2, <3>3, <3>4
    <2>7. \A j \in 1..cf.Keys : Entered(send', j) => Entered(send, j) BY <2>1
    <2> QED BY <1>2, <2>6, <2>7
  <1>10. CASE SavesEntry(cf)
    <2>1. PICK k \in 1..cf.Keys, a \in {"submitting", "queued"} :
             /\ writes # <<>> /\ writes[1].kind = "enqueue" /\ writes[1].key = k
             /\ disk' = writes[1].value /\ writes' = Tail(writes) /\ send[k].at = "saving"
             /\ Turns1(k, a) /\ UNCHANGED <<entries, job>>
      BY <1>10 DEF SavesEntry
    <2>2. Done BY <1>0, <2>1, DoneIs
    <2>3. /\ \A j \in 1..cf.Keys : j # k => send'[j] = send[j]
          /\ send'[k].at = a
      BY <1>0, <2>1, TurnsAre
    <2>4. \A j \in 1..cf.Keys : Entered(send', j) => Entered(send, j) BY <2>1, <2>3 DEF Entered
    <2>5. \A j \in 1..cf.Keys : Saving(send', j) <=>
             Saving(send, j) /\ ~(writes[1].kind = "enqueue" /\ writes[1].key = j)
      BY <2>1, <2>3 DEF Saving
    <2>6. disk' = IF writes[1].kind = "draft" THEN disk ELSE writes[1].value BY <2>1
    <2>7. ASSUME NEW j \in 1..cf.Keys, Saved(j) PROVE Saved(j)'
      <3>1. CASE j \in Range(entries) /\ Present(j, Len(writes))
        BY <1>0, <2>1, <2>2, <2>5, <2>6, <3>1, SavedDone
      <3>2. ASSUME job.stage = "dropping", job.key = j, NEW n \in 0..(Len(writes) - 1),
                   writes[n + 1].kind = "remove", Present(j, n)
            PROVE  Saved(j)'
        BY <2>1, <1>0, <2>2, <2>5, <2>6, <3>2, DroppedDone
      <3> QED BY <2>7, <3>1, <3>2 DEF Saved
    <2> QED BY <1>2, <2>4, <2>7
  <1>11. CASE SavesRemoval(cf)
    <2>1. /\ writes # <<>> /\ writes[1].kind = "remove" /\ job.key \in 1..cf.Keys
          /\ job.kind # "none" /\ writes[1].key = job.key
          /\ disk' = writes[1].value /\ entries' = entries
      BY <1>11 DEF SavesRemoval
    <2>2. Done \/ Drafted(job.key) BY <1>0, <1>11, <2>1, DoneIs, DraftedIs DEF SavesRemoval
    <2>3. Quiet(cf)
      <3>1. CASE send' = send BY <1>0, <3>1, QuietIs
      <3>2. CASE job.kind = "submit"
                 /\ Turns1(job.key, IF job.stage = "dropping" THEN "kept" ELSE "done")
        BY <1>0, <3>2, <2>1, QuietIs DEF JobFacts
      <3> QED BY <1>11, <3>1, <3>2 DEF SavesRemoval
    <2>4. \A j \in 1..cf.Keys : Saving(send', j) <=>
             Saving(send, j) /\ ~(writes[1].kind = "enqueue" /\ writes[1].key = j)
      BY <2>1, <2>3 DEF Quiet
    <2>5. disk' = IF writes[1].kind = "draft" THEN disk ELSE writes[1].value BY <2>1
    <2>6. ASSUME NEW j \in 1..cf.Keys, Saved(j) PROVE Settled(j)' \/ Saved(j)'
      <3>1. CASE j \in Range(entries) /\ Present(j, Len(writes))
        BY <1>0, <2>1, <2>2, <2>4, <2>5, <3>1, SavedDone
      <3>2. CASE job.stage = "dropping" /\ job.key = j
        BY <1>b, <3>2, <1>11, <2>1 DEF Over, SavesRemoval, Resting, Flushing, Releasing
      <3> QED BY <2>6, <3>1, <3>2 DEF Saved
    <2> QED BY <1>2, <2>3, <2>6 DEF Quiet
  <1>12. CASE SavesDraft(cf)
    <2>1. /\ writes # <<>> /\ writes' = Tail(writes) /\ writes[1].kind = "draft"
          /\ UNCHANGED <<send, entries, disk, job>>
      BY <1>12 DEF SavesDraft
    <2>2. Done BY <1>0, <2>1, DoneIs
    <2>4. \A j \in 1..cf.Keys : Entered(send', j) => Entered(send, j) BY <2>1
    <2>5. \A j \in 1..cf.Keys : Saving(send', j) <=>
             Saving(send, j) /\ ~(writes[1].kind = "enqueue" /\ writes[1].key = j)
      BY <2>1
    <2>6. disk' = IF writes[1].kind = "draft" THEN disk ELSE writes[1].value BY <2>1
    <2>7. ASSUME NEW j \in 1..cf.Keys, Saved(j) PROVE Saved(j)'
      <3>1. CASE j \in Range(entries) /\ Present(j, Len(writes))
        BY <1>0, <2>1, <2>2, <2>5, <2>6, <3>1, SavedDone
      <3>2. ASSUME job.stage = "dropping", job.key = j, NEW n \in 0..(Len(writes) - 1),
                   writes[n + 1].kind = "remove", Present(j, n)
            PROVE  Saved(j)'
        BY <2>1, <1>0, <2>2, <2>5, <2>6, <3>2, DroppedDone
      <3> QED BY <2>7, <3>1, <3>2 DEF Saved
    <2> QED BY <1>2, <2>4, <2>7
  <1>13. CASE Crashes(cf)
    <2>1. /\ left.crash > 0 /\ UNCHANGED <<disk, drafts, admitted>> /\ entries' = disk
          /\ writes' = <<>> /\ Reread(cf)
      BY <1>13 DEF Crashes
    <2>2. Unrefused
      BY <1>0, <2>1 DEF OutboxTypes, Lefts, OutboxInv, ModeFacts
    <2>3. ASSUME NEW k \in 1..cf.Keys, Entered(send', k) PROVE Settled(k)' \/ Saved(k)'
      <3>1. ASSUME send'[k].at # "saving", k \in Range(disk) PROVE Saved(k)'
        BY <2>1, <3>1 DEF Present, Saved
      <3>2. CASE send[k].at \in BusyAt
        BY <1>0, <2>1, <3>2, RereadIs, <3>1 DEF Settled
      <3>3. CASE send[k].at \notin BusyAt
        <4>1. send'[k] = send[k] BY <1>0, <2>1, <3>3, RereadIs
        <4>2. Entered(send, k) /\ send'[k].at # "saving" BY <2>3, <3>3, <4>1 DEF Entered, BusyAt
        <4>3. CASE Saved(k)
          BY <2>2, <4>3, <4>1, <4>2, <3>1 DEF Saved, Unrefused, Present
        <4> QED BY <1>1, <4>2, <4>3
      <3> QED BY <3>2, <3>3
    <2> QED BY <2>3 DEF SavedFacts
  <1> QED
    BY <1>a, <1>4, <1>5, <1>6, <1>7, <1>8, <1>9, <1>10, <1>11, <1>12, <1>13 DEF Steps

-----------------------------------------------------------------------------
(* The order of a session.                                                 *)

\* Every text before one that was sent was sent.
LEMMA OlderSent ==
  ASSUME NEW cf, cf.Keys \in Nat, SendFacts(cf), NEW k \in 1..cf.Keys, NEW x \in 1..cf.Keys,
         x < k, send[k].at # "unsent"
  PROVE  send[x].at # "unsent"
  <1>1. PICK n \in 0..cf.Keys : \A k1 \in 1..cf.Keys : send[k1].at # "unsent" <=> k1 <= n
    BY DEF SendFacts
  <1> QED BY <1>1

LEMMA FirstKept ==
  ASSUME NEW cf, OutboxInv(cf),
         Outbox(cf)!OutboxAssumption, [Outbox(cf)!Next]_(Outbox(cf)!vars),
         NEW k \in 1..cf.Keys, send[k].at # "unsent", First(cf, k)
  PROVE  First(cf, k)'
  <1>0. OutboxTypes(cf) /\ SendFacts(cf) /\ JobFacts(cf) /\ ChainFacts(cf) /\ WriteFacts(cf)
        /\ cf.Keys \in Nat
    BY DEF OutboxInv, Outbox!OutboxAssumption
  <1>1. Aged(cf) BY <1>0, SendAges
  <1>2. \A x \in 1..cf.Keys : Over(x) => Over(x)' BY OverKept
  <1>3. ASSUME NEW x \in 1..cf.Keys, x < k, send'[x].sid = send'[k].sid PROVE Over(x)'
    BY <1>0, <1>3, OlderSent, <1>1, <1>2 DEF Aged, First
  <1> QED BY <1>3 DEF First

\* What a flush with the rest of b passes by is older and over, or still to come.
Ordered(cf, b) == \A k \in Range(b.rest) : \A x \in 1..cf.Keys :
    x < k /\ send[x].sid = send[k].sid => Over(x) \/ x \in Range(b.rest) \/ x = b.key

LEMMA FlushOrder ==
  ASSUME NEW cf, cf.Keys \in Nat, NEW q \in Seq(1..cf.Keys), Listed(send, q), NEW b,
         Flushing(q, b), b # Resting(0),
         \A k \in Range(q) : \A x \in 1..cf.Keys :
            x < k /\ send[x].sid = send[k].sid => Over(x) \/ x \in Range(q),
         \A x \in claimed : Latest(cf, x)
  PROVE  /\ b.key \in Range(q) /\ First(cf, b.key)
         /\ Range(b.rest) \subseteq Range(q) /\ Ordered(cf, b)
  <1>1. PICK i \in DOMAIN q :
           /\ q[i] \notin claimed /\ \A j \in 1..(i - 1) : q[j] \in claimed
           /\ b = [kind |-> "flush", key |-> q[i], stage |-> "call",
                   rest |-> SubSeq(q, i + 1, Len(q))]
    BY DEF Flushing
  <1> DEFINE r == SubSeq(q, i + 1, Len(q))
  <1>2. /\ Range(r) \subseteq Range(q)
        /\ \A x \in Range(q) : x \in Range(r) \/ \E j \in 1..i : x = q[j]
    <2>1. Range(r) \subseteq Range(q) BY SubListed
    <2>2. \A x \in Range(q) : x \in Range(r) \/ Upto(q, i, x) BY SubListed
    <2> QED BY <2>1, <2>2 DEF Upto
  <1>3. b.key = q[i] /\ b.rest = r BY <1>1
  <1> HIDE DEF r
  <1>4. Len(q) \in Nat /\ DOMAIN q = 1..Len(q) /\ i \in Nat BY LenProperties
  <1>5. \A x \in Range(q) : x \in 1..cf.Keys /\ send[x].at # "unsent"
    BY <1>4, ElementOfSeq DEF Listed, Range, Entered
  <1>6. q[i] \in Range(q) BY DEF Range
  <1>7. \A j \in 1..i : j < i => q[j] \in claimed
    BY <1>4, <1>1
  <1>8. ASSUME NEW k \in Range(q), NEW x \in claimed, x < k, send[x].sid = send[k].sid PROVE FALSE
    BY <1>5, <1>8 DEF Latest
  <1>9. ASSUME NEW x \in 1..cf.Keys, x < q[i], send[x].sid = send[q[i]].sid, ~Over(x) PROVE FALSE
    <2>1. x \in Range(q) BY <1>6, <1>9
    <2>2. PICK j \in DOMAIN q : q[j] = x BY <2>1 DEF Range
    <2>3. j # i BY <1>5, <1>6, <1>9, <2>2
    <2>4. ~(i < j) BY <1>5, <1>6, <1>9, <2>2 DEF Listed
    <2>5. j \in 1..i /\ j < i BY <1>4, <2>2, <2>3, <2>4
    <2>6. x \in claimed BY <1>7, <2>2, <2>5
    <2> QED BY <1>6, <1>8, <1>9, <2>6
  <1>10. ASSUME NEW k \in Range(r), NEW x \in 1..cf.Keys, x < k, send[x].sid = send[k].sid,
                ~Over(x), x \notin Range(r)
         PROVE  x = q[i]
    <2>1. k \in Range(q) /\ x \in Range(q) BY <1>2, <1>10
    <2>2. PICK j \in 1..i : x = q[j] BY <1>2, <1>10, <2>1
    <2>3. CASE j < i
      BY <1>7, <2>2, <2>3, <1>8, <1>10, <2>1
    <2>4. j = i \/ j < i BY <1>4
    <2> QED BY <2>2, <2>3, <2>4
  <1>11. First(cf, b.key) BY <1>3, <1>9 DEF First
  <1>12. Ordered(cf, b) BY <1>3, <1>10 DEF Ordered
  <1> QED BY <1>2, <1>3, <1>6, <1>11, <1>12

LEMMA OrderStays ==
  ASSUME NEW cf, OutboxInv(cf),
         Outbox(cf)!OutboxAssumption, [Outbox(cf)!Next]_(Outbox(cf)!vars),
         \A k \in Range(admitted') \cup stray' : k \in 1..cf.Keys /\ Entered(send, k) /\ First(cf, k),
         job'.stage = "call" =>
            job'.key \in 1..cf.Keys /\ Entered(send, job'.key) /\ First(cf, job'.key),
         job'.kind = "flush" =>
            /\ \A k \in Range(job'.rest) : k \in 1..cf.Keys /\ Entered(send, k)
            /\ Ordered(cf, job'),
         \A k \in 1..cf.Keys : send'[k].live /\ send'[k].at # "unsent" =>
            (send[k].live /\ send[k].at # "unsent") \/ First(cf, k)'
  PROVE  OrderFacts(cf)'
  <1>0. OutboxTypes(cf) /\ SendFacts(cf) /\ JobFacts(cf) /\ ChainFacts(cf) /\ WriteFacts(cf)
        /\ OrderFacts(cf) /\ cf.Keys \in Nat
    BY DEF OutboxInv, Outbox!OutboxAssumption
  <1>1. Aged(cf) BY <1>0, SendAges
  <1>2. \A x \in 1..cf.Keys : Over(x) => Over(x)' BY OverKept
  <1>3. \A k \in 1..cf.Keys : Entered(send, k) => send[k].at # "unsent" BY DEF Entered
  <1>4. \A k \in 1..cf.Keys : send[k].at # "unsent" /\ First(cf, k) => First(cf, k)' BY FirstKept
  <1>5. \A k \in Range(admitted') \cup stray' : First(cf, k)' BY <1>3, <1>4
  <1>6. job'.stage = "call" => First(cf, job.key)'
    <2>1. ASSUME NEW k \in 1..cf.Keys, job'.stage = "call", job'.key = k PROVE First(cf, k)'
      BY <1>3, <1>4, <2>1
    <2>2. \A k \in 1..cf.Keys : job'.stage = "call" /\ job'.key = k => First(cf, k)' BY <2>1
    <2> QED BY <2>2 DEF First
  <1>7. \A k \in 1..cf.Keys : send'[k].live /\ send'[k].at # "unsent" => First(cf, k)'
    BY <1>0, <1>4 DEF OrderFacts
  <1>8. ASSUME job'.kind = "flush", NEW k \in Range(job'.rest), NEW x \in 1..cf.Keys,
               x < k, send'[x].sid = send'[k].sid
        PROVE  Over(x)' \/ x \in Range(job'.rest) \/ x = job'.key
    BY <1>3, <1>8, <1>0, OlderSent, <1>1, <1>2 DEF Aged, Ordered
  <1> QED BY <1>5, <1>6, <1>7, <1>8 DEF OrderFacts

LEMMA OrderFactsKept ==
  ASSUME NEW cf, OutboxInv(cf),
         Outbox(cf)!OutboxAssumption, [Outbox(cf)!Next]_(Outbox(cf)!vars)
  PROVE  OrderFacts(cf)'
  <1>0. /\ OutboxTypes(cf) /\ SendFacts(cf) /\ ListFacts(cf) /\ JobFacts(cf) /\ ChainFacts(cf)
        /\ ClaimFacts(cf) /\ WriteFacts(cf) /\ SavedFacts(cf) /\ OrderFacts(cf) /\ cf.Keys \in Nat
    BY DEF OutboxInv, Outbox!OutboxAssumption
  <1>a. Aged(cf) /\ (Sent(cf) \/ Plain(cf)) /\ Steps(cf) BY <1>0, SendAges, PlainIs, StepsAre
  <1>b. \A x \in 1..cf.Keys : Over(x) => Over(x)' BY OverKept
  <1>c. \A k \in Range(admitted) \cup stray : k \in 1..cf.Keys /\ Entered(send, k) /\ First(cf, k)
    BY <1>0, OutFields DEF ListFacts, OrderFacts
  <1>d. job.kind # "none" => job.key \in 1..cf.Keys /\ Entered(send, job.key)
    BY <1>0, OutFields DEF JobFacts
  <1>e. job.kind = "flush" => /\ \A k \in Range(job.rest) : k \in 1..cf.Keys /\ Entered(send, k)
                              /\ Ordered(cf, job)
    BY <1>0, OutFields, ListedIn DEF ListFacts, OrderFacts, Ordered
  <1>f. /\ Listed(send, entries) /\ entries \in Seq(1..cf.Keys)
        /\ Listed(send, job.rest) /\ job.rest \in Seq(1..cf.Keys)
    BY <1>0, OutFields DEF ListFacts, OutboxTypes
  <1>g. \A x \in claimed : x \in 1..cf.Keys /\ Latest(cf, x)
    <2>1. \A x \in claimed : x \in 1..cf.Keys BY <1>0, OutFields
    <2>2. ASSUME NEW x \in claimed PROVE Latest(cf, x)
      <3>1. CASE send[x].at \in {"saving", "submitting"}
        BY <1>0, <2>1, <3>1 DEF SendFacts, BusyAt
      <3>2. CASE job.kind = "none" /\ job.key = x
        BY <2>1, <3>2, <1>0 DEF JobFacts
      <3> QED BY <1>0, <2>1, <3>1, <3>2 DEF ClaimFacts
    <2> QED BY <2>1, <2>2
  <1>h. job.stage = "call" => job.key \in 1..cf.Keys /\ Entered(send, job.key) /\ First(cf, job.key)
    BY <1>0, <1>d DEF JobFacts, OrderFacts
  <1>i. ASSUME NEW k \in 1..cf.Keys, NEW x \in 1..cf.Keys, send[k].at # "unsent", x < k,
               send[x].sid = send[k].sid
        PROVE  Over(x) \/ x \in Range(entries)
    BY <1>0, <1>i, OlderSent DEF SendFacts, Latest, Entered, BusyAt, SavedFacts, Saved, Over
  <1>1. ASSUME Plain(cf),
               \A k \in Range(admitted') \cup stray' :
                  k \in Range(admitted) \cup stray \/ (job.stage = "call" /\ k = job.key),
               job'.stage = "call" =>
                  job'.key \in 1..cf.Keys /\ Entered(send, job'.key) /\ First(cf, job'.key),
               job'.kind = "flush" =>
                  /\ \A k \in Range(job'.rest) : k \in 1..cf.Keys /\ Entered(send, k)
                  /\ Ordered(cf, job')
        PROVE  OrderFacts(cf)'
    BY <1>1, <1>c, <1>h, OrderStays DEF Plain
  <1>2. ASSUME Plain(cf),
               \A k \in Range(admitted') \cup stray' :
                  k \in Range(admitted) \cup stray \/ (job.stage = "call" /\ k = job.key),
               NEW k \in Nat, job' = Resting(k)
        PROVE  OrderFacts(cf)'
    BY <1>2, <1>1 DEF Resting
  <1>3. ASSUME Plain(cf), admitted' = admitted, stray' = stray, NEW q \in Seq(1..cf.Keys),
               Listed(send, q), Flushing(q, job'),
               \A k \in Range(q) : \A x \in 1..cf.Keys :
                  x < k /\ send[x].sid = send[k].sid => Over(x) \/ x \in Range(q)
        PROVE  OrderFacts(cf)'
    <2>1. CASE job' = Resting(0) BY <1>2, <1>3, <2>1
    <2>2. CASE job' # Resting(0)
      <3>1. /\ job'.key \in Range(q) /\ First(cf, job'.key)
            /\ Range(job'.rest) \subseteq Range(q) /\ Ordered(cf, job')
        BY <1>0, <1>3, <1>g, <2>2, FlushOrder
      <3>2. \A k \in Range(q) : k \in 1..cf.Keys /\ Entered(send, k)
        <4>1. \A i \in DOMAIN q : q[i] \in 1..cf.Keys BY <1>3, LenProperties, ElementOfSeq
        <4> QED BY <1>3, <4>1, ListedIn DEF Range
      <3> QED BY <1>1, <1>3, <3>1, <3>2
    <2> QED BY <2>1, <2>2
  <1>4. ASSUME Plain(cf), admitted' = admitted, stray' = stray, job' = job
        PROVE  OrderFacts(cf)'
    BY <1>1, <1>4, <1>e, <1>h
  <1>5. send' = send => Plain(cf) BY DEF Plain
  <1>6. CASE Sent(cf)
    <2>1. PICK k \in 1..cf.Keys, s \in cf.Sessions :
            /\ send[k].at = "unsent" /\ send'[k].at = "chosen" /\ send'[k].sid = s
            /\ \A j \in 1..cf.Keys : j # k => send'[j] = send[j]
            /\ \A j \in 1..cf.Keys : j < k <=> send[j].at # "unsent"
            /\ \A j \in 1..cf.Keys : send[j].sid = s => send[j].at \notin BusyAt
            /\ send'[k].live => \A x \in Range(entries) : send[x].sid # s
            /\ UNCHANGED <<admitted, stray, job>>
      BY <1>0, <1>6, SentIs
    <2>2. ASSUME send'[k].live, NEW x \in 1..cf.Keys, x < k, send'[x].sid = send'[k].sid
          PROVE  Over(x)'
      BY <2>1, <2>2, <1>0, <1>b DEF Entered, BusyAt, SavedFacts, Saved, Over
    <2>3. send'[k].live => First(cf, k)' BY <2>2 DEF First
    <2>4. \A j \in 1..cf.Keys : send'[j].live /\ send'[j].at # "unsent" =>
             (send[j].live /\ send[j].at # "unsent") \/ First(cf, j)'
      <3>1. ASSUME NEW j \in 1..cf.Keys, send'[j].live, send'[j].at # "unsent", j # k
            PROVE  send[j].live /\ send[j].at # "unsent"
        BY <2>1, <3>1
      <3>2. ASSUME NEW j \in 1..cf.Keys, send'[j].live, j = k PROVE First(cf, j)'
        BY <2>3, <3>2
      <3> QED BY <3>1, <3>2
    <2> QED BY <2>1, <2>4, <1>c, <1>e, <1>h, OrderStays
  <1>7. CASE Enters(cf)
    <2>1. UNCHANGED <<admitted, stray, job>> /\ ~Sent(cf)
      <3>1. UNCHANGED <<admitted, stray, job>> BY <1>7 DEF Enters
      <3>2. PICK k \in 1..cf.Keys : entries' = Append(entries, k) BY <1>7 DEF Enters
      <3>3. Len(Append(entries, k)) = Len(entries) + 1 /\ Len(entries) \in Nat BY <1>f, AppendIs
      <3>4. entries' # entries BY <3>2, <3>3
      <3> QED BY <3>1, <3>4 DEF Sent
    <2> QED BY <1>4, <1>a, <2>1
  <1>8. CASE SavesEntry(cf)
    <2>1. UNCHANGED <<admitted, stray, job>> BY <1>8 DEF SavesEntry
    <2>2. PICK k \in 1..cf.Keys, a \in {"submitting", "queued"} :
             send[k].at = "saving" /\ Turns1(k, a)
      BY <1>8 DEF SavesEntry
    <2>3. Plain(cf) BY <1>0, <2>2, TurnsAre DEF Plain
    <2> QED BY <1>4, <2>1, <2>3
  <1>9. CASE Links(cf) \/ SavesDraft(cf) \/ Still
    BY <1>9, <1>4, <1>5 DEF Links, SavesDraft, Still
  <1>10. CASE Unclaims
    BY <1>10, <1>2, <1>5 DEF Unclaims
  <1>p. ASSUME NEW k \in 1..cf.Keys, NEW a \in {"parked", "done", "kept"},
               send[k].at = "submitting", Turns1(k, a)
        PROVE  Plain(cf)
    BY <1>0, <1>p, TurnsAre DEF Plain
  <1>11. CASE Starts(cf)
    <2>1. UNCHANGED <<admitted, stray>> /\ job.kind = "none" BY <1>11 DEF Starts
    <2>2. CASE send' = send /\ Flushing(entries, job')
      <3>1. \A k \in Range(entries) : \A x \in 1..cf.Keys :
               x < k /\ send[x].sid = send[k].sid => Over(x) \/ x \in Range(entries)
        BY <1>0, <1>f, OutFields, ListedIn, <1>i DEF Entered
      <3> QED BY <1>3, <1>5, <1>f, <2>1, <2>2, <3>1
    <2>3. CASE send' = send /\ Releasing(entries, job')
      BY <2>3, <1>1, <1>5, <2>1 DEF Releasing, Resting
    <2>4. ASSUME NEW k \in 1..cf.Keys, send[k].live, send[k].at = "submitting", send' = send,
                 job' = [kind |-> "submit", key |-> k, stage |-> "call", rest |-> <<>>]
          PROVE  OrderFacts(cf)'
      BY <2>4, <1>0, <1>1, <1>5, <2>1 DEF OrderFacts, Entered
    <2>5. ASSUME NEW k \in 1..cf.Keys, send[k].at = "submitting", job' = Resting(k),
                 Turns1(k, "parked")
          PROVE  OrderFacts(cf)'
      BY <1>2, <1>p, <2>1, <2>5
    <2> QED BY <1>11, <2>2, <2>3, <2>4, <2>5 DEF Starts
  <1>12. CASE Takes(cf)
    BY <1>12, <1>0, LandsIs, <1>e, <1>1, <1>5 DEF Takes, Lands1, OutboxTypes, Outbox!Jobs, Ordered
  <1>13. CASE Strays
    <2>1. PICK k \in stray : stray' = stray \ {k} /\ Lands1(k) BY <1>13 DEF Strays
    <2>2. UNCHANGED <<send, job>> BY <1>13 DEF Strays
    <2>3. Range(admitted') \subseteq Range(admitted) \cup {k}
      BY <1>0, <1>c, <2>1, LandsIs DEF OutboxTypes
    <2> QED BY <1>1, <1>5, <1>e, <1>h, <2>1, <2>2, <2>3
  <1>14. CASE TakesOut(cf)
    BY <1>14, <1>0, <1>e, <1>1, <1>5 DEF TakesOut, OutboxTypes, Outbox!Jobs, Ordered
  <1>15. CASE Fails(cf)
    BY <1>15, <1>0, <1>5, <1>p, <1>2 DEF Fails, JobFacts
  <1>16. CASE SavesRemoval(cf)
    <2>1. /\ UNCHANGED <<admitted, stray>> /\ job.key \in 1..cf.Keys /\ job.kind # "none"
          /\ job.stage \in {"leaving", "dropping"}
      BY <1>16 DEF SavesRemoval
    <2>2. CASE job.kind = "submit" /\ job' = Resting(job.key)
               /\ Turns1(job.key, IF job.stage = "dropping" THEN "kept" ELSE "done")
      BY <1>0, <2>2, <1>p, <2>1, <1>2 DEF JobFacts
    <2>3. CASE job.kind = "flush" /\ Flushing(job.rest, job') /\ send' = send
      <3>1. Over(job.key)
        BY <1>0, <2>1 DEF JobFacts, Over, Settled
      <3>2. \A k \in Range(job.rest) : \A x \in 1..cf.Keys :
               x < k /\ send[x].sid = send[k].sid => Over(x) \/ x \in Range(job.rest)
        BY <1>e, <2>3, <3>1 DEF Ordered
      <3> QED BY <1>3, <1>5, <1>f, <2>1, <2>3, <3>2
    <2>4. CASE Releasing(job.rest, job') /\ send' = send
      BY <2>4, <1>1, <1>5, <2>1 DEF Releasing, Resting
    <2> QED BY <1>16, <2>2, <2>3, <2>4 DEF SavesRemoval
  <1>17. CASE Crashes(cf)
    BY <1>17, <1>0, RereadIs, <1>2 DEF Crashes, Plain, BusyAt
  <1> QED
    BY <1>a, <1>6, <1>7, <1>8, <1>9, <1>10, <1>11, <1>12, <1>13, <1>14, <1>15, <1>16, <1>17
    DEF Steps

-----------------------------------------------------------------------------
(* The order the owner admits, when nothing is refused.                    *)

LEMMA InTurnKept ==
  ASSUME NEW cf, OutboxInv(cf), Unrefused, InTurn,
         Outbox(cf)!OutboxAssumption, [Outbox(cf)!Next]_(Outbox(cf)!vars)
  PROVE  InTurn'
  <1>0. /\ OutboxTypes(cf) /\ SendFacts(cf) /\ ListFacts(cf) /\ JobFacts(cf) /\ ChainFacts(cf)
        /\ WriteFacts(cf) /\ OrderFacts(cf) /\ cf.Keys \in Nat
    BY DEF OutboxInv, Outbox!OutboxAssumption
  <1>a. Aged(cf) /\ Steps(cf) BY <1>0, SendAges, StepsAre
  <1>b. /\ admitted \in Seq(1..cf.Keys) /\ DOMAIN admitted = 1..Len(admitted)
        /\ Len(admitted) \in Nat
    BY <1>0, LenProperties DEF OutboxTypes
  <1>c. \A i \in DOMAIN admitted : /\ admitted[i] \in 1..cf.Keys /\ admitted[i] \in Range(admitted)
                                   /\ Entered(send, admitted[i]) /\ First(cf, admitted[i])
    BY <1>0, OutFields DEF Range, ListFacts, OrderFacts
  <1>d. \A k \in 1..cf.Keys : Entered(send, k) =>
           /\ send'[k].sid = send[k].sid
           /\ send[k].at = "kept" => send'[k].at = "kept"
    BY <1>a DEF Aged, Entered, BusyAt
  <1>1. ASSUME NEW i \in DOMAIN admitted, NEW j \in DOMAIN admitted, i < j,
               send'[admitted[i]].sid = send'[admitted[j]].sid, send'[admitted[j]].at # "kept"
        PROVE  admitted[i] < admitted[j]
    BY <1>1, <1>c, <1>d DEF InTurn
  <1>2. CASE admitted' = admitted BY <1>1, <1>2 DEF InTurn
  <1>3. ASSUME NEW y \in 1..cf.Keys, Entered(send, y), y \notin Range(admitted),
               admitted' = Append(admitted, y)
        PROVE  InTurn'
    <2>1. /\ DOMAIN admitted' = 1..(Len(admitted) + 1)
          /\ \A i \in 1..Len(admitted) : admitted'[i] = admitted[i]
          /\ admitted'[Len(admitted) + 1] = y
      BY <1>3, <1>b, AppendIs
    <2>2. ASSUME NEW i \in DOMAIN admitted, send'[admitted[i]].sid = send'[y].sid,
                 send'[y].at # "kept"
          PROVE  admitted[i] < y
      BY <1>3, <1>c, <1>d, <2>2 DEF Over, Settled, Unrefused, First
    <2>3. ASSUME NEW i \in DOMAIN admitted', NEW j \in DOMAIN admitted', i < j,
                 send'[admitted'[i]].sid = send'[admitted'[j]].sid, send'[admitted'[j]].at # "kept"
          PROVE  admitted'[i] < admitted'[j]
      <3>1. i \in DOMAIN admitted /\ admitted'[i] = admitted[i] BY <1>b, <2>1, <2>3
      <3>2. CASE j \in DOMAIN admitted
        BY <1>b, <2>1, <3>2, <1>1, <2>3, <3>1
      <3>3. CASE j = Len(admitted) + 1 BY <2>1, <2>2, <2>3, <3>1, <3>3
      <3> QED BY <1>b, <2>1, <3>2, <3>3
    <2> QED BY <2>3 DEF InTurn
  <1>4. CASE Takes(cf)
    BY <1>0, <1>4, <1>2, <1>3 DEF Takes, Lands1, JobFacts
  <1>5. CASE Strays
    <2>1. PICK k \in stray : Lands1(k) BY <1>5 DEF Strays
    <2>2. k \in 1..cf.Keys /\ Entered(send, k) BY <1>0, OutFields DEF ListFacts
    <2> QED BY <1>2, <1>3, <2>1, <2>2 DEF Lands1
  <1>6. CASE Sent(cf) BY <1>2, <1>6 DEF Sent
  <1>7. CASE Enters(cf) \/ Starts(cf) \/ Unclaims \/ TakesOut(cf) \/ Fails(cf) \/ Links(cf)
             \/ SavesEntry(cf) \/ SavesRemoval(cf) \/ SavesDraft(cf) \/ Crashes(cf) \/ Still
    BY <1>7, <1>2 DEF Enters, Starts, Unclaims, TakesOut, Fails, Links, SavesEntry, SavesRemoval,
       SavesDraft, Crashes, Still
  <1> QED BY <1>a, <1>4, <1>5, <1>6, <1>7 DEF Steps

LEMMA ShrinksOnly ==
  ASSUME NEW cf, Steps(cf)
  PROVE  Shrunk
  <1>1. CASE Sent(cf) \/ Enters(cf) \/ Starts(cf) \/ Unclaims \/ Strays \/ TakesOut(cf)
             \/ SavesEntry(cf) \/ SavesRemoval(cf) \/ SavesDraft(cf) \/ Still
    BY <1>1 DEF Sent, Enters, Starts, Unclaims, Strays, TakesOut, SavesEntry, SavesRemoval, SavesDraft,
       Still, Shrunk
  <1>2. CASE Takes(cf) \/ Fails(cf) \/ Links(cf) \/ Crashes(cf)
    BY <1>2 DEF Takes, Fails, Links, Crashes
  <1> QED BY <1>1, <1>2 DEF Steps

\* Nothing but refusals is refused.
LEMMA UnrefusedKept ==
  ASSUME NEW cf, OutboxInv(cf), Unrefused,
         Outbox(cf)!OutboxAssumption, [Outbox(cf)!Next]_(Outbox(cf)!vars)
  PROVE  Unrefused'
  <1>0. /\ OutboxTypes(cf) /\ SendFacts(cf) /\ ListFacts(cf) /\ JobFacts(cf) /\ ChainFacts(cf)
        /\ WriteFacts(cf) /\ cf.Keys \in Nat
    BY DEF OutboxInv, Outbox!OutboxAssumption
  <1>a. Steps(cf) /\ Shrunk BY <1>0, StepsAre, ShrinksOnly
  <1>b. /\ DOMAIN writes = 1..Len(writes) /\ Len(writes) \in Nat
        /\ chain \in Seq(Chains(cf)) /\ DOMAIN chain = 1..Len(chain) /\ Len(chain) \in Nat
    BY <1>0, OutFields DEF OutboxTypes
  <1>c. left'.refuse = 0 /\ left'.dead = 0 BY <1>a DEF Unrefused, Shrunk
  <1>d. /\ ~(left.refuse > 0) /\ ~(left.dead > 0) /\ ~dead /\ drafts = {}
        /\ \A i \in DOMAIN writes : writes[i].kind # "draft"
        /\ \A i \in DOMAIN chain : chain[i].kind # "release"
        /\ job.kind # "release" /\ job.stage \notin {"refused", "dropping"}
    BY DEF Unrefused
  <1> DEFINE Wr == \A i \in DOMAIN writes' : writes'[i].kind # "draft"
             Ch == \A i \in DOMAIN chain' : chain'[i].kind # "release"
             Jb == job'.kind # "release" /\ job'.stage \notin {"refused", "dropping"}
  <1>1. ASSUME Wr, Ch, Jb, ~dead', drafts' = drafts PROVE Unrefused'
    BY <1>1, <1>c, <1>d DEF Unrefused
  <1>2. writes' = writes => Wr BY <1>d
  <1>3. ASSUME NEW e \in Writes(cf), e.kind # "draft", writes' = Append(writes, e) PROVE Wr
    BY <1>0, <1>3, GrownIs, <1>b, <1>d DEF Grown
  <1>4. ASSUME writes # <<>>, writes' = Tail(writes) PROVE Wr
    BY <1>0, <1>4, DoneIs, <1>b, <1>d DEF Done
  <1>5. chain' = chain => Ch BY <1>d
  <1>6. ASSUME NEW e \in Chains(cf), e.kind # "release", chain' = Append(chain, e) PROVE Ch
    BY <1>6, <1>b, AppendIs, <1>d
  <1>7. ASSUME chain # <<>>, chain' = Tail(chain) PROVE Ch /\ 1 \in DOMAIN chain
    BY <1>7, <1>b, HeadTailIs, <1>d
  <1>8. job' = job => Jb BY <1>d
  <1>9. \A k : job' = Resting(k) => Jb BY DEF Resting
  <1>10. \A q : Flushing(q, job') => Jb BY <1>9 DEF Flushing
  <1> HIDE DEF Wr, Ch, Jb
  <1>11. CASE Sent(cf) \/ Strays \/ Still
    BY <1>11, <1>1, <1>2, <1>5, <1>8, <1>d DEF Sent, Strays, Still
  <1>12. CASE Enters(cf)
    <2>1. PICK k \in 1..cf.Keys :
             /\ writes' = Append(writes, [kind |-> "enqueue", key |-> k, value |-> entries'])
             /\ UNCHANGED <<chain, job, dead, drafts>>
      BY <1>12 DEF Enters
    <2> DEFINE e == [kind |-> "enqueue", key |-> k, value |-> entries']
    <2>2. entries' \in Seq(1..cf.Keys) BY <1>0, OutTypesKept DEF OutboxInv, OutboxTypes
    <2>3. e \in Writes(cf) /\ e.kind # "draft" BY <2>2 DEF Writes
    <2>4. writes' = Append(writes, e) BY <2>1
    <2> HIDE DEF e
    <2> QED BY <1>1, <1>3, <1>5, <1>8, <1>d, <2>1, <2>3, <2>4
  <1>13. CASE Starts(cf)
    BY <1>13, <1>7, <1>d, <1>9, <1>10, <1>1, <1>2 DEF Starts, Jb
  <1>14. CASE Unclaims
    BY <1>14, <1>1, <1>2, <1>5, <1>9, <1>d DEF Unclaims
  <1>15. CASE Takes(cf)
    BY <1>15, <1>d, <1>0, <1>1, <1>2, <1>5 DEF Takes, Jb, OutboxTypes, Outbox!Jobs
  <1>16. CASE TakesOut(cf)
    <2>1. /\ job.key \in 1..cf.Keys /\ UNCHANGED <<dead, drafts, chain>>
          /\ writes' = Append(writes, [kind |-> "remove", key |-> job.key, value |-> entries'])
          /\ job' = [job EXCEPT !.stage = IF job.stage = "refused" THEN "dropping" ELSE "leaving"]
      BY <1>16 DEF TakesOut
    <2> DEFINE e == [kind |-> "remove", key |-> job.key, value |-> entries']
    <2>2. entries' \in Seq(1..cf.Keys) BY <1>0, OutTypesKept DEF OutboxInv, OutboxTypes
    <2>3. e \in Writes(cf) /\ e.kind # "draft" BY <2>1, <2>2 DEF Writes
    <2>4. writes' = Append(writes, e) BY <2>1
    <2> HIDE DEF e
    <2>5. Jb BY <1>0, <1>d, <2>1 DEF Jb, OutboxTypes, Outbox!Jobs
    <2> QED BY <1>1, <1>3, <1>5, <1>d, <2>1, <2>3, <2>4, <2>5
  <1>17. CASE Fails(cf)
    BY <1>17, <1>1, <1>2, <1>5, <1>9, <1>d DEF Fails
  <1>18. CASE Links(cf)
    BY <1>18, <1>d, <1>0, <1>5, <1>6, <1>1, <1>2, <1>8 DEF Links, Chains
  <1>19. CASE SavesEntry(cf)
    <2>1. PICK k \in 1..cf.Keys :
             /\ writes # <<>> /\ writes' = Tail(writes) /\ UNCHANGED <<dead, drafts, job>>
             /\ \/ chain' = Append(chain, [kind |-> "submit", key |-> k])
                \/ chain' = Append(chain, [kind |-> "flush", key |-> 0])
      BY <1>19 DEF SavesEntry
    <2>2. /\ [kind |-> "flush", key |-> 0] \in Chains(cf)
          /\ [kind |-> "submit", key |-> k] \in Chains(cf)
      BY <1>0 DEF Chains
    <2>3. Ch BY <1>6, <2>1, <2>2
    <2> QED BY <1>1, <1>4, <1>8, <1>d, <2>1, <2>3
  <1>20. CASE SavesRemoval(cf)
    BY <1>20, <1>d, <1>1, <1>4, <1>5, <1>9, <1>10 DEF SavesRemoval
  <1>21. CASE SavesDraft(cf)
    BY <1>21, <1>0, HeadTailIs, <1>d DEF SavesDraft, OutboxTypes
  <1>22. CASE Crashes(cf)
    BY <1>22, <1>1, <1>9 DEF Crashes, Wr, Ch
  <1> QED
    BY <1>a, <1>11, <1>12, <1>13, <1>14, <1>15, <1>16, <1>17, <1>18, <1>19, <1>20, <1>21, <1>22
    DEF Steps

LEMMA ModeFactsKept ==
  ASSUME NEW cf, OutboxInv(cf),
         Outbox(cf)!OutboxAssumption, [Outbox(cf)!Next]_(Outbox(cf)!vars)
  PROVE  ModeFacts(cf)'
  <1>1. CASE left.crash = 0
    <2>1. Shrunk BY StepsAre, ShrinksOnly
    <2> QED BY <1>1, <2>1 DEF Shrunk, ModeFacts
  <1>2. CASE Unrefused /\ InTurn BY <1>2, UnrefusedKept, InTurnKept DEF ModeFacts
  <1> QED BY <1>1, <1>2 DEF OutboxInv, ModeFacts

LEMMA OutboxKept ==
  ASSUME NEW cf, OutboxInv(cf),
         Outbox(cf)!OutboxAssumption, [Outbox(cf)!Next]_(Outbox(cf)!vars)
  PROVE  OutboxInv(cf)'
  BY OutTypesKept, SendAges, ListFactsKept, JobFactsKept, ChainFactsKept, ClaimFactsKept,
     WriteFactsKept, SavedFactsKept, OrderFactsKept, ModeFactsKept DEF OutboxInv

-----------------------------------------------------------------------------
(* The outbox at the start, and what its invariant promises.               *)

LEMMA OutboxStarts ==
  ASSUME NEW cf, Outbox(cf)!OutboxAssumption, Outbox(cf)!Init
  PROVE  /\ cf.MaxRefusals = 0 /\ cf.MaxDead = 0 => Unrefused /\ InTurn
         /\ (cf.MaxRefusals = 0 /\ cf.MaxDead = 0) \/ cf.MaxCrashes = 0 => OutboxInv(cf)
  <1> USE DEF Outbox!Key
  <1>0. /\ cf.Keys \in Nat /\ cf.MaxDrops \in Nat /\ cf.MaxUnknowns \in Nat /\ cf.MaxCrashes \in Nat
        /\ cf.MaxRefusals \in Nat /\ cf.MaxDead \in Nat
    BY DEF Outbox!OutboxAssumption
  <1>1. /\ \A k \in 1..cf.Keys : send[k] = [sid |-> 0, live |-> FALSE, at |-> "unsent"]
        /\ send \in [1..cf.Keys -> Sends(cf)]
    BY DEF Outbox!Init, Outbox!Unsent, Outbox!None, Sends, At
  <1>2. /\ entries = <<>> /\ disk = <<>> /\ writes = <<>> /\ claimed = {} /\ chain = <<>>
        /\ retry = FALSE /\ up = FALSE /\ dead = FALSE /\ stray = {} /\ admitted = <<>>
        /\ drafts = {}
    BY DEF Outbox!Init
  <1>3. job.kind = "none" /\ job.key = 0 /\ job.stage = "none" /\ job.rest = <<>>
    BY DEF Outbox!Init, Outbox!Idle, Outbox!NoJob, Outbox!None
  <1>4. left = [drop |-> cf.MaxDrops, unknown |-> cf.MaxUnknowns, crash |-> cf.MaxCrashes,
                refuse |-> cf.MaxRefusals, dead |-> cf.MaxDead]
    BY DEF Outbox!Init
  <1>5. left \in Lefts BY <1>0, <1>4 DEF Lefts
  <1>6. job \in Outbox(cf)!Jobs
    BY <1>0, EmptySeq DEF Outbox!Init, Outbox!Idle, Outbox!NoJob, Outbox!None, Outbox!Jobs
  <1>7. OutboxTypes(cf)
    BY EmptySeq, <1>1, <1>2, <1>5, <1>6 DEF OutboxTypes
  <1>8. SendFacts(cf)
    BY <1>0, <1>1 DEF SendFacts, BusyAt
  <1>9. Range(<<>>) = {} /\ Listed(send, <<>>) BY EmptyListed
  <1>10. ListFacts(cf) BY <1>2, <1>3, <1>9 DEF ListFacts
  <1>11. JobFacts(cf) BY <1>3 DEF JobFacts
  <1>12. ChainFacts(cf) /\ WriteFacts(cf) BY <1>2 DEF ChainFacts, WriteFacts
  <1>13. ClaimFacts(cf) BY <1>1, <1>2 DEF ClaimFacts
  <1>14. SavedFacts(cf) BY <1>1 DEF SavedFacts, Entered
  <1>15. OrderFacts(cf) BY <1>1, <1>2, <1>3, <1>9 DEF OrderFacts
  <1>16. cf.MaxRefusals = 0 /\ cf.MaxDead = 0 => Unrefused /\ InTurn
    BY <1>2, <1>3, <1>4 DEF Unrefused, InTurn
  <1>17. cf.MaxCrashes = 0 => left.crash = 0 BY <1>4
  <1>18. (cf.MaxRefusals = 0 /\ cf.MaxDead = 0) \/ cf.MaxCrashes = 0 => ModeFacts(cf)
    BY <1>16, <1>17 DEF ModeFacts
  <1> QED
    BY <1>7, <1>8, <1>10, <1>11, <1>12, <1>13, <1>14, <1>15, <1>16, <1>18 DEF OutboxInv

LEMMA OutboxImplies ==
  ASSUME NEW cf, Outbox(cf)!OutboxAssumption, OutboxInv(cf)
  PROVE  /\ Outbox(cf)!TypeOK /\ Outbox(cf)!SpentSurvives /\ Outbox(cf)!TurnGetsReceipt
         /\ InTurn => Outbox(cf)!InOrder
  <1> USE DEF Outbox!Key
  <1>0. OutboxTypes(cf) /\ ListFacts(cf) /\ JobFacts(cf) /\ SavedFacts(cf) BY DEF OutboxInv
  <1>1. Outbox(cf)!TypeOK
    <2>1. send \in [1..cf.Keys -> [sid : cf.Sessions \cup {0}, live : BOOLEAN,
                                   at : Outbox(cf)!Busy \cup {"unsent", "queued", "parked", "done", "kept"}]]
      BY <1>0 DEF At, Outbox!Busy, OutboxTypes, Sends
    <2>2. Outbox(cf)!IsInjective(entries) /\ Outbox(cf)!IsInjective(disk)
      BY <1>0, OutLists DEF ListFacts, Listed
    <2>3. {entries, disk, admitted} \subseteq Seq(1..cf.Keys) BY <1>0 DEF OutboxTypes
    <2>4. /\ writes \in Seq([kind : {"enqueue", "remove", "draft"}, key : 1..cf.Keys,
                             value : Seq(1..cf.Keys)])
          /\ chain \in Seq([kind : {"flush", "submit", "release"}, key : 0..cf.Keys])
      BY <1>0 DEF OutboxTypes, Writes, Chains
    <2>5. /\ job \in Outbox(cf)!Jobs /\ claimed \subseteq 1..cf.Keys /\ stray \subseteq 1..cf.Keys
          /\ drafts \subseteq 1..cf.Keys /\ {retry, up, dead} \subseteq BOOLEAN
      BY <1>0 DEF OutboxTypes
    <2> QED BY <2>1, <2>2, <2>3, <2>4, <2>5 DEF Outbox!TypeOK, Outbox!None
  <1>2. ASSUME NEW k \in 1..cf.Keys, send[k].at \in {"queued", "parked"}
        PROVE  \/ k \in Range(disk) \cup Range(admitted) \cup drafts
               \/ \E i \in DOMAIN writes : writes[i].kind = "draft" /\ writes[i].key = k
    <2>1. Settled(k) \/ Saved(k) BY <1>0, <1>2 DEF SavedFacts, Entered
    <2>2. CASE Settled(k) BY <1>2, <2>2 DEF Settled
    <2>3. CASE Saved(k)
      BY <2>3, <1>2 DEF Saved, Present
    <2> QED BY <2>1, <2>2, <2>3
  <1>3. Outbox(cf)!SpentSurvives BY <1>2, OutLists DEF Outbox!SpentSurvives, Outbox!Spent
  <1>4. Outbox(cf)!TurnGetsReceipt
    BY <1>0 DEF JobFacts, BusyAt, Outbox!TurnGetsReceipt, Outbox!Busy
  <1>5. InTurn => Outbox(cf)!InOrder BY DEF InTurn, Outbox!InOrder
  <1> QED BY <1>1, <1>3, <1>4, <1>5

SendsHold ==
    /\ scenario = "turns" => OutboxInv(Turns) /\ Unrefused /\ InTurn
    /\ scenario = "refused" => OutboxInv(Refusing)

LEMMA SendsKeep ==
  ASSUME Turns.MaxRefusals = 0, Turns.MaxDead = 0, Refusing.MaxCrashes = 0
  PROVE  /\ Init => SendsHold
         /\ SendsHold /\ [Next]_vars => SendsHold'
  <1>0. Outbox(Turns)!OutboxAssumption /\ Outbox(Refusing)!OutboxAssumption
    BY Instances DEF Instances
  <1>1. ASSUME Init PROVE SendsHold
    BY <1>1, <1>0, OutboxStarts DEF Init, SendsHold
  <1>2. ASSUME SendsHold, [Next]_vars PROVE SendsHold'
    <2>1. /\ scenario' = scenario
          /\ scenario = "turns" => [Outbox(Turns)!Next]_(Outbox(Turns)!vars)
          /\ scenario = "refused" => [Outbox(Refusing)!Next]_(Outbox(Refusing)!vars)
      <3>1. CASE Next BY <3>1 DEF Next
      <3>2. CASE UNCHANGED vars
        BY <3>2 DEF vars, OutboxVars, Outbox!vars, Outbox!link
      <3> QED BY <1>2, <3>1, <3>2
    <2>2. ASSUME scenario = "turns" PROVE OutboxInv(Turns)' /\ Unrefused' /\ InTurn'
      BY <1>2, <2>2, <2>1, <1>0, OutboxKept, UnrefusedKept, InTurnKept DEF SendsHold
    <2>3. ASSUME scenario = "refused" PROVE OutboxInv(Refusing)'
      BY <1>2, <2>3, <2>1, <1>0, OutboxKept DEF SendsHold
    <2> QED BY <2>1, <2>2, <2>3 DEF SendsHold
  <1> QED BY <1>1, <1>2

\* The texts of a session reach the owner in the order typed, a text the
\* composer has given up is on disk, with the owner or back in a draft, and a
\* live turn's entry is not flushed from under it: over any number of sends,
\* sessions, drops, unknown outcomes and deaths of the App while nothing is
\* refused; and nothing spent is lost to a refusal or to the bridge's end while
\* the App does not die (data/ws_outbox.dart).
THEOREM SendsStayKept ==
  ASSUME Turns.MaxRefusals = 0, Turns.MaxDead = 0, Refusing.MaxCrashes = 0
  PROVE  Spec => []SendsKept
  <1>0. Outbox(Turns)!OutboxAssumption /\ Outbox(Refusing)!OutboxAssumption
    BY Instances DEF Instances
  <1>1. SendsHold => SendsKept BY <1>0, OutboxImplies DEF SendsHold, SendsKept
  <1>2. Init => SendsHold BY SendsKeep
  <1>3. SendsHold /\ [Next]_vars => SendsHold' BY SendsKeep
  <1> QED BY <1>1, <1>2, <1>3, PTL DEF Spec
=============================================================================
