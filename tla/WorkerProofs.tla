---------------------------- MODULE WorkerProofs ----------------------------
(***************************************************************************)
(* Safety of the gateway side of self-wake (MCWorker) for every value of   *)
(* the constants: arming (SelfWakeArm), the shared ledger connection       *)
(* (LedgerTxn), the worker itself (SelfWake) and the loader (Installer).   *)
(* cf is a record of a component's constants; the lemmas hold for any such *)
(* record, and the theorems at the end for the records of all scenarios.   *)
(***************************************************************************)
EXTENDS MCWorker, Functions, FiniteSets, Sequences, SequenceTheorems, FiniteSetTheorems,
        WellFoundedInduction, TLAPS

-----------------------------------------------------------------------------
(* SelfWakeArm.                                                            *)

\* The generation counts loads and unloads, so it bounds the posted arms.
ArmInv(cf) ==
    /\ Arming(cf)!TypeOK
    /\ Arming(cf)!NoZombieWorker
    /\ status = "applied" => current.gen < cf.MaxGen
    /\ status # "applied" => 2 * Len(posted) <= current.gen

LEMMA ArmInit ==
  ASSUME NEW cf, Arming(cf)!Shape, Arming(cf)!Init
  PROVE  ArmInv(cf)
  <1>1. (CHOOSE m \in cf.Mods : TRUE) \in cf.Mods BY DEF Arming!Shape
  <1>2. cf.MaxGen \in Nat /\ cf.MaxLinks \in Nat BY DEF Arming!Shape
  <1>3. current = [mod |-> CHOOSE m \in cf.Mods : TRUE, gen |-> 0] /\ posted = <<>>
    BY DEF Arming!Init
  <1>4. current \in [mod : cf.Mods, gen : 0..cf.MaxGen] /\ current.gen = 0 BY <1>1, <1>2, <1>3
  <1>5. posted \in Seq([mod : cf.Mods, gen : 1..cf.MaxGen]) /\ Len(posted) = 0 BY <1>3
  <1>6. /\ status = "none" /\ stamp = "none" /\ connected = FALSE /\ links = 0
        /\ task = [m \in cf.Mods |-> "none"]
    BY DEF Arming!Init
  <1>7. Arming(cf)!TypeOK
    <2>1. connected \in BOOLEAN BY <1>6
    <2>2. links \in 0..cf.MaxLinks BY <1>2, <1>6
    <2>3. 2 * Len(posted) <= current.gen + 1 BY <1>4, <1>5
    <2>4. task \in [cf.Mods -> {"none", "running", "dead"}] BY <1>6
    <2> QED BY <1>4, <1>5, <1>6, <2>1, <2>2, <2>3, <2>4, Zenon DEF Arming!TypeOK
  <1>8. Arming(cf)!NoZombieWorker BY <1>6 DEF Arming!NoZombieWorker
  <1> QED BY <1>4, <1>5, <1>6, <1>7, <1>8 DEF ArmInv

\* Whatever arm arrives, stale or not, no module but the applied one runs.
LEMMA ArmKeeps ==
  ASSUME NEW cf,
         Arming(cf)!TypeOK, Arming(cf)!NoZombieWorker, NEW p \in [mod : cf.Mods, gen : Nat],
         Arming(cf)!Arm(p)
  PROVE  /\ task' \in [cf.Mods -> {"none", "running", "dead"}]
         /\ stamp' \in {"none", "armed", "skipped", "dead", "stopped"}
         /\ \A m \in cf.Mods : task'[m] = "running" => m = current.mod /\ status = "applied"
  BY DEF Arming!TypeOK, Arming!NoZombieWorker, Arming!Arm, Arming!Stale

LEMMA ArmInductive ==
  ASSUME NEW cf, Arming(cf)!Shape, ArmInv(cf), [Arming(cf)!Next]_(Arming(cf)!vars)
  PROVE  ArmInv(cf)'
  <1> USE DEF ArmInv, Arming!TypeOK, Arming!NoZombieWorker, Arming!Shape
  <1>1. CASE Arming(cf)!Unload BY <1>1, SMTT(20) DEF Arming!Unload, Arming!Reset
  <1>2. CASE Arming(cf)!Connect BY <1>2, ArmKeeps DEF Arming!Connect
  <1>3. CASE Arming(cf)!Disconnect BY <1>3 DEF Arming!Disconnect, Arming!Reset
  <1>4. CASE Arming(cf)!Runs
    <2> DEFINE ArmSet == [mod : cf.Mods, gen : 1..cf.MaxGen]
    <2>0. posted \in Seq(ArmSet) /\ posted # <<>> /\ posted' = Tail(posted)
      BY <1>4 DEF Arming!Runs
    <2>1. /\ Head(posted) \in ArmSet /\ posted' \in Seq(ArmSet)
          /\ Len(posted') = Len(posted) - 1 /\ Len(posted) \in Nat
      <3> HIDE DEF ArmSet
      <3> QED BY <2>0, HeadTailProperties, LenProperties
    <2>2. Head(posted) \in [mod : cf.Mods, gen : Nat] BY <2>1
    <2>3. Arming(cf)!Arm(Head(posted)) /\ UNCHANGED <<current, status, connected, links>>
      BY <1>4 DEF Arming!Runs
    <2>4. /\ task' \in [cf.Mods -> {"none", "running", "dead"}]
          /\ stamp' \in {"none", "armed", "skipped", "dead", "stopped"}
          /\ Arming(cf)!NoZombieWorker'
      BY <2>2, <2>3, ArmKeeps
    <2>5. /\ 2 * Len(posted') <= current.gen + 1
          /\ status # "applied" => 2 * Len(posted') <= current.gen
      BY <2>1
    <2> HIDE DEF Arming!NoZombieWorker
    <2> QED BY <2>1, <2>3, <2>4, <2>5
  <1>5. ASSUME NEW m \in cf.Mods, Arming(cf)!Load(m) PROVE ArmInv(cf)'
    <2> DEFINE p == [mod |-> m, gen |-> current.gen + 1]
    <2>1. /\ status # "applied" /\ current.gen < cf.MaxGen - 1
          /\ current' = p /\ status' = "applied" /\ posted' = Arming(cf)!Scan(p)
          /\ stamp' = "none" /\ UNCHANGED <<task, connected, links>>
      BY <1>5 DEF Arming!Load
    <2>2. p \in [mod : cf.Mods, gen : 1..cf.MaxGen] /\ p.gen = current.gen + 1 /\ current.gen \in Nat
      BY <2>1
    <2>3. /\ posted' \in Seq([mod : cf.Mods, gen : 1..cf.MaxGen])
          /\ Len(posted') <= Len(posted) + 1 /\ Len(posted') \in Nat /\ Len(posted) \in Nat
      <3> DEFINE ArmSet == [mod : cf.Mods, gen : 1..cf.MaxGen]
      <3>1. posted \in Seq(ArmSet) /\ p \in ArmSet /\ posted' \in {posted, Append(posted, p)}
        BY <2>1, <2>2 DEF Arming!Scan
      <3> HIDE DEF ArmSet, p
      <3>2. /\ posted' \in Seq(ArmSet) /\ Len(posted) \in Nat
            /\ Len(posted') <= Len(posted) + 1
        <4>1. Len(posted) \in Nat BY <3>1, LenProperties
        <4>2. CASE posted' = posted BY <3>1, <4>1, <4>2
        <4>3. CASE posted' = Append(posted, p) BY <3>1, <4>1, <4>3, AppendProperties
        <4> QED BY <3>1, <4>1, <4>2, <4>3
      <3>3. Len(posted') \in Nat BY <3>2, LenProperties
      <3> QED BY <3>2, <3>3 DEF ArmSet
    <2>4. Arming(cf)!NoZombieWorker' BY <2>1
    <2>5. current' \in [mod : cf.Mods, gen : 0..cf.MaxGen] /\ current'.gen = current.gen + 1
      BY <2>1, <2>2
    <2>6. 2 * Len(posted') <= current'.gen + 1 /\ current'.gen < cf.MaxGen
      BY <2>1, <2>2, <2>3, <2>5
    <2> HIDE DEF p, Arming!NoZombieWorker
    <2> QED BY <2>1, <2>3, <2>4, <2>5, <2>6
  <1>6. ASSUME NEW m \in cf.Mods, Arming(cf)!Dies(m) PROVE ArmInv(cf)'
    BY <1>6 DEF Arming!Dies
  <1>7. CASE UNCHANGED Arming(cf)!vars BY <1>7 DEF Arming!vars
  <1> QED BY <1>1, <1>2, <1>3, <1>4, <1>5, <1>6, <1>7 DEF Arming!Next

-----------------------------------------------------------------------------
(* LedgerTxn.                                                              *)

\* Who is inside a transaction holds the lock, and what it has written is in
\* the open transaction or, when an unlocked writer committed, in the file.
TxnInv(cf) ==
    /\ Txn(cf)!TypeOK
    /\ \A o \in cf.Ops : lock = o <=> op[o] \in {"locked", "begun", "half", "full"}
    /\ \A o \in cf.Ops : /\ op[o] \in {"half", "full"} => <<o, 1>> \in txn \cup disk
                         /\ op[o] = "full" => <<o, 2>> \in txn \cup disk
    /\ Txn(cf)!AnswersAreDurable

\* Without unlocked writers the transaction holds exactly what the holder of
\* the lock has written, and the file what was finished.
LockedInv(cf) ==
    \A o \in cf.Ops : /\ <<o, 1>> \in txn <=> op[o] \in {"half", "full"}
                      /\ <<o, 2>> \in txn <=> op[o] = "full"
                      /\ <<o, 1>> \in disk <=> op[o] = "done"
                      /\ <<o, 2>> \in disk <=> op[o] = "done"

LEMMA TxnInductive ==
  ASSUME NEW cf, Txn(cf)!Shape, TxnInv(cf), [Txn(cf)!Next]_(Txn(cf)!vars)
  PROVE  TxnInv(cf)'
  <1> USE DEF TxnInv, Txn!TypeOK, Txn!Shape, Txn!AnswersAreDurable
  <1>0. ASSUME NEW o \in cf.Ops PROVE <<o, 1>> \in Txn(cf)!Writes /\ <<o, 2>> \in Txn(cf)!Writes
    BY DEF Txn!Writes
  <1>1. ASSUME NEW o \in cf.Ops, Txn(cf)!Lock(o) PROVE TxnInv(cf)'
    BY <1>1 DEF Txn!Lock, Txn!Moves
  <1>2. ASSUME NEW o \in cf.Ops, Txn(cf)!Begin(o) PROVE TxnInv(cf)'
    <2>1. CASE open BY <1>2, <2>1, ZenonT(60) DEF Txn!Begin, Txn!Moves, Txn!Rollback
    <2>2. CASE ~open BY <1>2, <2>2 DEF Txn!Begin, Txn!Moves
    <2> QED BY <2>1, <2>2
  <1>3. ASSUME NEW o \in cf.Ops, Txn(cf)!First(o) PROVE TxnInv(cf)'
    BY <1>0, <1>3 DEF Txn!First, Txn!Moves, Txn!Writing
  <1>4. ASSUME NEW o \in cf.Ops, Txn(cf)!Second(o) PROVE TxnInv(cf)'
    BY <1>0, <1>4 DEF Txn!Second, Txn!Moves, Txn!Writing
  <1>5. ASSUME NEW o \in cf.Ops, Txn(cf)!Finish(o) PROVE TxnInv(cf)'
    BY <1>5 DEF Txn!Finish, Txn!Moves, Txn!Commit
  <1>6. ASSUME NEW o \in cf.Ops, Txn(cf)!Fails(o) PROVE TxnInv(cf)'
    BY <1>6 DEF Txn!Fails, Txn!Moves, Txn!Rollback
  <1>7. ASSUME NEW a \in cf.Audits, Txn(cf)!AuditFetches(a) PROVE TxnInv(cf)'
    BY <1>7 DEF Txn!AuditFetches
  <1>8. ASSUME NEW a \in cf.Audits, Txn(cf)!AuditWrites(a) PROVE TxnInv(cf)'
    BY <1>8 DEF Txn!Writes, Txn!AuditWrites, Txn!Writing
  <1>9. ASSUME NEW a \in cf.Audits, Txn(cf)!AuditCommits(a) PROVE TxnInv(cf)'
    BY <1>9 DEF Txn!AuditCommits, Txn!Commit
  <1>10. CASE Txn(cf)!Crash
    <2>1. \A o \in cf.Ops : op'[o] = IF op[o] \in {"done", "failed"} THEN op[o] ELSE "idle"
      BY <1>10 DEF Txn!Crash
    <2>2. txn' = {} /\ disk' = disk /\ open' = FALSE /\ lock' = "free" /\ crashes' \in Nat
      BY <1>10 DEF Txn!Crash, Txn!Rollback
    <2>3. /\ op' \in [cf.Ops -> {"idle", "locked", "begun", "half", "full", "done", "failed"}]
          /\ audit' \in [cf.Audits -> {"idle", "fetched", "written", "done"}]
      BY <1>10 DEF Txn!Crash
    <2> QED BY <2>1, <2>2, <2>3
  <1>11. CASE UNCHANGED Txn(cf)!vars BY <1>11 DEF Txn!vars
  <1> QED BY <1>1, <1>2, <1>3, <1>4, <1>5, <1>6, <1>7, <1>8, <1>9, <1>10, <1>11
          DEF Txn!Next

LEMMA LockedInductive ==
  ASSUME NEW cf,
         Txn(cf)!Shape, cf.Audits = {}, TxnInv(cf), LockedInv(cf), [Txn(cf)!Next]_(Txn(cf)!vars)
  PROVE  LockedInv(cf)'
  <1> USE DEF TxnInv, LockedInv, Txn!TypeOK, Txn!Shape
  <1>1. ASSUME NEW o \in cf.Ops, Txn(cf)!Lock(o) PROVE LockedInv(cf)'
    <2>1. /\ op[o] = "idle" /\ txn' = txn /\ disk' = disk
          /\ \A q \in cf.Ops : op'[q] = IF q = o THEN "locked" ELSE op[q]
      BY <1>1 DEF Txn!Lock, Txn!Moves
    <2>2. \A q \in cf.Ops : q = o => op[q] = "idle" /\ op'[q] = "locked" BY <2>1
    <2>3. \A q \in cf.Ops : q # o => op'[q] = op[q] BY <2>1
    <2> QED BY <2>1, <2>2, <2>3, ZenonT(60)
  <1>2. ASSUME NEW o \in cf.Ops, Txn(cf)!Begin(o) PROVE LockedInv(cf)'
    <2>1. CASE open BY <1>2, <2>1, ZenonT(60) DEF Txn!Begin, Txn!Moves, Txn!Rollback
    <2>2. CASE ~open BY <1>2, <2>2, ZenonT(60) DEF Txn!Begin, Txn!Moves
    <2> QED BY <2>1, <2>2
  <1>3. ASSUME NEW o \in cf.Ops, Txn(cf)!First(o) PROVE LockedInv(cf)'
    <2>1. \A q \in cf.Ops : op'[q] = IF q = o THEN "half" ELSE op[q]
      BY <1>3 DEF Txn!First, Txn!Moves
    <2>2. op[o] = "begun" /\ txn' = txn \cup {<<o, 1>>} /\ disk' = disk
      BY <1>3 DEF Txn!First, Txn!Writing
    <2>3. ASSUME NEW q \in cf.Ops
          PROVE  /\ <<q, 1>> \in txn' <=> <<q, 1>> \in txn \/ q = o
                 /\ <<q, 2>> \in txn' <=> <<q, 2>> \in txn
      BY <2>2
    <2>4. \A q \in cf.Ops : q = o => op'[q] = "half" /\ op[q] = "begun" BY <2>1, <2>2
    <2> QED BY <2>1, <2>2, <2>3, <2>4
  <1>4. ASSUME NEW o \in cf.Ops, Txn(cf)!Second(o) PROVE LockedInv(cf)'
    BY <1>4 DEF Txn!Second, Txn!Moves, Txn!Writing
  <1>5. ASSUME NEW o \in cf.Ops, Txn(cf)!Finish(o) PROVE LockedInv(cf)'
    BY <1>5 DEF Txn!Finish, Txn!Moves, Txn!Commit
  <1>6. ASSUME NEW o \in cf.Ops, Txn(cf)!Fails(o) PROVE LockedInv(cf)'
    BY <1>6, ZenonT(60) DEF Txn!Fails, Txn!Moves, Txn!Rollback
  <1>7. CASE Txn(cf)!Crash BY <1>7 DEF Txn!Crash, Txn!Rollback
  <1>8. CASE UNCHANGED Txn(cf)!vars BY <1>8 DEF Txn!vars
  <1> QED BY <1>1, <1>2, <1>3, <1>4, <1>5, <1>6, <1>7, <1>8 DEF Txn!Next

LEMMA TxnInit ==
  ASSUME NEW cf, Txn(cf)!Shape, Txn(cf)!Init
  PROVE  TxnInv(cf) /\ LockedInv(cf)
  BY DEF Txn!Init, Txn!Shape, TxnInv, LockedInv, Txn!TypeOK, Txn!AnswersAreDurable

LEMMA TxnImplies ==
  ASSUME NEW cf, TxnInv(cf), cf.Audits = {} => LockedInv(cf)
  PROVE  Txn(cf)!TypeOK /\ Txn(cf)!LedgerAtomic
  BY DEF TxnInv, LockedInv, Txn!LedgerAtomic, Txn!AllOrNothing

-----------------------------------------------------------------------------
(* SelfWake.                                                               *)

\* The actions that touch neither the ledger, the door nor the launch count.
Calm == UNCHANGED <<cons, batch, door, launched>>

LEMMA SetItemsType ==
  ASSUME NEW cf, intent \in [cf.Keys -> Wk(cf)!Intent], NEW K,
         NEW s \in {"pending", "done", "void"},
         NEW d \in {"busy", "disabled", "exhausted", "error", "other"},
         Wk(cf)!SetItems(K, s, d)
  PROVE  /\ intent' \in [cf.Keys -> Wk(cf)!Intent]
         /\ \A k \in cf.Keys : intent'[k].batch = intent[k].batch
         /\ \A k \in cf.Keys : k \in K => intent'[k].state = s
         /\ \A k \in cf.Keys : k \notin K => intent'[k] = intent[k]
  BY ZenonT(60) DEF Wk!SetItems, Wk!Intent, Wk!Pending

LEMMA SetBatchType ==
  ASSUME NEW cf, intent \in [cf.Keys -> Wk(cf)!Intent], NEW K, NEW b \in cf.Batches,
         NEW d \in {"conflict", "other"},
         Wk(cf)!SetBatch(K, b, d)
  PROVE  /\ intent' \in [cf.Keys -> Wk(cf)!Intent]
         /\ \A k \in cf.Keys : k \in K => intent'[k].batch = b /\ intent'[k].state = "watching"
         /\ \A k \in cf.Keys : k \notin K => intent'[k] = intent[k]
  BY DEF Wk!SetBatch, Wk!Intent, Wk!Pending

-----------------------------------------------------------------------------
(* What the ledger, the door and the launches say of each other.           *)

BatchFacts(cf) ==
    \A b \in cf.Batches :
        /\ batch[b].state = "none" <=> batch[b].owner = "none"
        /\ door[b] # "none" \/ launched[b] # 0 => batch[b].owner = "self"
        /\ door[b] = "gated" => launched[b] = 0
        /\ door[b] = "gated" \/ launched[b] # 0 => batch[b].state \in Wk(cf)!Open \cup Wk(cf)!Closed
        /\ door[b] = "streaming" => launched[b] = 1
        /\ launched[b] <= 1

\* Where the worker has a batch in hand, and the run it may yet count.
Holding == {"own", "poll", "associate", "post", "wait", "accept", "non200", "terminal",
            "close", "unseen", "provenTerminal", "closeUncounted", "uncertain",
            "closeUncertain", "note", "fail", "fuse"}
Uncounted == Holding \ {"own", "fuse"}

\* A batch in hand or in an intent is the worker's own.
OwnFacts(cf) ==
    /\ w.pc \in Holding => w.batch \in cf.Batches
    /\ w.batch \in cf.Batches => batch[w.batch].owner = "self"
    /\ \A k \in cf.Keys : intent[k].batch \in cf.Batches => batch[intent[k].batch].owner = "self"

\* A run is counted once its batch is closed, and one that may yet be counted
\* was not.
CountFacts(cf) ==
    /\ \A b \in cf.Batches : counted[b] # 0 => counted[b] = 1 /\ batch[b].state \in Wk(cf)!Closed
    /\ w.pc \in Uncounted => counted[w.batch] = 0
    /\ w.pc \in {"close", "closeUncertain", "note", "fail"}
           => batch[w.batch].state \in Wk(cf)!Closed

\* What the worker has in hand or has claimed was recorded for it to wake.
Awake(cf) == {k \in cf.Keys : intent[k].state \notin {"none", "shadow"}}

ClaimFacts(cf) ==
    /\ w.items \subseteq Awake(cf)
    /\ \A k \in cf.Keys : cons[k] \in cf.Batches =>
           batch[cons[k]].owner = "app" \/ (batch[cons[k]].owner = "self" /\ k \in Awake(cf))

\* The gate was open when the worker went on to admit.
GateFacts == w.pc = "admit" => ~chain.fused

WakeInv(cf) == Wk(cf)!TypeOK /\ BatchFacts(cf) /\ OwnFacts(cf) /\ CountFacts(cf) /\ ClaimFacts(cf) /\ GateFacts

\* A batch keeps its owner, does not vanish, and a closed one stays closed.
Forward(cf) ==
    \A b \in cf.Batches : /\ batch[b].owner # "none" => batch'[b].owner = batch[b].owner
                          /\ batch[b].state # "none" => batch'[b].state # "none"
                          /\ batch[b].state \in Wk(cf)!Closed => batch'[b].state \in Wk(cf)!Closed

LEMMA IntentTyped ==
  ASSUME NEW cf,
         intent \in [cf.Keys -> Wk(cf)!Intent], w.pc \in Holding => w.batch \in cf.Batches,
         [Wk(cf)!Next]_(Wk(cf)!vars)
  PROVE  intent' \in [cf.Keys -> Wk(cf)!Intent]
  <1> USE DEF Wk!ledger, Wk!ghosts, Wk!bounds, Wk!outside, Wk!At, Wk!Ends, Wk!Idle
  <1>1. CASE \/ Wk(cf)!TickOff \/ Wk(cf)!TickShadow \/ Wk(cf)!TickOn \/ Wk(cf)!Checkpoint
             \/ (\E D \in SUBSET cf.Keys : Wk(cf)!TakeDue(D)) \/ Wk(cf)!PollRun
             \/ (\E A \in SUBSET cf.Keys, b \in cf.Batches : Wk(cf)!Admitted(A, b)) \/ Wk(cf)!Post
             \/ Wk(cf)!SeesReject \/ Wk(cf)!SeesStarted \/ Wk(cf)!SeesTerminal \/ Wk(cf)!StreamLost
             \/ Wk(cf)!ChainNote \/ Wk(cf)!ChainFail \/ Wk(cf)!FaultFuse
             \/ (\E b \in cf.Batches : Wk(cf)!DoorRejects(b))
             \/ (\E b \in cf.Batches : Wk(cf)!DoorLaunches(b))
             \/ (\E b \in cf.Batches : Wk(cf)!RunEnds(b)) \/ (\E b \in cf.Batches : Wk(cf)!DoorSettles(b))
             \/ (\E k \in cf.Keys : Wk(cf)!IntentAges(k)) \/ Wk(cf)!Toggle \/ Wk(cf)!HumanWrites
             \/ Wk(cf)!ChainRelease \/ (\E k \in cf.Keys, b \in cf.Batches : Wk(cf)!AppClaims(k, b))
             \/ (\E b \in cf.Batches : Wk(cf)!AppMoves(b)) \/ Wk(cf)!Crash
             \/ UNCHANGED Wk(cf)!vars
    BY <1>1 DEF Wk!vars, Wk!TickOff, Wk!TickShadow, Wk!TickOn, Wk!Checkpoint, Wk!TakeDue, Wk!PollRun,
       Wk!Admitted, Wk!Post, Wk!SeesReject, Wk!SeesStarted, Wk!SeesTerminal, Wk!StreamLost,
       Wk!ChainNote, Wk!ChainFail, Wk!FaultFuse, Wk!DoorRejects, Wk!DoorLaunches, Wk!RunEnds,
       Wk!DoorSettles, Wk!IntentAges, Wk!Toggle, Wk!HumanWrites, Wk!ChainRelease, Wk!AppClaims,
       Wk!AppMoves, Wk!Crash
  <1>2. CASE Wk(cf)!DisableSweep BY <1>2, SetItemsType DEF Wk!DisableSweep
  <1>3. CASE Wk(cf)!Classify BY <1>3, SetItemsType DEF Wk!Classify
  <1>4. CASE Wk(cf)!OwnBatch
    BY <1>4, SetItemsType, SetBatchType DEF Wk!OwnBatch, Wk!Quarantine, Holding
  <1>5. CASE Wk(cf)!Fresh
    <2>1. CASE Wk(cf)!SetItems(Wk(cf)!Exhausted, "void", "exhausted") BY <2>1, SetItemsType
    <2>2. CASE intent' = [k \in cf.Keys |->
                IF k \in Wk(cf)!Exhausted
                THEN [intent[k] EXCEPT !.state = "void", !.detail = "exhausted"]
                ELSE IF k \in w.items \ Wk(cf)!Exhausted
                THEN [intent[k] EXCEPT !.state = "pending", !.detail = "other"]
                ELSE intent[k]]
      BY <2>2 DEF Wk!Intent, Wk!Pending
    <2> QED BY <1>5, <2>1, <2>2 DEF Wk!Fresh
  <1>6. CASE Wk(cf)!Refused BY <1>6, SetItemsType DEF Wk!Refused
  <1>7. CASE Wk(cf)!AlreadyConsumed
    BY <1>7, SetItemsType, SetBatchType DEF Wk!AlreadyConsumed, Wk!Quarantine, Holding
  <1>8. CASE Wk(cf)!Associate
    BY <1>8, SetItemsType, SetBatchType DEF Wk!Associate, Wk!Quarantine, Holding
  <1>9. CASE Wk(cf)!EndpointDown BY <1>9, SetItemsType DEF Wk!EndpointDown
  <1>10. CASE Wk(cf)!RecordsAccepted
    BY <1>10, SetBatchType DEF Wk!RecordsAccepted, Wk!RecordBatch, Wk!Quarantine, Holding
  <1>11. CASE Wk(cf)!RecordsTerminal
    BY <1>11, SetBatchType DEF Wk!RecordsTerminal, Wk!RecordBatch, Wk!Quarantine, Holding
  <1>12. CASE Wk(cf)!Non200 BY <1>12, SetItemsType DEF Wk!Non200
  <1>13. CASE Wk(cf)!SettleUnseen
    BY <1>13, SetItemsType, SetBatchType DEF Wk!SettleUnseen, Wk!Quarantine, Holding
  <1>14. CASE Wk(cf)!RecordsProven
    BY <1>14, SetBatchType DEF Wk!RecordsProven, Wk!RecordBatch, Wk!Quarantine, Holding
  <1>15. CASE Wk(cf)!RecordsUncertain
    BY <1>15, SetBatchType DEF Wk!RecordsUncertain, Wk!RecordBatch, Wk!Quarantine, Holding
  <1>16. CASE Wk(cf)!CloseItems BY <1>16, SetItemsType DEF Wk!CloseItems
  <1>17. ASSUME NEW k \in cf.Keys, Wk(cf)!IntentRecorded(k) PROVE intent' \in [cf.Keys -> Wk(cf)!Intent]
    BY <1>17 DEF Wk!IntentRecorded, Wk!Intent, Wk!Pending
  <1> QED
    BY <1>1, <1>2, <1>3, <1>4, <1>5, <1>6, <1>7, <1>8, <1>9, <1>10, <1>11, <1>12, <1>13,
       <1>14, <1>15, <1>16, <1>17
    DEF Wk!Next, Wk!Worker, Wk!Door, Wk!Environment

LEMMA Goes ==
  ASSUME NEW cf, w \in Wk(cf)!Hand, NEW pc \in Wk(cf)!Pcs, Wk(cf)!At(pc)
  PROVE  /\ w' \in Wk(cf)!Hand /\ w'.pc = pc
         /\ w'.items = w.items /\ w'.batch = w.batch
  BY DEF Wk!At, Wk!Hand

LEMMA Rests ==
  ASSUME NEW cf, Wk(cf)!Ends
  PROVE  /\ w' \in Wk(cf)!Hand /\ w'.pc = "idle"
         /\ w'.items = {} /\ w'.batch = "none"
  BY DEF Wk!Ends, Wk!Idle, Wk!Hand, Wk!Pcs

LEMMA HandTyped ==
  ASSUME NEW cf,
         w \in Wk(cf)!Hand, intent \in [cf.Keys -> Wk(cf)!Intent], run \in [cf.Batches -> {"none", "running"} \cup Wk(cf)!Ended], w.pc \in Holding => w.batch \in cf.Batches,
         [Wk(cf)!Next]_(Wk(cf)!vars)
  PROVE  w' \in Wk(cf)!Hand
  <1> USE DEF Wk!ledger, Wk!ghosts, Wk!bounds, Wk!outside, Wk!Pcs
  <1>1. CASE \/ Wk(cf)!TickShadow \/ (\E b \in cf.Batches : Wk(cf)!DoorRejects(b))
             \/ (\E b \in cf.Batches : Wk(cf)!DoorLaunches(b))
             \/ (\E b \in cf.Batches : Wk(cf)!RunEnds(b)) \/ (\E b \in cf.Batches : Wk(cf)!DoorSettles(b))
             \/ (\E k \in cf.Keys : Wk(cf)!IntentRecorded(k)) \/ (\E k \in cf.Keys : Wk(cf)!IntentAges(k))
             \/ Wk(cf)!Toggle \/ Wk(cf)!HumanWrites \/ Wk(cf)!ChainRelease
             \/ (\E k \in cf.Keys, b \in cf.Batches : Wk(cf)!AppClaims(k, b))
             \/ (\E b \in cf.Batches : Wk(cf)!AppMoves(b))
             \/ UNCHANGED Wk(cf)!vars
    BY <1>1 DEF Wk!vars, Wk!TickShadow, Wk!DoorRejects, Wk!DoorLaunches, Wk!RunEnds, Wk!DoorSettles,
       Wk!IntentRecorded, Wk!IntentAges, Wk!Toggle, Wk!HumanWrites, Wk!ChainRelease, Wk!AppClaims,
       Wk!AppMoves
  <1>2. CASE Wk(cf)!TickOff BY <1>2, Goes, Rests DEF Wk!TickOff
  <1>3. CASE Wk(cf)!DisableSweep BY <1>3, Goes, Rests DEF Wk!DisableSweep
  <1>4. CASE Wk(cf)!TickOn BY <1>4, Goes, Rests DEF Wk!TickOn
  <1>5. CASE Wk(cf)!Checkpoint BY <1>5, Goes, Rests DEF Wk!Checkpoint
  <1>6. ASSUME NEW D \in SUBSET cf.Keys, Wk(cf)!TakeDue(D) PROVE w' \in Wk(cf)!Hand
    BY <1>6 DEF Wk!TakeDue, Wk!Due, Wk!Idle, Wk!Hand
  <1>7. CASE Wk(cf)!Classify
    <2> DEFINE linked == w.items \ (Wk(cf)!Ignored(w.items) \cup Wk(cf)!Foreign(w.items))
    <2>1. linked \in SUBSET cf.Keys BY DEF Wk!Hand
    <2>2. CASE w' = [w EXCEPT !.pc = "fresh", !.items = linked] BY <2>1, <2>2 DEF Wk!Hand
    <2>3. ASSUME NEW b \in {intent[k].batch : k \in linked} \ {"none"},
                 w' = [w EXCEPT !.pc = "own", !.items = linked, !.batch = b]
          PROVE  w' \in Wk(cf)!Hand
      <3>1. PICK k \in linked : b = intent[k].batch OBVIOUS
      <3>2. b \in cf.Batches BY <2>1, <2>3, <3>1 DEF Wk!Intent
      <3> QED BY <2>1, <2>3, <3>2 DEF Wk!Hand
    <2> QED BY <1>7, <2>2, <2>3, Rests DEF Wk!Classify
  <1>8. CASE Wk(cf)!OwnBatch BY <1>8, Goes, Rests DEF Wk!OwnBatch
  <1>9. CASE Wk(cf)!PollRun
    BY <1>9, Goes, Rests, ZenonT(60) DEF Wk!PollRun, Wk!Hand, Wk!Ended, Holding
  <1>10. CASE Wk(cf)!Fresh
    <2>1. CASE w' = [w EXCEPT !.pc = "admit", !.items = w.items \ Wk(cf)!Exhausted]
      BY <2>1 DEF Wk!Hand
    <2> QED BY <1>10, <2>1, Rests DEF Wk!Fresh
  <1>11. ASSUME NEW A \in SUBSET cf.Keys, NEW b \in cf.Batches, Wk(cf)!Admitted(A, b) PROVE w' \in Wk(cf)!Hand
    BY <1>11 DEF Wk!Admitted, Wk!Hand
  <1>12. CASE Wk(cf)!Refused BY <1>12, Goes, Rests DEF Wk!Refused
  <1>13. CASE Wk(cf)!AlreadyConsumed
    BY <1>13, Goes, Rests, ZenonT(60) DEF Wk!AlreadyConsumed, Wk!Hand, Holding
  <1>14. CASE Wk(cf)!Associate BY <1>14, Goes, Rests DEF Wk!Associate
  <1>15. CASE Wk(cf)!EndpointDown BY <1>15, Goes, Rests DEF Wk!EndpointDown
  <1>16. CASE Wk(cf)!Post BY <1>16, Goes, Rests DEF Wk!Post
  <1>17. CASE Wk(cf)!SeesReject BY <1>17, Goes, Rests DEF Wk!SeesReject
  <1>18. CASE Wk(cf)!SeesStarted BY <1>18 DEF Wk!SeesStarted, Wk!Hand
  <1>19. CASE Wk(cf)!RecordsAccepted BY <1>19, Goes, Rests DEF Wk!RecordsAccepted, Wk!RecordBatch
  <1>20. CASE Wk(cf)!SeesTerminal BY <1>20 DEF Wk!SeesTerminal, Wk!Hand, Wk!Ended
  <1>21. CASE Wk(cf)!StreamLost BY <1>21, Goes, Rests DEF Wk!StreamLost
  <1>22. CASE Wk(cf)!RecordsTerminal BY <1>22, Goes, Rests DEF Wk!RecordsTerminal, Wk!RecordBatch
  <1>23. CASE Wk(cf)!Non200 BY <1>23, Goes, Rests DEF Wk!Non200
  <1>24. CASE Wk(cf)!SettleUnseen BY <1>24, Goes, Rests DEF Wk!SettleUnseen
  <1>25. CASE Wk(cf)!RecordsProven BY <1>25, Goes, Rests DEF Wk!RecordsProven, Wk!RecordBatch
  <1>26. CASE Wk(cf)!RecordsUncertain
    BY <1>26, Goes, Rests DEF Wk!RecordsUncertain, Wk!RecordBatch
  <1>27. CASE Wk(cf)!CloseItems BY <1>27, Goes, Rests DEF Wk!CloseItems
  <1>28. CASE Wk(cf)!ChainNote BY <1>28, Goes, Rests DEF Wk!ChainNote
  <1>29. CASE Wk(cf)!ChainFail BY <1>29, Goes, Rests DEF Wk!ChainFail
  <1>30. CASE Wk(cf)!FaultFuse BY <1>30, Goes, Rests DEF Wk!FaultFuse
  <1>31. CASE Wk(cf)!Crash BY <1>31 DEF Wk!Crash, Wk!Idle, Wk!Hand, Wk!Ended
  <1> QED
    BY <1>1, <1>2, <1>3, <1>4, <1>5, <1>6, <1>7, <1>8, <1>9, <1>10, <1>11, <1>12, <1>13,
       <1>14, <1>15, <1>16, <1>17, <1>18, <1>19, <1>20, <1>21, <1>22, <1>23, <1>24, <1>25,
       <1>26, <1>27, <1>28, <1>29, <1>30, <1>31
    DEF Wk!Next, Wk!Worker, Wk!Door, Wk!Environment

LEMMA LedgerTyped ==
  ASSUME NEW cf,
         batch \in [cf.Batches -> Wk(cf)!Row], cons \in [cf.Keys -> cf.Batches \cup {"ignored", "none"}], w.pc \in Holding => w.batch \in cf.Batches,
         [Wk(cf)!Next]_(Wk(cf)!vars)
  PROVE  batch' \in [cf.Batches -> Wk(cf)!Row] /\ cons' \in [cf.Keys -> cf.Batches \cup {"ignored", "none"}]
  <1> USE DEF Wk!ledger, Wk!ghosts, Wk!bounds, Wk!outside, Wk!At, Wk!Ends, Wk!Idle, Wk!Row,
             Wk!Open, Wk!Closed, Holding
  <1>1. CASE \/ Wk(cf)!TickOff \/ Wk(cf)!DisableSweep \/ Wk(cf)!TickShadow \/ Wk(cf)!TickOn \/ Wk(cf)!Checkpoint
             \/ (\E D \in SUBSET cf.Keys : Wk(cf)!TakeDue(D)) \/ Wk(cf)!Classify \/ Wk(cf)!OwnBatch
             \/ Wk(cf)!Fresh \/ Wk(cf)!Refused \/ Wk(cf)!AlreadyConsumed \/ Wk(cf)!Associate
             \/ Wk(cf)!EndpointDown \/ Wk(cf)!SeesReject \/ Wk(cf)!SeesStarted \/ Wk(cf)!SeesTerminal
             \/ Wk(cf)!StreamLost \/ Wk(cf)!Non200 \/ Wk(cf)!SettleUnseen \/ Wk(cf)!CloseItems
             \/ Wk(cf)!ChainNote \/ Wk(cf)!ChainFail \/ Wk(cf)!FaultFuse
             \/ (\E b \in cf.Batches : Wk(cf)!DoorLaunches(b))
             \/ (\E b \in cf.Batches : Wk(cf)!RunEnds(b)) \/ (\E k \in cf.Keys : Wk(cf)!IntentRecorded(k))
             \/ (\E k \in cf.Keys : Wk(cf)!IntentAges(k)) \/ Wk(cf)!Toggle \/ Wk(cf)!HumanWrites
             \/ Wk(cf)!ChainRelease \/ Wk(cf)!Crash
             \/ UNCHANGED Wk(cf)!vars
    BY <1>1 DEF Wk!vars, Wk!TickOff, Wk!DisableSweep, Wk!TickShadow, Wk!TickOn, Wk!Checkpoint,
       Wk!TakeDue, Wk!Classify, Wk!OwnBatch, Wk!Fresh, Wk!Refused, Wk!AlreadyConsumed, Wk!Associate,
       Wk!EndpointDown, Wk!SeesReject, Wk!SeesStarted, Wk!SeesTerminal, Wk!StreamLost, Wk!Non200,
       Wk!SettleUnseen, Wk!CloseItems, Wk!ChainNote, Wk!ChainFail, Wk!FaultFuse, Wk!DoorLaunches,
       Wk!RunEnds, Wk!IntentRecorded, Wk!IntentAges, Wk!Toggle, Wk!HumanWrites, Wk!ChainRelease,
       Wk!Crash
  <1>2. CASE Wk(cf)!PollRun BY <1>2 DEF Wk!PollRun
  <1>3. ASSUME NEW A \in SUBSET cf.Keys, NEW b \in cf.Batches, Wk(cf)!Admitted(A, b) PROVE batch' \in [cf.Batches -> Wk(cf)!Row] /\ cons' \in [cf.Keys -> cf.Batches \cup {"ignored", "none"}]
    BY <1>3 DEF Wk!Admitted
  <1>4. CASE Wk(cf)!Post BY <1>4 DEF Wk!Post
  <1>5. CASE Wk(cf)!RecordsAccepted BY <1>5 DEF Wk!RecordsAccepted, Wk!RecordBatch
  <1>6. CASE Wk(cf)!RecordsTerminal BY <1>6 DEF Wk!RecordsTerminal, Wk!RecordBatch
  <1>7. CASE Wk(cf)!RecordsProven BY <1>7 DEF Wk!RecordsProven, Wk!RecordBatch
  <1>8. CASE Wk(cf)!RecordsUncertain BY <1>8 DEF Wk!RecordsUncertain, Wk!RecordBatch
  <1>9. ASSUME NEW b \in cf.Batches, Wk(cf)!DoorRejects(b) PROVE batch' \in [cf.Batches -> Wk(cf)!Row] /\ cons' \in [cf.Keys -> cf.Batches \cup {"ignored", "none"}]
    BY <1>9 DEF Wk!DoorRejects
  <1>10. ASSUME NEW b \in cf.Batches, Wk(cf)!DoorSettles(b) PROVE batch' \in [cf.Batches -> Wk(cf)!Row] /\ cons' \in [cf.Keys -> cf.Batches \cup {"ignored", "none"}]
    BY <1>10 DEF Wk!DoorSettles
  <1>11. ASSUME NEW k \in cf.Keys, NEW b \in cf.Batches, Wk(cf)!AppClaims(k, b) PROVE batch' \in [cf.Batches -> Wk(cf)!Row] /\ cons' \in [cf.Keys -> cf.Batches \cup {"ignored", "none"}]
    BY <1>11 DEF Wk!AppClaims
  <1>12. ASSUME NEW b \in cf.Batches, Wk(cf)!AppMoves(b) PROVE batch' \in [cf.Batches -> Wk(cf)!Row] /\ cons' \in [cf.Keys -> cf.Batches \cup {"ignored", "none"}]
    BY <1>12 DEF Wk!AppMoves
  <1> QED
    BY <1>1, <1>2, <1>3, <1>4, <1>5, <1>6, <1>7, <1>8, <1>9, <1>10, <1>11, <1>12
    DEF Wk!Next, Wk!Worker, Wk!Door, Wk!Environment

LEMMA KnobsTyped ==
  ASSUME NEW cf, Wk(cf)!TypeOK,
         [Wk(cf)!Next]_(Wk(cf)!vars)
  PROVE  /\ mode' \in Wk(cf)!Modes /\ modeSeen' \in Wk(cf)!Modes \cup {"none"}
         /\ aged' \subseteq cf.Keys /\ human' \in BOOLEAN
         /\ toggles' \in Nat /\ humans' \in Nat /\ faults' \in Nat
  <1> USE DEF Wk!TypeOK, Wk!Modes, Wk!ledger, Wk!ghosts, Wk!bounds, Wk!outside
  <1>1. CASE \/ Wk(cf)!DisableSweep \/ Wk(cf)!Checkpoint \/ (\E D \in SUBSET cf.Keys : Wk(cf)!TakeDue(D))
             \/ Wk(cf)!Classify \/ Wk(cf)!OwnBatch \/ Wk(cf)!PollRun \/ Wk(cf)!Fresh
             \/ (\E A \in SUBSET cf.Keys, b \in cf.Batches : Wk(cf)!Admitted(A, b)) \/ Wk(cf)!Refused
             \/ Wk(cf)!AlreadyConsumed \/ Wk(cf)!Associate \/ Wk(cf)!EndpointDown \/ Wk(cf)!Post
             \/ Wk(cf)!SeesReject \/ Wk(cf)!SeesStarted \/ Wk(cf)!SeesTerminal \/ Wk(cf)!StreamLost
             \/ Wk(cf)!Non200 \/ Wk(cf)!SettleUnseen \/ Wk(cf)!CloseItems \/ Wk(cf)!ChainFail
             \/ Wk(cf)!FaultFuse \/ (\E b \in cf.Batches : Wk(cf)!DoorRejects(b))
             \/ (\E b \in cf.Batches : Wk(cf)!DoorLaunches(b))
             \/ (\E b \in cf.Batches : Wk(cf)!RunEnds(b)) \/ (\E b \in cf.Batches : Wk(cf)!DoorSettles(b))
             \/ (\E k \in cf.Keys : Wk(cf)!IntentRecorded(k)) \/ Wk(cf)!ChainRelease
             \/ (\E k \in cf.Keys, b \in cf.Batches : Wk(cf)!AppClaims(k, b))
             \/ (\E b \in cf.Batches : Wk(cf)!AppMoves(b))
             \/ UNCHANGED Wk(cf)!vars
    BY <1>1 DEF Wk!vars, Wk!DisableSweep, Wk!Checkpoint, Wk!TakeDue, Wk!Classify, Wk!OwnBatch,
       Wk!PollRun, Wk!Fresh, Wk!Admitted, Wk!Refused, Wk!AlreadyConsumed, Wk!Associate,
       Wk!EndpointDown, Wk!Post, Wk!SeesReject, Wk!SeesStarted, Wk!SeesTerminal, Wk!StreamLost,
       Wk!Non200, Wk!SettleUnseen, Wk!CloseItems, Wk!ChainFail, Wk!FaultFuse, Wk!DoorRejects,
       Wk!DoorLaunches, Wk!RunEnds, Wk!DoorSettles, Wk!IntentRecorded, Wk!ChainRelease, Wk!AppClaims,
       Wk!AppMoves
  <1>2. CASE Wk(cf)!TickOff BY <1>2 DEF Wk!TickOff
  <1>3. CASE Wk(cf)!TickShadow BY <1>3 DEF Wk!TickShadow
  <1>4. CASE Wk(cf)!TickOn BY <1>4 DEF Wk!TickOn
  <1>5. CASE Wk(cf)!RecordsAccepted BY <1>5 DEF Wk!RecordsAccepted, Wk!RecordBatch
  <1>6. CASE Wk(cf)!RecordsTerminal BY <1>6 DEF Wk!RecordsTerminal, Wk!RecordBatch
  <1>7. CASE Wk(cf)!RecordsProven BY <1>7 DEF Wk!RecordsProven, Wk!RecordBatch
  <1>8. CASE Wk(cf)!RecordsUncertain BY <1>8 DEF Wk!RecordsUncertain, Wk!RecordBatch
  <1>9. CASE Wk(cf)!ChainNote BY <1>9 DEF Wk!ChainNote
  <1>10. ASSUME NEW k \in cf.Keys, Wk(cf)!IntentAges(k) PROVE /\ mode' \in Wk(cf)!Modes /\ modeSeen' \in Wk(cf)!Modes \cup {"none"}
         /\ aged' \subseteq cf.Keys /\ human' \in BOOLEAN
         /\ toggles' \in Nat /\ humans' \in Nat /\ faults' \in Nat
    BY <1>10 DEF Wk!IntentAges
  <1>11. CASE Wk(cf)!Toggle BY <1>11 DEF Wk!Toggle
  <1>12. CASE Wk(cf)!HumanWrites BY <1>12 DEF Wk!HumanWrites
  <1>13. CASE Wk(cf)!Crash BY <1>13 DEF Wk!Crash
  <1> QED
    BY <1>1, <1>2, <1>3, <1>4, <1>5, <1>6, <1>7, <1>8, <1>9, <1>10, <1>11, <1>12, <1>13
    DEF Wk!Next, Wk!Worker, Wk!Door, Wk!Environment

LEMMA ChainNowTyped ==
  ASSUME NEW cf, chain \in [fires : Nat, fails : Nat, fused : BOOLEAN]
  PROVE  Wk(cf)!ChainNow \in [fires : Nat, fails : Nat, fused : BOOLEAN]
  BY DEF Wk!Unused, Wk!ChainNow

LEMMA ChainTyped ==
  ASSUME NEW cf, chain \in [fires : Nat, fails : Nat, fused : BOOLEAN],
         [Wk(cf)!Next]_(Wk(cf)!vars)
  PROVE  chain' \in [fires : Nat, fails : Nat, fused : BOOLEAN]
  <1> USE DEF Wk!Unused, Wk!ledger, Wk!ghosts, Wk!bounds, Wk!outside
  <1>1. CASE \/ Wk(cf)!TickOff \/ Wk(cf)!DisableSweep \/ Wk(cf)!TickShadow \/ Wk(cf)!TickOn
             \/ (\E D \in SUBSET cf.Keys : Wk(cf)!TakeDue(D)) \/ Wk(cf)!Classify \/ Wk(cf)!OwnBatch
             \/ Wk(cf)!PollRun \/ (\E A \in SUBSET cf.Keys, b \in cf.Batches : Wk(cf)!Admitted(A, b))
             \/ Wk(cf)!Refused \/ Wk(cf)!AlreadyConsumed \/ Wk(cf)!Associate \/ Wk(cf)!EndpointDown
             \/ Wk(cf)!Post \/ Wk(cf)!SeesReject \/ Wk(cf)!SeesStarted \/ Wk(cf)!RecordsAccepted
             \/ Wk(cf)!SeesTerminal \/ Wk(cf)!StreamLost \/ Wk(cf)!RecordsTerminal \/ Wk(cf)!Non200
             \/ Wk(cf)!SettleUnseen \/ Wk(cf)!RecordsProven \/ Wk(cf)!RecordsUncertain \/ Wk(cf)!CloseItems
             \/ (\E b \in cf.Batches : Wk(cf)!DoorRejects(b))
             \/ (\E b \in cf.Batches : Wk(cf)!DoorLaunches(b))
             \/ (\E b \in cf.Batches : Wk(cf)!RunEnds(b)) \/ (\E b \in cf.Batches : Wk(cf)!DoorSettles(b))
             \/ (\E k \in cf.Keys : Wk(cf)!IntentRecorded(k)) \/ (\E k \in cf.Keys : Wk(cf)!IntentAges(k))
             \/ Wk(cf)!Toggle \/ Wk(cf)!HumanWrites
             \/ (\E k \in cf.Keys, b \in cf.Batches : Wk(cf)!AppClaims(k, b))
             \/ (\E b \in cf.Batches : Wk(cf)!AppMoves(b)) \/ Wk(cf)!Crash
             \/ UNCHANGED Wk(cf)!vars
    BY <1>1 DEF Wk!vars, Wk!TickOff, Wk!DisableSweep, Wk!TickShadow, Wk!TickOn, Wk!TakeDue,
       Wk!Classify, Wk!OwnBatch, Wk!PollRun, Wk!Admitted, Wk!Refused, Wk!AlreadyConsumed, Wk!Associate,
       Wk!EndpointDown, Wk!Post, Wk!SeesReject, Wk!SeesStarted, Wk!RecordsAccepted, Wk!SeesTerminal,
       Wk!StreamLost, Wk!RecordsTerminal, Wk!Non200, Wk!SettleUnseen, Wk!RecordsProven,
       Wk!RecordsUncertain, Wk!CloseItems, Wk!DoorRejects, Wk!DoorLaunches, Wk!RunEnds, Wk!DoorSettles,
       Wk!IntentRecorded, Wk!IntentAges, Wk!Toggle, Wk!HumanWrites, Wk!AppClaims, Wk!AppMoves, Wk!Crash
  <1>2. CASE Wk(cf)!Checkpoint BY <1>2, ChainNowTyped DEF Wk!Checkpoint
  <1>3. CASE Wk(cf)!Fresh
    BY <1>3, ChainNowTyped DEF Wk!Fresh
  <1>4. CASE Wk(cf)!ChainNote
    <2>1. chain' = [chain EXCEPT !.fires = chain.fires + 1, !.fails = 0]
      BY <1>4 DEF Wk!ChainNote
    <2>2. chain.fires + 1 \in Nat OBVIOUS
    <2> QED BY <2>1, <2>2
  <1>5. CASE Wk(cf)!ChainFail BY <1>5 DEF Wk!ChainFail
  <1>6. CASE Wk(cf)!FaultFuse BY <1>6 DEF Wk!FaultFuse
  <1>7. CASE Wk(cf)!ChainRelease BY <1>7 DEF Wk!ChainRelease
  <1> QED
    BY <1>1, <1>2, <1>3, <1>4, <1>5, <1>6, <1>7
    DEF Wk!Next, Wk!Worker, Wk!Door, Wk!Environment

LEMMA DoorTyped ==
  ASSUME NEW cf, door \in [cf.Batches -> {"none", "gated", "rejected", "streaming"}],
         run \in [cf.Batches -> {"none", "running"} \cup Wk(cf)!Ended],
         launched \in [cf.Batches -> Nat], counted \in [cf.Batches -> Nat],
         w.pc \in Holding => w.batch \in cf.Batches,
         [Wk(cf)!Next]_(Wk(cf)!vars)
  PROVE  /\ door' \in [cf.Batches -> {"none", "gated", "rejected", "streaming"}]
         /\ run' \in [cf.Batches -> {"none", "running"} \cup Wk(cf)!Ended]
         /\ launched' \in [cf.Batches -> Nat] /\ counted' \in [cf.Batches -> Nat]
  <1> USE DEF Holding, Wk!ledger, Wk!ghosts, Wk!bounds, Wk!outside
  <1>1. CASE \/ Wk(cf)!TickOff \/ Wk(cf)!DisableSweep \/ Wk(cf)!TickShadow \/ Wk(cf)!TickOn \/ Wk(cf)!Checkpoint
             \/ (\E D \in SUBSET cf.Keys : Wk(cf)!TakeDue(D)) \/ Wk(cf)!Classify \/ Wk(cf)!OwnBatch
             \/ Wk(cf)!PollRun \/ Wk(cf)!Fresh
             \/ (\E A \in SUBSET cf.Keys, b \in cf.Batches : Wk(cf)!Admitted(A, b)) \/ Wk(cf)!Refused
             \/ Wk(cf)!AlreadyConsumed \/ Wk(cf)!Associate \/ Wk(cf)!EndpointDown \/ Wk(cf)!SeesStarted
             \/ Wk(cf)!RecordsAccepted \/ Wk(cf)!RecordsTerminal \/ Wk(cf)!Non200 \/ Wk(cf)!SettleUnseen
             \/ Wk(cf)!RecordsProven \/ Wk(cf)!RecordsUncertain \/ Wk(cf)!CloseItems \/ Wk(cf)!FaultFuse
             \/ (\E k \in cf.Keys : Wk(cf)!IntentRecorded(k)) \/ (\E k \in cf.Keys : Wk(cf)!IntentAges(k))
             \/ Wk(cf)!Toggle \/ Wk(cf)!HumanWrites \/ Wk(cf)!ChainRelease
             \/ (\E k \in cf.Keys, b \in cf.Batches : Wk(cf)!AppClaims(k, b))
             \/ (\E b \in cf.Batches : Wk(cf)!AppMoves(b))
             \/ UNCHANGED Wk(cf)!vars
    BY <1>1 DEF Wk!vars, Wk!TickOff, Wk!DisableSweep, Wk!TickShadow, Wk!TickOn, Wk!Checkpoint,
       Wk!TakeDue, Wk!Classify, Wk!OwnBatch, Wk!PollRun, Wk!Fresh, Wk!Admitted, Wk!Refused,
       Wk!AlreadyConsumed, Wk!Associate, Wk!EndpointDown, Wk!SeesStarted, Wk!RecordsAccepted,
       Wk!RecordsTerminal, Wk!Non200, Wk!SettleUnseen, Wk!RecordsProven, Wk!RecordsUncertain,
       Wk!CloseItems, Wk!FaultFuse, Wk!IntentRecorded, Wk!IntentAges, Wk!Toggle, Wk!HumanWrites,
       Wk!ChainRelease, Wk!AppClaims, Wk!AppMoves
  <1>2. CASE Wk(cf)!Post BY <1>2 DEF Wk!Post
  <1>3. CASE Wk(cf)!SeesReject BY <1>3 DEF Wk!SeesReject
  <1>4. CASE Wk(cf)!SeesTerminal BY <1>4 DEF Wk!SeesTerminal
  <1>5. CASE Wk(cf)!StreamLost BY <1>5 DEF Wk!StreamLost
  <1>6. CASE Wk(cf)!ChainNote BY <1>6 DEF Wk!ChainNote
  <1>7. CASE Wk(cf)!ChainFail BY <1>7 DEF Wk!ChainFail
  <1>8. ASSUME NEW b \in cf.Batches, Wk(cf)!DoorRejects(b) PROVE /\ door' \in [cf.Batches -> {"none", "gated", "rejected", "streaming"}]
         /\ run' \in [cf.Batches -> {"none", "running"} \cup Wk(cf)!Ended]
         /\ launched' \in [cf.Batches -> Nat] /\ counted' \in [cf.Batches -> Nat]
    BY <1>8 DEF Wk!DoorRejects
  <1>9. ASSUME NEW b \in cf.Batches, Wk(cf)!DoorLaunches(b) PROVE /\ door' \in [cf.Batches -> {"none", "gated", "rejected", "streaming"}]
         /\ run' \in [cf.Batches -> {"none", "running"} \cup Wk(cf)!Ended]
         /\ launched' \in [cf.Batches -> Nat] /\ counted' \in [cf.Batches -> Nat]
    BY <1>9 DEF Wk!DoorLaunches
  <1>10. ASSUME NEW b \in cf.Batches, Wk(cf)!RunEnds(b) PROVE /\ door' \in [cf.Batches -> {"none", "gated", "rejected", "streaming"}]
         /\ run' \in [cf.Batches -> {"none", "running"} \cup Wk(cf)!Ended]
         /\ launched' \in [cf.Batches -> Nat] /\ counted' \in [cf.Batches -> Nat]
    BY <1>10 DEF Wk!RunEnds
  <1>11. ASSUME NEW b \in cf.Batches, Wk(cf)!DoorSettles(b) PROVE /\ door' \in [cf.Batches -> {"none", "gated", "rejected", "streaming"}]
         /\ run' \in [cf.Batches -> {"none", "running"} \cup Wk(cf)!Ended]
         /\ launched' \in [cf.Batches -> Nat] /\ counted' \in [cf.Batches -> Nat]
    BY <1>11 DEF Wk!DoorSettles
  <1>12. CASE Wk(cf)!Crash BY <1>12 DEF Wk!Crash
  <1> QED
    BY <1>1, <1>2, <1>3, <1>4, <1>5, <1>6, <1>7, <1>8, <1>9, <1>10, <1>11, <1>12
    DEF Wk!Next, Wk!Worker, Wk!Door, Wk!Environment

LEMMA BatchFactsKept ==
  ASSUME NEW cf,
         batch \in [cf.Batches -> Wk(cf)!Row], door \in [cf.Batches -> {"none", "gated", "rejected", "streaming"}],
         launched \in [cf.Batches -> Nat],
         BatchFacts(cf), OwnFacts(cf),
         [Wk(cf)!Next]_(Wk(cf)!vars)
  PROVE  BatchFacts(cf)'
  <1> USE DEF BatchFacts, OwnFacts, Holding, Wk!Row, Wk!Open, Wk!Closed, Wk!ledger, Wk!ghosts,
             Wk!bounds, Wk!outside
  <1>1. CASE \/ Wk(cf)!TickOff \/ Wk(cf)!DisableSweep \/ Wk(cf)!TickShadow \/ Wk(cf)!TickOn \/ Wk(cf)!Checkpoint
             \/ (\E D \in SUBSET cf.Keys : Wk(cf)!TakeDue(D)) \/ Wk(cf)!Classify \/ Wk(cf)!OwnBatch
             \/ Wk(cf)!Fresh \/ Wk(cf)!Refused \/ Wk(cf)!AlreadyConsumed \/ Wk(cf)!Associate
             \/ Wk(cf)!EndpointDown \/ Wk(cf)!SeesStarted \/ Wk(cf)!Non200 \/ Wk(cf)!SettleUnseen
             \/ Wk(cf)!CloseItems \/ Wk(cf)!ChainNote \/ Wk(cf)!ChainFail \/ Wk(cf)!FaultFuse
             \/ (\E b \in cf.Batches : Wk(cf)!RunEnds(b)) \/ (\E k \in cf.Keys : Wk(cf)!IntentRecorded(k))
             \/ (\E k \in cf.Keys : Wk(cf)!IntentAges(k)) \/ Wk(cf)!Toggle \/ Wk(cf)!HumanWrites
             \/ Wk(cf)!ChainRelease
             \/ UNCHANGED Wk(cf)!vars
    <2>1. UNCHANGED <<batch, door, launched>>
      BY <1>1 DEF Wk!vars, Wk!TickOff, Wk!DisableSweep, Wk!TickShadow, Wk!TickOn, Wk!Checkpoint, Wk!TakeDue,
        Wk!Classify, Wk!OwnBatch, Wk!Fresh, Wk!Refused, Wk!AlreadyConsumed, Wk!Associate,
        Wk!EndpointDown, Wk!SeesStarted, Wk!Non200, Wk!SettleUnseen, Wk!CloseItems,
        Wk!ChainNote, Wk!ChainFail, Wk!FaultFuse, Wk!RunEnds, Wk!IntentRecorded,
        Wk!IntentAges, Wk!Toggle, Wk!HumanWrites, Wk!ChainRelease
    <2> QED BY <2>1
  <1>2. CASE Wk(cf)!PollRun BY <1>2 DEF Wk!PollRun
  <1>3. ASSUME NEW A \in SUBSET cf.Keys, NEW b \in cf.Batches, Wk(cf)!Admitted(A, b) PROVE BatchFacts(cf)'
    BY <1>3 DEF Wk!Admitted
  <1>4. CASE Wk(cf)!Post BY <1>4 DEF Wk!Post
  <1>5. CASE Wk(cf)!SeesReject BY <1>5 DEF Wk!SeesReject
  <1>6. CASE Wk(cf)!RecordsAccepted BY <1>6 DEF Wk!RecordsAccepted, Wk!RecordBatch, Wk!From
  <1>7. CASE Wk(cf)!SeesTerminal BY <1>7 DEF Wk!SeesTerminal
  <1>8. CASE Wk(cf)!StreamLost BY <1>8 DEF Wk!StreamLost
  <1>9. CASE Wk(cf)!RecordsTerminal BY <1>9 DEF Wk!RecordsTerminal, Wk!RecordBatch, Wk!From
  <1>10. CASE Wk(cf)!RecordsProven BY <1>10 DEF Wk!RecordsProven, Wk!RecordBatch, Wk!From
  <1>11. CASE Wk(cf)!RecordsUncertain BY <1>11 DEF Wk!RecordsUncertain, Wk!RecordBatch, Wk!From
  <1>12. ASSUME NEW b \in cf.Batches, Wk(cf)!DoorRejects(b) PROVE BatchFacts(cf)'
    BY <1>12 DEF Wk!DoorRejects
  <1>13. ASSUME NEW b \in cf.Batches, Wk(cf)!DoorLaunches(b) PROVE BatchFacts(cf)'
    BY <1>13 DEF Wk!DoorLaunches
  <1>14. ASSUME NEW b \in cf.Batches, Wk(cf)!DoorSettles(b) PROVE BatchFacts(cf)'
    BY <1>14 DEF Wk!DoorSettles
  <1>15. ASSUME NEW k \in cf.Keys, NEW b \in cf.Batches, Wk(cf)!AppClaims(k, b) PROVE BatchFacts(cf)'
    BY <1>15 DEF Wk!AppClaims
  <1>16. ASSUME NEW b \in cf.Batches, Wk(cf)!AppMoves(b) PROVE BatchFacts(cf)'
    BY <1>16 DEF Wk!AppMoves
  <1>17. CASE Wk(cf)!Crash BY <1>17 DEF Wk!Crash
  <1> QED
    BY <1>1, <1>2, <1>3, <1>4, <1>5, <1>6, <1>7, <1>8, <1>9, <1>10, <1>11, <1>12, <1>13,
       <1>14, <1>15, <1>16, <1>17
    DEF Wk!Next, Wk!Worker, Wk!Door, Wk!Environment

LEMMA GoesForward ==
  ASSUME NEW cf,
         batch \in [cf.Batches -> Wk(cf)!Row], BatchFacts(cf), w.pc \in Holding => w.batch \in cf.Batches,
         [Wk(cf)!Next]_(Wk(cf)!vars)
  PROVE  Forward(cf)
  <1> USE DEF Forward, BatchFacts, Holding, Wk!Row, Wk!Open, Wk!Closed, Wk!ledger, Wk!ghosts,
             Wk!bounds, Wk!outside
  <1>1. CASE \/ Wk(cf)!TickOff \/ Wk(cf)!DisableSweep \/ Wk(cf)!TickShadow \/ Wk(cf)!TickOn \/ Wk(cf)!Checkpoint
             \/ (\E D \in SUBSET cf.Keys : Wk(cf)!TakeDue(D)) \/ Wk(cf)!Classify \/ Wk(cf)!OwnBatch
             \/ Wk(cf)!Fresh \/ Wk(cf)!Refused \/ Wk(cf)!AlreadyConsumed \/ Wk(cf)!Associate
             \/ Wk(cf)!EndpointDown \/ Wk(cf)!SeesReject \/ Wk(cf)!SeesStarted \/ Wk(cf)!SeesTerminal
             \/ Wk(cf)!StreamLost \/ Wk(cf)!Non200 \/ Wk(cf)!SettleUnseen \/ Wk(cf)!CloseItems
             \/ Wk(cf)!ChainNote \/ Wk(cf)!ChainFail \/ Wk(cf)!FaultFuse
             \/ (\E b \in cf.Batches : Wk(cf)!DoorLaunches(b))
             \/ (\E b \in cf.Batches : Wk(cf)!RunEnds(b)) \/ (\E k \in cf.Keys : Wk(cf)!IntentRecorded(k))
             \/ (\E k \in cf.Keys : Wk(cf)!IntentAges(k)) \/ Wk(cf)!Toggle \/ Wk(cf)!HumanWrites
             \/ Wk(cf)!ChainRelease \/ Wk(cf)!Crash
             \/ UNCHANGED Wk(cf)!vars
    BY <1>1 DEF Wk!vars, Wk!TickOff, Wk!DisableSweep, Wk!TickShadow, Wk!TickOn, Wk!Checkpoint,
       Wk!TakeDue, Wk!Classify, Wk!OwnBatch, Wk!Fresh, Wk!Refused, Wk!AlreadyConsumed, Wk!Associate,
       Wk!EndpointDown, Wk!SeesReject, Wk!SeesStarted, Wk!SeesTerminal, Wk!StreamLost, Wk!Non200,
       Wk!SettleUnseen, Wk!CloseItems, Wk!ChainNote, Wk!ChainFail, Wk!FaultFuse, Wk!DoorLaunches,
       Wk!RunEnds, Wk!IntentRecorded, Wk!IntentAges, Wk!Toggle, Wk!HumanWrites, Wk!ChainRelease,
       Wk!Crash
  <1>2. CASE Wk(cf)!PollRun BY <1>2 DEF Wk!PollRun
  <1>3. ASSUME NEW A \in SUBSET cf.Keys, NEW b \in cf.Batches, Wk(cf)!Admitted(A, b) PROVE Forward(cf)
    BY <1>3 DEF Wk!Admitted
  <1>4. CASE Wk(cf)!Post BY <1>4 DEF Wk!Post
  <1>5. CASE Wk(cf)!RecordsAccepted
    BY <1>5 DEF Wk!RecordsAccepted, Wk!RecordBatch, Wk!From, Wk!AlreadyAs
  <1>6. CASE Wk(cf)!RecordsTerminal
    BY <1>6 DEF Wk!RecordsTerminal, Wk!RecordBatch, Wk!From, Wk!AlreadyAs
  <1>7. CASE Wk(cf)!RecordsProven
    BY <1>7 DEF Wk!RecordsProven, Wk!RecordBatch, Wk!From, Wk!AlreadyAs
  <1>8. CASE Wk(cf)!RecordsUncertain
    BY <1>8 DEF Wk!RecordsUncertain, Wk!RecordBatch, Wk!From, Wk!AlreadyAs
  <1>9. ASSUME NEW b \in cf.Batches, Wk(cf)!DoorRejects(b) PROVE Forward(cf)
    BY <1>9 DEF Wk!DoorRejects
  <1>10. ASSUME NEW b \in cf.Batches, Wk(cf)!DoorSettles(b) PROVE Forward(cf)
    BY <1>10 DEF Wk!DoorSettles
  <1>11. ASSUME NEW k \in cf.Keys, NEW b \in cf.Batches, Wk(cf)!AppClaims(k, b) PROVE Forward(cf)
    BY <1>11 DEF Wk!AppClaims
  <1>12. ASSUME NEW b \in cf.Batches, Wk(cf)!AppMoves(b) PROVE Forward(cf)
    BY <1>12 DEF Wk!AppMoves
  <1> QED
    BY <1>1, <1>2, <1>3, <1>4, <1>5, <1>6, <1>7, <1>8, <1>9, <1>10, <1>11, <1>12
    DEF Wk!Next, Wk!Worker, Wk!Door, Wk!Environment

LEMMA FreshIntents ==
  ASSUME NEW cf, intent \in [cf.Keys -> Wk(cf)!Intent], Wk(cf)!Fresh
  PROVE  \A k \in cf.Keys : /\ intent'[k].batch = intent[k].batch
                            /\ intent'[k] = intent[k] \/ intent'[k].state \in {"void", "pending"}
  <1>1. CASE Wk(cf)!SetItems(Wk(cf)!Exhausted, "void", "exhausted") BY <1>1, SetItemsType
  <1>2. CASE intent' = [k \in cf.Keys |->
              IF k \in Wk(cf)!Exhausted
              THEN [intent[k] EXCEPT !.state = "void", !.detail = "exhausted"]
              ELSE IF k \in w.items \ Wk(cf)!Exhausted
              THEN [intent[k] EXCEPT !.state = "pending", !.detail = "other"]
              ELSE intent[k]]
    BY <1>2 DEF Wk!Intent
  <1> QED BY <1>1, <1>2 DEF Wk!Fresh

LEMMA OwnFactsKept ==
  ASSUME NEW cf,
         Wk(cf)!Parameters, w \in Wk(cf)!Hand, intent \in [cf.Keys -> Wk(cf)!Intent],
         batch \in [cf.Batches -> Wk(cf)!Row], BatchFacts(cf), OwnFacts(cf), Forward(cf),
         [Wk(cf)!Next]_(Wk(cf)!vars)
  PROVE  OwnFacts(cf)'
  <1> USE DEF OwnFacts, Forward, Holding, Wk!Parameters, Wk!Pcs, Wk!ledger, Wk!ghosts,
             Wk!bounds, Wk!outside
  <1>1. CASE \/ Wk(cf)!TickShadow \/ (\E b \in cf.Batches : Wk(cf)!DoorRejects(b))
             \/ (\E b \in cf.Batches : Wk(cf)!DoorLaunches(b))
             \/ (\E b \in cf.Batches : Wk(cf)!RunEnds(b)) \/ (\E b \in cf.Batches : Wk(cf)!DoorSettles(b))
             \/ (\E k \in cf.Keys : Wk(cf)!IntentAges(k)) \/ Wk(cf)!Toggle \/ Wk(cf)!HumanWrites
             \/ Wk(cf)!ChainRelease \/ (\E k \in cf.Keys, b \in cf.Batches : Wk(cf)!AppClaims(k, b))
             \/ (\E b \in cf.Batches : Wk(cf)!AppMoves(b))
             \/ UNCHANGED Wk(cf)!vars
    BY <1>1 DEF Wk!vars, Wk!TickShadow, Wk!DoorRejects, Wk!DoorLaunches, Wk!RunEnds, Wk!DoorSettles,
       Wk!IntentAges, Wk!Toggle, Wk!HumanWrites, Wk!ChainRelease, Wk!AppClaims, Wk!AppMoves
  <1>2. CASE Wk(cf)!TickOff BY <1>2, Goes, Rests DEF Wk!TickOff
  <1>3. CASE Wk(cf)!DisableSweep BY <1>3, Goes, Rests, SetItemsType DEF Wk!DisableSweep
  <1>4. CASE Wk(cf)!TickOn BY <1>4, Goes, Rests DEF Wk!TickOn
  <1>5. CASE Wk(cf)!Checkpoint BY <1>5, Goes, Rests DEF Wk!Checkpoint
  <1>6. ASSUME NEW D \in SUBSET cf.Keys, Wk(cf)!TakeDue(D) PROVE OwnFacts(cf)'
    BY <1>6 DEF Wk!TakeDue, Wk!Idle, Wk!Hand
  <1>7. CASE Wk(cf)!Classify
    <2> DEFINE linked == w.items \ (Wk(cf)!Ignored(w.items) \cup Wk(cf)!Foreign(w.items))
    <2>1. linked \in SUBSET cf.Keys BY DEF Wk!Hand
    <2>2. Wk(cf)!SetItems(w.items \ linked, "done", "other") BY <1>7 DEF Wk!Classify
    <2>3. \A k \in cf.Keys : intent'[k].batch = intent[k].batch BY <2>2, SetItemsType
    <2>4. UNCHANGED batch BY <1>7 DEF Wk!Classify
    <2>5. CASE Wk(cf)!Ends BY <2>3, <2>4, <2>5, Rests
    <2>6. CASE w' = [w EXCEPT !.pc = "fresh", !.items = linked]
      BY <2>3, <2>4, <2>6 DEF Wk!Hand
    <2>7. ASSUME NEW b \in {intent[k].batch : k \in linked} \ {"none"},
                 w' = [w EXCEPT !.pc = "own", !.items = linked, !.batch = b]
          PROVE  OwnFacts(cf)'
      <3>1. PICK k \in linked : b = intent[k].batch OBVIOUS
      <3>2. b \in cf.Batches BY <2>1, <2>7, <3>1 DEF Wk!Intent
      <3>3. batch[b].owner = "self" BY <2>1, <3>1, <3>2
      <3>4. w'.batch = b BY <2>7 DEF Wk!Hand
      <3> QED BY <2>3, <2>4, <3>2, <3>3, <3>4
    <2> QED BY <1>7, <2>5, <2>6, <2>7 DEF Wk!Classify
  <1>8. CASE Wk(cf)!OwnBatch
    BY <1>8, Goes, Rests, SetItemsType, SetBatchType DEF Wk!OwnBatch, Wk!Quarantine
  <1>9. CASE Wk(cf)!PollRun BY <1>9, Goes, Rests, ZenonT(60) DEF Wk!PollRun, Wk!Hand
  <1>10. CASE Wk(cf)!Fresh
    <2>1. \A k \in cf.Keys : intent'[k].batch = intent[k].batch BY <1>10, FreshIntents
    <2>2. \/ w' = [w EXCEPT !.pc = "admit", !.items = w.items \ Wk(cf)!Exhausted]
          \/ Wk(cf)!Ends
      BY <1>10 DEF Wk!Fresh
    <2>3. w'.pc \notin Holding /\ (w'.batch = w.batch \/ w'.batch = "none")
      BY Rests, <2>2 DEF Wk!Hand, Holding
    <2>4. UNCHANGED batch BY <1>10 DEF Wk!Fresh
    <2> QED BY <2>1, <2>3, <2>4
  <1>11. ASSUME NEW A \in SUBSET cf.Keys, NEW b \in cf.Batches, Wk(cf)!Admitted(A, b) PROVE OwnFacts(cf)'
    BY <1>11, Goes, Rests DEF Wk!Admitted, Wk!Hand
  <1>12. CASE Wk(cf)!Refused BY <1>12, Goes, Rests, SetItemsType DEF Wk!Refused
  <1>13. CASE Wk(cf)!AlreadyConsumed
    <2>1. CASE Wk(cf)!SetItems(w.items, "done", "other") /\ Wk(cf)!Ends
      <3>1. UNCHANGED batch BY <1>13 DEF Wk!AlreadyConsumed
      <3>2. \A k \in cf.Keys : intent'[k].batch = intent[k].batch BY <2>1, SetItemsType
      <3> QED BY <2>1, <3>1, <3>2, Rests
    <2>2. ASSUME NEW b \in cf.Batches, batch[b] = [state |-> "reserved", owner |-> "self"],
                 Wk(cf)!SetBatch(w.items, b, "other"),
                 w' = [w EXCEPT !.pc = "post", !.batch = b]
          PROVE  OwnFacts(cf)'
      <3>1. batch[b].owner = "self" /\ w'.batch = b BY <2>2 DEF Wk!Hand
      <3>2. \A k \in cf.Keys : intent'[k].batch = b \/ intent'[k].batch = intent[k].batch
        BY <2>2, SetBatchType
      <3>3. UNCHANGED batch BY <1>13 DEF Wk!AlreadyConsumed
      <3> QED BY <3>1, <3>2, <3>3
    <2> QED BY <1>13, <2>1, <2>2 DEF Wk!AlreadyConsumed
  <1>14. CASE Wk(cf)!Associate BY <1>14, Goes, Rests, SetBatchType DEF Wk!Associate
  <1>15. CASE Wk(cf)!EndpointDown BY <1>15, Goes, Rests, SetItemsType DEF Wk!EndpointDown
  <1>16. CASE Wk(cf)!Post BY <1>16, Goes, Rests DEF Wk!Post
  <1>17. CASE Wk(cf)!SeesReject BY <1>17, Goes, Rests DEF Wk!SeesReject
  <1>18. CASE Wk(cf)!SeesStarted BY <1>18, Goes, Rests DEF Wk!SeesStarted, Wk!Hand
  <1>19. CASE Wk(cf)!RecordsAccepted
    BY <1>19, Goes, Rests, SetBatchType DEF Wk!RecordsAccepted, Wk!Quarantine, Wk!RecordBatch
  <1>20. CASE Wk(cf)!SeesTerminal BY <1>20, Goes, Rests DEF Wk!SeesTerminal, Wk!Hand
  <1>21. CASE Wk(cf)!StreamLost BY <1>21, Goes, Rests DEF Wk!StreamLost
  <1>22. CASE Wk(cf)!RecordsTerminal
    BY <1>22, Goes, Rests, SetBatchType DEF Wk!RecordsTerminal, Wk!Quarantine, Wk!RecordBatch
  <1>23. CASE Wk(cf)!Non200 BY <1>23, Goes, Rests, SetItemsType DEF Wk!Non200
  <1>24. CASE Wk(cf)!SettleUnseen
    BY <1>24, Goes, Rests, SetItemsType, SetBatchType, SMTT(20)
    DEF Wk!SettleUnseen, Wk!Quarantine
  <1>25. CASE Wk(cf)!RecordsProven
    BY <1>25, Goes, Rests, SetBatchType DEF Wk!RecordsProven, Wk!Quarantine, Wk!RecordBatch
  <1>26. CASE Wk(cf)!RecordsUncertain
    BY <1>26, Goes, Rests, SetBatchType DEF Wk!RecordsUncertain, Wk!Quarantine, Wk!RecordBatch
  <1>27. CASE Wk(cf)!CloseItems BY <1>27, Goes, Rests, SetItemsType DEF Wk!CloseItems
  <1>28. CASE Wk(cf)!ChainNote BY <1>28, Goes, Rests DEF Wk!ChainNote
  <1>29. CASE Wk(cf)!ChainFail BY <1>29, Goes, Rests DEF Wk!ChainFail
  <1>30. CASE Wk(cf)!FaultFuse BY <1>30, Goes, Rests DEF Wk!FaultFuse
  <1>31. ASSUME NEW k \in cf.Keys, Wk(cf)!IntentRecorded(k) PROVE OwnFacts(cf)'
    BY <1>31 DEF Wk!IntentRecorded
  <1>32. CASE Wk(cf)!Crash BY <1>32 DEF Wk!Crash, Wk!Idle
  <1> QED
    BY <1>1, <1>2, <1>3, <1>4, <1>5, <1>6, <1>7, <1>8, <1>9, <1>10, <1>11, <1>12, <1>13,
       <1>14, <1>15, <1>16, <1>17, <1>18, <1>19, <1>20, <1>21, <1>22, <1>23, <1>24, <1>25,
       <1>26, <1>27, <1>28, <1>29, <1>30, <1>31, <1>32
    DEF Wk!Next, Wk!Worker, Wk!Door, Wk!Environment

LEMMA ClassifyGoes ==
  ASSUME NEW cf, w \in Wk(cf)!Hand, Wk(cf)!Classify
  PROVE  w'.pc \in {"idle", "fresh", "own"}
  <1> DEFINE linked == w.items \ (Wk(cf)!Ignored(w.items) \cup Wk(cf)!Foreign(w.items))
  <1>1. \/ Wk(cf)!Ends
        \/ w' = [w EXCEPT !.pc = "fresh", !.items = linked]
        \/ \E b : w' = [w EXCEPT !.pc = "own", !.items = linked, !.batch = b]
    BY DEF Wk!Classify
  <1> QED BY <1>1, Rests DEF Wk!Hand

LEMMA CountFactsKept ==
  ASSUME NEW cf,
         w \in Wk(cf)!Hand, counted \in [cf.Batches -> Nat], batch \in [cf.Batches -> Wk(cf)!Row],
         OwnFacts(cf), CountFacts(cf), Forward(cf),
         [Wk(cf)!Next]_(Wk(cf)!vars)
  PROVE  CountFacts(cf)'
  <1> USE DEF OwnFacts, CountFacts, Forward, Holding, Uncounted, Wk!Open, Wk!Closed, Wk!Row,
             Wk!Pcs, Wk!ledger, Wk!ghosts, Wk!bounds, Wk!outside
  <1>1. CASE \/ Wk(cf)!TickShadow \/ (\E b \in cf.Batches : Wk(cf)!DoorRejects(b))
             \/ (\E b \in cf.Batches : Wk(cf)!DoorLaunches(b))
             \/ (\E b \in cf.Batches : Wk(cf)!RunEnds(b)) \/ (\E b \in cf.Batches : Wk(cf)!DoorSettles(b))
             \/ (\E k \in cf.Keys : Wk(cf)!IntentRecorded(k)) \/ (\E k \in cf.Keys : Wk(cf)!IntentAges(k))
             \/ Wk(cf)!Toggle \/ Wk(cf)!HumanWrites \/ Wk(cf)!ChainRelease
             \/ (\E k \in cf.Keys, b \in cf.Batches : Wk(cf)!AppClaims(k, b))
             \/ (\E b \in cf.Batches : Wk(cf)!AppMoves(b))
             \/ UNCHANGED Wk(cf)!vars
    BY <1>1 DEF Wk!vars, Wk!TickShadow, Wk!DoorRejects, Wk!DoorLaunches, Wk!RunEnds, Wk!DoorSettles,
       Wk!IntentRecorded, Wk!IntentAges, Wk!Toggle, Wk!HumanWrites, Wk!ChainRelease, Wk!AppClaims,
       Wk!AppMoves
  <1>2. CASE Wk(cf)!TickOff BY <1>2, Goes, Rests DEF Wk!TickOff
  <1>3. CASE Wk(cf)!DisableSweep BY <1>3, Goes, Rests DEF Wk!DisableSweep
  <1>4. CASE Wk(cf)!TickOn BY <1>4, Goes, Rests DEF Wk!TickOn
  <1>5. CASE Wk(cf)!Checkpoint BY <1>5, Goes, Rests DEF Wk!Checkpoint
  <1>6. ASSUME NEW D \in SUBSET cf.Keys, Wk(cf)!TakeDue(D) PROVE CountFacts(cf)'
    BY <1>6 DEF Wk!TakeDue, Wk!Idle, Wk!Hand
  <1>7. CASE Wk(cf)!Classify
    BY <1>7, ClassifyGoes DEF Wk!Classify
  <1>8. CASE Wk(cf)!OwnBatch BY <1>8, Goes, Rests DEF Wk!OwnBatch
  <1>9. CASE Wk(cf)!PollRun
    <2>1. w.pc = "poll" /\ counted' = counted BY <1>9 DEF Wk!PollRun
    <2>2. CASE Wk(cf)!At("uncertain") /\ UNCHANGED batch BY <2>1, <2>2, Goes
    <2>3. CASE /\ batch' = [batch EXCEPT ![w.batch].state = "terminal"]
               /\ w' = [w EXCEPT !.pc = "close", !.out = run[w.batch]]
      BY <2>3, <2>1 DEF Wk!Hand
    <2> QED BY <1>9, <2>2, <2>3 DEF Wk!PollRun
  <1>10. CASE Wk(cf)!Fresh
    <2>1. UNCHANGED <<batch, counted>> BY <1>10 DEF Wk!Fresh
    <2>2. \/ w' = [w EXCEPT !.pc = "admit", !.items = w.items \ Wk(cf)!Exhausted]
          \/ Wk(cf)!Ends
      BY <1>10 DEF Wk!Fresh
    <2>3. w'.pc \in {"admit", "idle"} BY <2>2, Rests DEF Wk!Hand
    <2> QED BY <2>1, <2>3
  <1>11. ASSUME NEW A \in SUBSET cf.Keys, NEW b \in cf.Batches, Wk(cf)!Admitted(A, b) PROVE CountFacts(cf)'
    BY <1>11, Goes, Rests DEF Wk!Admitted, Wk!Hand
  <1>12. CASE Wk(cf)!Refused BY <1>12, Goes, Rests DEF Wk!Refused
  <1>13. CASE Wk(cf)!AlreadyConsumed
    <2>1. UNCHANGED <<batch, counted>> BY <1>13 DEF Wk!AlreadyConsumed
    <2>2. CASE Wk(cf)!Ends BY <2>1, <2>2, Rests
    <2>3. ASSUME NEW b \in cf.Batches, batch[b] = [state |-> "reserved", owner |-> "self"],
                 w' = [w EXCEPT !.pc = "post", !.batch = b]
          PROVE  CountFacts(cf)'
      BY <2>3, <2>1 DEF Wk!Hand
    <2> QED BY <1>13, <2>2, <2>3 DEF Wk!AlreadyConsumed
  <1>14. CASE Wk(cf)!Associate BY <1>14, Goes, Rests DEF Wk!Associate
  <1>15. CASE Wk(cf)!EndpointDown BY <1>15, Goes, Rests DEF Wk!EndpointDown
  <1>16. CASE Wk(cf)!Post BY <1>16, Goes, Rests DEF Wk!Post
  <1>17. CASE Wk(cf)!SeesReject BY <1>17, Goes, Rests DEF Wk!SeesReject
  <1>18. CASE Wk(cf)!SeesStarted BY <1>18, Goes, Rests DEF Wk!SeesStarted, Wk!Hand
  <1>19. CASE Wk(cf)!RecordsAccepted
    BY <1>19, Goes, Rests DEF Wk!RecordsAccepted, Wk!RecordBatch, Wk!From, Wk!AlreadyAs
  <1>20. CASE Wk(cf)!SeesTerminal BY <1>20, Goes, Rests DEF Wk!SeesTerminal, Wk!Hand
  <1>21. CASE Wk(cf)!StreamLost BY <1>21, Goes, Rests DEF Wk!StreamLost
  <1>22. CASE Wk(cf)!RecordsTerminal
    BY <1>22, Goes, Rests DEF Wk!RecordsTerminal, Wk!RecordBatch, Wk!From, Wk!AlreadyAs
  <1>23. CASE Wk(cf)!Non200 BY <1>23, Goes, Rests DEF Wk!Non200
  <1>24. CASE Wk(cf)!SettleUnseen BY <1>24, Goes, Rests DEF Wk!SettleUnseen
  <1>25. CASE Wk(cf)!RecordsProven
    BY <1>25, Goes, Rests DEF Wk!RecordsProven, Wk!RecordBatch, Wk!From, Wk!AlreadyAs
  <1>26. CASE Wk(cf)!RecordsUncertain
    BY <1>26, Goes, Rests DEF Wk!RecordsUncertain, Wk!RecordBatch, Wk!From, Wk!AlreadyAs
  <1>27. CASE Wk(cf)!CloseItems BY <1>27, Goes, Rests DEF Wk!CloseItems
  <1>28. CASE Wk(cf)!ChainNote BY <1>28, Goes, Rests DEF Wk!ChainNote
  <1>29. CASE Wk(cf)!ChainFail BY <1>29, Goes, Rests DEF Wk!ChainFail
  <1>30. CASE Wk(cf)!FaultFuse BY <1>30, Goes, Rests DEF Wk!FaultFuse
  <1>31. CASE Wk(cf)!Crash BY <1>31 DEF Wk!Crash, Wk!Idle
  <1> QED
    BY <1>1, <1>2, <1>3, <1>4, <1>5, <1>6, <1>7, <1>8, <1>9, <1>10, <1>11, <1>12, <1>13,
       <1>14, <1>15, <1>16, <1>17, <1>18, <1>19, <1>20, <1>21, <1>22, <1>23, <1>24, <1>25,
       <1>26, <1>27, <1>28, <1>29, <1>30, <1>31
    DEF Wk!Next, Wk!Worker, Wk!Door, Wk!Environment

LEMMA GateFactsKept ==
  ASSUME NEW cf,
         w \in Wk(cf)!Hand, chain \in [fires : Nat, fails : Nat, fused : BOOLEAN], GateFacts,
         [Wk(cf)!Next]_(Wk(cf)!vars)
  PROVE  GateFacts'
  <1> USE DEF GateFacts, Wk!Pcs, Wk!ledger, Wk!ghosts, Wk!bounds, Wk!outside
  <1>1. CASE \/ Wk(cf)!TickShadow \/ (\E b \in cf.Batches : Wk(cf)!DoorRejects(b))
             \/ (\E b \in cf.Batches : Wk(cf)!DoorLaunches(b))
             \/ (\E b \in cf.Batches : Wk(cf)!RunEnds(b)) \/ (\E b \in cf.Batches : Wk(cf)!DoorSettles(b))
             \/ (\E k \in cf.Keys : Wk(cf)!IntentRecorded(k)) \/ (\E k \in cf.Keys : Wk(cf)!IntentAges(k))
             \/ Wk(cf)!Toggle \/ Wk(cf)!HumanWrites
             \/ (\E k \in cf.Keys, b \in cf.Batches : Wk(cf)!AppClaims(k, b))
             \/ (\E b \in cf.Batches : Wk(cf)!AppMoves(b))
             \/ UNCHANGED Wk(cf)!vars
    BY <1>1 DEF Wk!vars, Wk!TickShadow, Wk!DoorRejects, Wk!DoorLaunches, Wk!RunEnds, Wk!DoorSettles,
       Wk!IntentRecorded, Wk!IntentAges, Wk!Toggle, Wk!HumanWrites, Wk!AppClaims, Wk!AppMoves
  <1>2. CASE Wk(cf)!TickOff BY <1>2, Goes, Rests DEF Wk!TickOff
  <1>3. CASE Wk(cf)!DisableSweep BY <1>3, Goes, Rests DEF Wk!DisableSweep
  <1>4. CASE Wk(cf)!TickOn BY <1>4, Goes, Rests DEF Wk!TickOn
  <1>5. CASE Wk(cf)!Checkpoint BY <1>5, Goes, Rests DEF Wk!Checkpoint
  <1>6. ASSUME NEW D \in SUBSET cf.Keys, Wk(cf)!TakeDue(D) PROVE GateFacts'
    BY <1>6 DEF Wk!TakeDue, Wk!Idle, Wk!Hand
  <1>7. CASE Wk(cf)!Classify
    BY <1>7, ClassifyGoes
  <1>8. CASE Wk(cf)!OwnBatch BY <1>8, Goes, Rests DEF Wk!OwnBatch
  <1>9. CASE Wk(cf)!PollRun
    <2>1. CASE w' = [w EXCEPT !.pc = "close", !.out = run[w.batch]] BY <2>1 DEF Wk!Hand
    <2>2. CASE Wk(cf)!At("uncertain") BY <2>2, Goes
    <2> QED BY <1>9, <2>1, <2>2 DEF Wk!PollRun
  <1>10. CASE Wk(cf)!Fresh
    <2>1. CASE Wk(cf)!Ends BY <2>1, Rests
    <2>2. CASE w.items \ Wk(cf)!Exhausted # {} /\ Wk(cf)!GateOpen
      BY <1>10, <2>2 DEF Wk!Fresh, Wk!GateOpen
    <2> QED BY <1>10, <2>1, <2>2 DEF Wk!Fresh
  <1>11. ASSUME NEW A \in SUBSET cf.Keys, NEW b \in cf.Batches, Wk(cf)!Admitted(A, b) PROVE GateFacts'
    BY <1>11, Goes, Rests DEF Wk!Admitted, Wk!Hand
  <1>12. CASE Wk(cf)!Refused BY <1>12, Goes, Rests DEF Wk!Refused
  <1>13. CASE Wk(cf)!AlreadyConsumed BY <1>13, Goes, Rests DEF Wk!AlreadyConsumed, Wk!Hand
  <1>14. CASE Wk(cf)!Associate BY <1>14, Goes, Rests DEF Wk!Associate
  <1>15. CASE Wk(cf)!EndpointDown BY <1>15, Goes, Rests DEF Wk!EndpointDown
  <1>16. CASE Wk(cf)!Post BY <1>16, Goes, Rests DEF Wk!Post
  <1>17. CASE Wk(cf)!SeesReject BY <1>17, Goes, Rests DEF Wk!SeesReject
  <1>18. CASE Wk(cf)!SeesStarted BY <1>18, Goes, Rests DEF Wk!SeesStarted, Wk!Hand
  <1>19. CASE Wk(cf)!RecordsAccepted
    BY <1>19, Goes, Rests DEF Wk!RecordsAccepted, Wk!RecordBatch, Wk!From, Wk!AlreadyAs
  <1>20. CASE Wk(cf)!SeesTerminal BY <1>20, Goes, Rests DEF Wk!SeesTerminal, Wk!Hand
  <1>21. CASE Wk(cf)!StreamLost BY <1>21, Goes, Rests DEF Wk!StreamLost
  <1>22. CASE Wk(cf)!RecordsTerminal
    BY <1>22, Goes, Rests DEF Wk!RecordsTerminal, Wk!RecordBatch, Wk!From, Wk!AlreadyAs
  <1>23. CASE Wk(cf)!Non200 BY <1>23, Goes, Rests DEF Wk!Non200
  <1>24. CASE Wk(cf)!SettleUnseen BY <1>24, Goes, Rests DEF Wk!SettleUnseen
  <1>25. CASE Wk(cf)!RecordsProven
    BY <1>25, Goes, Rests DEF Wk!RecordsProven, Wk!RecordBatch, Wk!From, Wk!AlreadyAs
  <1>26. CASE Wk(cf)!RecordsUncertain
    BY <1>26, Goes, Rests DEF Wk!RecordsUncertain, Wk!RecordBatch, Wk!From, Wk!AlreadyAs
  <1>27. CASE Wk(cf)!CloseItems BY <1>27, Goes, Rests DEF Wk!CloseItems
  <1>28. CASE Wk(cf)!ChainNote BY <1>28, Goes, Rests DEF Wk!ChainNote
  <1>29. CASE Wk(cf)!ChainFail BY <1>29, Goes, Rests DEF Wk!ChainFail
  <1>30. CASE Wk(cf)!FaultFuse BY <1>30, Goes, Rests DEF Wk!FaultFuse
  <1>31. CASE Wk(cf)!ChainRelease BY <1>31 DEF Wk!ChainRelease, Wk!Unused
  <1>32. CASE Wk(cf)!Crash BY <1>32 DEF Wk!Crash, Wk!Idle
  <1> QED
    BY <1>1, <1>2, <1>3, <1>4, <1>5, <1>6, <1>7, <1>8, <1>9, <1>10, <1>11, <1>12, <1>13,
       <1>14, <1>15, <1>16, <1>17, <1>18, <1>19, <1>20, <1>21, <1>22, <1>23, <1>24, <1>25,
       <1>26, <1>27, <1>28, <1>29, <1>30, <1>31, <1>32
    DEF Wk!Next, Wk!Worker, Wk!Door, Wk!Environment

LEMMA StaysAwake ==
  ASSUME NEW cf,
         intent \in [cf.Keys -> Wk(cf)!Intent], w.pc \in Holding => w.batch \in cf.Batches,
         [Wk(cf)!Next]_(Wk(cf)!vars)
  PROVE  Awake(cf) \subseteq Awake(cf)'
  <1> USE DEF Awake, Holding, Wk!ledger, Wk!ghosts, Wk!bounds, Wk!outside
  <1>1. CASE \/ Wk(cf)!TickOff \/ Wk(cf)!TickShadow \/ Wk(cf)!TickOn \/ Wk(cf)!Checkpoint
             \/ (\E D \in SUBSET cf.Keys : Wk(cf)!TakeDue(D)) \/ Wk(cf)!PollRun
             \/ (\E A \in SUBSET cf.Keys, b \in cf.Batches : Wk(cf)!Admitted(A, b)) \/ Wk(cf)!Post
             \/ Wk(cf)!SeesReject \/ Wk(cf)!SeesStarted \/ Wk(cf)!SeesTerminal \/ Wk(cf)!StreamLost
             \/ Wk(cf)!ChainNote \/ Wk(cf)!ChainFail \/ Wk(cf)!FaultFuse
             \/ (\E b \in cf.Batches : Wk(cf)!DoorRejects(b))
             \/ (\E b \in cf.Batches : Wk(cf)!DoorLaunches(b))
             \/ (\E b \in cf.Batches : Wk(cf)!RunEnds(b)) \/ (\E b \in cf.Batches : Wk(cf)!DoorSettles(b))
             \/ (\E k \in cf.Keys : Wk(cf)!IntentAges(k)) \/ Wk(cf)!Toggle \/ Wk(cf)!HumanWrites
             \/ Wk(cf)!ChainRelease \/ (\E k \in cf.Keys, b \in cf.Batches : Wk(cf)!AppClaims(k, b))
             \/ (\E b \in cf.Batches : Wk(cf)!AppMoves(b)) \/ Wk(cf)!Crash
             \/ UNCHANGED Wk(cf)!vars
    BY <1>1 DEF Wk!vars, Wk!TickOff, Wk!TickShadow, Wk!TickOn, Wk!Checkpoint, Wk!TakeDue, Wk!PollRun,
       Wk!Admitted, Wk!Post, Wk!SeesReject, Wk!SeesStarted, Wk!SeesTerminal, Wk!StreamLost,
       Wk!ChainNote, Wk!ChainFail, Wk!FaultFuse, Wk!DoorRejects, Wk!DoorLaunches, Wk!RunEnds,
       Wk!DoorSettles, Wk!IntentAges, Wk!Toggle, Wk!HumanWrites, Wk!ChainRelease, Wk!AppClaims,
       Wk!AppMoves, Wk!Crash
  <1>2. CASE Wk(cf)!DisableSweep BY <1>2, SetItemsType DEF Wk!DisableSweep
  <1>3. CASE Wk(cf)!Classify BY <1>3, SetItemsType DEF Wk!Classify, Wk!Hand
  <1>4. CASE Wk(cf)!OwnBatch BY <1>4, SetItemsType, SetBatchType DEF Wk!OwnBatch, Wk!Quarantine
  <1>5. CASE Wk(cf)!Fresh BY <1>5, FreshIntents DEF Wk!Fresh
  <1>6. CASE Wk(cf)!Refused BY <1>6, SetItemsType DEF Wk!Refused
  <1>7. CASE Wk(cf)!AlreadyConsumed
    BY <1>7, SetItemsType, SetBatchType, ZenonT(60) DEF Wk!AlreadyConsumed, Wk!Hand
  <1>8. CASE Wk(cf)!Associate BY <1>8, SetItemsType, SetBatchType DEF Wk!Associate
  <1>9. CASE Wk(cf)!EndpointDown BY <1>9, SetItemsType DEF Wk!EndpointDown
  <1>10. CASE Wk(cf)!RecordsAccepted
    BY <1>10, SetBatchType DEF Wk!RecordsAccepted, Wk!Quarantine, Wk!RecordBatch
  <1>11. CASE Wk(cf)!RecordsTerminal
    BY <1>11, SetBatchType DEF Wk!RecordsTerminal, Wk!Quarantine, Wk!RecordBatch
  <1>12. CASE Wk(cf)!Non200 BY <1>12, SetItemsType DEF Wk!Non200
  <1>13. CASE Wk(cf)!SettleUnseen
    BY <1>13, SetItemsType, SetBatchType DEF Wk!SettleUnseen, Wk!Quarantine
  <1>14. CASE Wk(cf)!RecordsProven
    BY <1>14, SetBatchType DEF Wk!RecordsProven, Wk!Quarantine, Wk!RecordBatch
  <1>15. CASE Wk(cf)!RecordsUncertain
    BY <1>15, SetBatchType DEF Wk!RecordsUncertain, Wk!Quarantine, Wk!RecordBatch
  <1>16. CASE Wk(cf)!CloseItems BY <1>16, SetItemsType DEF Wk!CloseItems
  <1>17. ASSUME NEW k \in cf.Keys, Wk(cf)!IntentRecorded(k) PROVE Awake(cf) \subseteq Awake(cf)'
    BY <1>17 DEF Wk!IntentRecorded
  <1> QED
    BY <1>1, <1>2, <1>3, <1>4, <1>5, <1>6, <1>7, <1>8, <1>9, <1>10, <1>11, <1>12, <1>13,
       <1>14, <1>15, <1>16, <1>17
    DEF Wk!Next, Wk!Worker, Wk!Door, Wk!Environment

LEMMA ItemsAwake ==
  ASSUME NEW cf, w \in Wk(cf)!Hand, intent \in [cf.Keys -> Wk(cf)!Intent],
         w.items \subseteq Awake(cf),
         [Wk(cf)!Next]_(Wk(cf)!vars)
  PROVE  w'.items \subseteq Awake(cf)
  <1> USE DEF Wk!Pcs, Wk!ledger, Wk!ghosts, Wk!bounds, Wk!outside
  <1>1. CASE \/ Wk(cf)!TickShadow \/ (\E b \in cf.Batches : Wk(cf)!DoorRejects(b))
             \/ (\E b \in cf.Batches : Wk(cf)!DoorLaunches(b))
             \/ (\E b \in cf.Batches : Wk(cf)!RunEnds(b)) \/ (\E b \in cf.Batches : Wk(cf)!DoorSettles(b))
             \/ (\E k \in cf.Keys : Wk(cf)!IntentRecorded(k)) \/ (\E k \in cf.Keys : Wk(cf)!IntentAges(k))
             \/ Wk(cf)!Toggle \/ Wk(cf)!HumanWrites \/ Wk(cf)!ChainRelease
             \/ (\E k \in cf.Keys, b \in cf.Batches : Wk(cf)!AppClaims(k, b))
             \/ (\E b \in cf.Batches : Wk(cf)!AppMoves(b))
             \/ UNCHANGED Wk(cf)!vars
    BY <1>1 DEF Wk!vars, Wk!TickShadow, Wk!DoorRejects, Wk!DoorLaunches, Wk!RunEnds, Wk!DoorSettles,
       Wk!IntentRecorded, Wk!IntentAges, Wk!Toggle, Wk!HumanWrites, Wk!ChainRelease, Wk!AppClaims,
       Wk!AppMoves
  <1>2. CASE Wk(cf)!TickOff BY <1>2, Goes, Rests DEF Wk!TickOff
  <1>3. CASE Wk(cf)!DisableSweep BY <1>3, Goes, Rests DEF Wk!DisableSweep
  <1>4. CASE Wk(cf)!TickOn BY <1>4, Goes, Rests DEF Wk!TickOn
  <1>5. CASE Wk(cf)!Checkpoint BY <1>5, Goes, Rests DEF Wk!Checkpoint
  <1>6. ASSUME NEW D \in SUBSET cf.Keys, Wk(cf)!TakeDue(D) PROVE w'.items \subseteq Awake(cf)
    BY <1>6 DEF Wk!TakeDue, Wk!Due, Wk!Pending, Wk!Idle, Wk!Hand, Awake
  <1>7. CASE Wk(cf)!Classify BY <1>7, Goes, Rests, ZenonT(60) DEF Wk!Classify, Wk!Hand
  <1>8. CASE Wk(cf)!OwnBatch BY <1>8, Goes, Rests DEF Wk!OwnBatch
  <1>9. CASE Wk(cf)!PollRun BY <1>9, Goes, Rests DEF Wk!PollRun, Wk!Hand
  <1>10. CASE Wk(cf)!Fresh BY <1>10, Goes, Rests DEF Wk!Fresh, Wk!Hand
  <1>11. ASSUME NEW A \in SUBSET cf.Keys, NEW b \in cf.Batches, Wk(cf)!Admitted(A, b) PROVE w'.items \subseteq Awake(cf)
    BY <1>11, Goes, Rests DEF Wk!Admitted, Wk!Hand
  <1>12. CASE Wk(cf)!Refused BY <1>12, Goes, Rests DEF Wk!Refused
  <1>13. CASE Wk(cf)!AlreadyConsumed BY <1>13, Goes, Rests DEF Wk!AlreadyConsumed, Wk!Hand
  <1>14. CASE Wk(cf)!Associate BY <1>14, Goes, Rests DEF Wk!Associate
  <1>15. CASE Wk(cf)!EndpointDown BY <1>15, Goes, Rests DEF Wk!EndpointDown
  <1>16. CASE Wk(cf)!Post BY <1>16, Goes, Rests DEF Wk!Post
  <1>17. CASE Wk(cf)!SeesReject BY <1>17, Goes, Rests DEF Wk!SeesReject
  <1>18. CASE Wk(cf)!SeesStarted BY <1>18, Goes, Rests DEF Wk!SeesStarted, Wk!Hand
  <1>19. CASE Wk(cf)!RecordsAccepted
    BY <1>19, Goes, Rests DEF Wk!RecordsAccepted, Wk!RecordBatch, Wk!From, Wk!AlreadyAs
  <1>20. CASE Wk(cf)!SeesTerminal BY <1>20, Goes, Rests DEF Wk!SeesTerminal, Wk!Hand
  <1>21. CASE Wk(cf)!StreamLost BY <1>21, Goes, Rests DEF Wk!StreamLost
  <1>22. CASE Wk(cf)!RecordsTerminal
    BY <1>22, Goes, Rests DEF Wk!RecordsTerminal, Wk!RecordBatch, Wk!From, Wk!AlreadyAs
  <1>23. CASE Wk(cf)!Non200 BY <1>23, Goes, Rests DEF Wk!Non200
  <1>24. CASE Wk(cf)!SettleUnseen BY <1>24, Goes, Rests DEF Wk!SettleUnseen
  <1>25. CASE Wk(cf)!RecordsProven
    BY <1>25, Goes, Rests DEF Wk!RecordsProven, Wk!RecordBatch, Wk!From, Wk!AlreadyAs
  <1>26. CASE Wk(cf)!RecordsUncertain
    BY <1>26, Goes, Rests DEF Wk!RecordsUncertain, Wk!RecordBatch, Wk!From, Wk!AlreadyAs
  <1>27. CASE Wk(cf)!CloseItems BY <1>27, Goes, Rests DEF Wk!CloseItems
  <1>28. CASE Wk(cf)!ChainNote BY <1>28, Goes, Rests DEF Wk!ChainNote
  <1>29. CASE Wk(cf)!ChainFail BY <1>29, Goes, Rests DEF Wk!ChainFail
  <1>30. CASE Wk(cf)!FaultFuse BY <1>30, Goes, Rests DEF Wk!FaultFuse
  <1>31. CASE Wk(cf)!Crash BY <1>31 DEF Wk!Crash, Wk!Idle
  <1> QED
    BY <1>1, <1>2, <1>3, <1>4, <1>5, <1>6, <1>7, <1>8, <1>9, <1>10, <1>11, <1>12, <1>13,
       <1>14, <1>15, <1>16, <1>17, <1>18, <1>19, <1>20, <1>21, <1>22, <1>23, <1>24, <1>25,
       <1>26, <1>27, <1>28, <1>29, <1>30, <1>31
    DEF Wk!Next, Wk!Worker, Wk!Door, Wk!Environment

LEMMA ClaimsAwake ==
  ASSUME NEW cf, Wk(cf)!Parameters, batch \in [cf.Batches -> Wk(cf)!Row],
         cons \in [cf.Keys -> cf.Batches \cup {"ignored", "none"}],
         BatchFacts(cf), ClaimFacts(cf), Forward(cf),
         [Wk(cf)!Next]_(Wk(cf)!vars)
  PROVE  \A q \in cf.Keys : cons'[q] \in cf.Batches =>
           batch'[cons'[q]].owner = "app" \/ (batch'[cons'[q]].owner = "self" /\ q \in Awake(cf))
  <1> USE DEF ClaimFacts, BatchFacts, Forward, Wk!Parameters, Wk!ledger, Wk!ghosts, Wk!bounds,
             Wk!outside
  <1>1. CASE \/ Wk(cf)!TickOff \/ Wk(cf)!DisableSweep \/ Wk(cf)!TickShadow \/ Wk(cf)!TickOn \/ Wk(cf)!Checkpoint
             \/ (\E D \in SUBSET cf.Keys : Wk(cf)!TakeDue(D)) \/ Wk(cf)!Classify \/ Wk(cf)!OwnBatch
             \/ Wk(cf)!PollRun \/ Wk(cf)!Fresh \/ Wk(cf)!Refused \/ Wk(cf)!AlreadyConsumed \/ Wk(cf)!Associate
             \/ Wk(cf)!EndpointDown \/ Wk(cf)!Post \/ Wk(cf)!SeesReject \/ Wk(cf)!SeesStarted
             \/ Wk(cf)!RecordsAccepted \/ Wk(cf)!SeesTerminal \/ Wk(cf)!StreamLost \/ Wk(cf)!RecordsTerminal
             \/ Wk(cf)!Non200 \/ Wk(cf)!SettleUnseen \/ Wk(cf)!RecordsProven \/ Wk(cf)!RecordsUncertain
             \/ Wk(cf)!CloseItems \/ Wk(cf)!ChainNote \/ Wk(cf)!ChainFail \/ Wk(cf)!FaultFuse
             \/ (\E b \in cf.Batches : Wk(cf)!DoorRejects(b))
             \/ (\E b \in cf.Batches : Wk(cf)!DoorLaunches(b))
             \/ (\E b \in cf.Batches : Wk(cf)!RunEnds(b)) \/ (\E b \in cf.Batches : Wk(cf)!DoorSettles(b))
             \/ (\E k \in cf.Keys : Wk(cf)!IntentRecorded(k)) \/ (\E k \in cf.Keys : Wk(cf)!IntentAges(k))
             \/ Wk(cf)!Toggle \/ Wk(cf)!HumanWrites \/ Wk(cf)!ChainRelease \/ Wk(cf)!Crash
             \/ UNCHANGED Wk(cf)!vars
    <2>1. UNCHANGED cons
      BY <1>1 DEF Wk!vars, Wk!TickOff, Wk!DisableSweep, Wk!TickShadow, Wk!TickOn, Wk!Checkpoint, Wk!TakeDue,
        Wk!Classify, Wk!OwnBatch, Wk!PollRun, Wk!Fresh, Wk!Refused, Wk!AlreadyConsumed,
        Wk!Associate, Wk!EndpointDown, Wk!Post, Wk!SeesReject, Wk!SeesStarted,
        Wk!RecordsAccepted, Wk!SeesTerminal, Wk!StreamLost, Wk!RecordsTerminal, Wk!Non200,
        Wk!SettleUnseen, Wk!RecordsProven, Wk!RecordsUncertain, Wk!CloseItems, Wk!ChainNote,
        Wk!ChainFail, Wk!FaultFuse, Wk!DoorRejects, Wk!DoorLaunches, Wk!RunEnds,
        Wk!DoorSettles, Wk!IntentRecorded, Wk!IntentAges, Wk!Toggle, Wk!HumanWrites,
        Wk!ChainRelease, Wk!Crash
    <2> QED BY <2>1
  <1>2. ASSUME NEW A \in SUBSET cf.Keys, NEW b \in cf.Batches, Wk(cf)!Admitted(A, b) PROVE \A q \in cf.Keys : cons'[q] \in cf.Batches =>
           batch'[cons'[q]].owner = "app" \/ (batch'[cons'[q]].owner = "self" /\ q \in Awake(cf))
    BY <1>2 DEF Wk!Admitted, Wk!Unclaimed
  <1>3. ASSUME NEW k \in cf.Keys, NEW b \in cf.Batches, Wk(cf)!AppClaims(k, b) PROVE \A q \in cf.Keys : cons'[q] \in cf.Batches =>
           batch'[cons'[q]].owner = "app" \/ (batch'[cons'[q]].owner = "self" /\ q \in Awake(cf))
    <2>1. CASE cons' = [cons EXCEPT ![k] = "ignored"] /\ UNCHANGED batch BY <2>1
    <2>2. CASE /\ batch[b].state = "none"
               /\ batch' = [batch EXCEPT ![b] = [state |-> "reserved", owner |-> "app"]]
               /\ cons' = [cons EXCEPT ![k] = b]
      <3>1. SUFFICES ASSUME NEW q \in cf.Keys, cons'[q] \in cf.Batches
                     PROVE  \/ batch'[cons'[q]].owner = "app"
                            \/ batch'[cons'[q]].owner = "self" /\ q \in Awake(cf)
        OBVIOUS
      <3>2. CASE cons'[q] = b BY <2>2, <3>2 DEF Wk!Row
      <3>3. CASE cons'[q] # b
        BY <2>2, <3>3, <3>1
      <3> QED BY <3>2, <3>3
    <2> QED BY <1>3, <2>1, <2>2 DEF Wk!AppClaims
  <1>4. ASSUME NEW b \in cf.Batches, Wk(cf)!AppMoves(b) PROVE \A q \in cf.Keys : cons'[q] \in cf.Batches =>
           batch'[cons'[q]].owner = "app" \/ (batch'[cons'[q]].owner = "self" /\ q \in Awake(cf))
    BY <1>4 DEF Wk!AppMoves
  <1> QED
    BY <1>1, <1>2, <1>3, <1>4
    DEF Wk!Next, Wk!Worker, Wk!Door, Wk!Environment

LEMMA OnlyAdmitClaims ==
  ASSUME NEW cf,
         batch \in [cf.Batches -> Wk(cf)!Row], BatchFacts(cf), w.pc \in Holding => w.batch \in cf.Batches,
         [Wk(cf)!Next]_(Wk(cf)!vars)
  PROVE  \A c \in cf.Batches :
             batch[c].state = "none" /\ batch'[c].owner = "self" => w.pc = "admit"
  <1> USE DEF BatchFacts, Holding, Wk!Row, Wk!Open, Wk!Closed, Wk!ledger, Wk!ghosts,
             Wk!bounds, Wk!outside
  <1>1. CASE \/ Wk(cf)!TickOff \/ Wk(cf)!DisableSweep \/ Wk(cf)!TickShadow \/ Wk(cf)!TickOn \/ Wk(cf)!Checkpoint
             \/ (\E D \in SUBSET cf.Keys : Wk(cf)!TakeDue(D)) \/ Wk(cf)!Classify \/ Wk(cf)!OwnBatch
             \/ Wk(cf)!Fresh \/ Wk(cf)!Refused \/ Wk(cf)!AlreadyConsumed \/ Wk(cf)!Associate
             \/ Wk(cf)!EndpointDown \/ Wk(cf)!SeesReject \/ Wk(cf)!SeesStarted \/ Wk(cf)!SeesTerminal
             \/ Wk(cf)!StreamLost \/ Wk(cf)!Non200 \/ Wk(cf)!SettleUnseen \/ Wk(cf)!CloseItems
             \/ Wk(cf)!ChainNote \/ Wk(cf)!ChainFail \/ Wk(cf)!FaultFuse
             \/ (\E b \in cf.Batches : Wk(cf)!DoorLaunches(b))
             \/ (\E b \in cf.Batches : Wk(cf)!RunEnds(b)) \/ (\E k \in cf.Keys : Wk(cf)!IntentRecorded(k))
             \/ (\E k \in cf.Keys : Wk(cf)!IntentAges(k)) \/ Wk(cf)!Toggle \/ Wk(cf)!HumanWrites
             \/ Wk(cf)!ChainRelease \/ Wk(cf)!Crash
             \/ UNCHANGED Wk(cf)!vars
    BY <1>1 DEF Wk!vars, Wk!TickOff, Wk!DisableSweep, Wk!TickShadow, Wk!TickOn, Wk!Checkpoint,
       Wk!TakeDue, Wk!Classify, Wk!OwnBatch, Wk!Fresh, Wk!Refused, Wk!AlreadyConsumed, Wk!Associate,
       Wk!EndpointDown, Wk!SeesReject, Wk!SeesStarted, Wk!SeesTerminal, Wk!StreamLost, Wk!Non200,
       Wk!SettleUnseen, Wk!CloseItems, Wk!ChainNote, Wk!ChainFail, Wk!FaultFuse, Wk!DoorLaunches,
       Wk!RunEnds, Wk!IntentRecorded, Wk!IntentAges, Wk!Toggle, Wk!HumanWrites, Wk!ChainRelease,
       Wk!Crash
  <1>2. CASE Wk(cf)!PollRun BY <1>2 DEF Wk!PollRun
  <1>3. ASSUME NEW A \in SUBSET cf.Keys, NEW b \in cf.Batches, Wk(cf)!Admitted(A, b) PROVE \A c \in cf.Batches :
             batch[c].state = "none" /\ batch'[c].owner = "self" => w.pc = "admit"
    BY <1>3 DEF Wk!Admitted
  <1>4. CASE Wk(cf)!Post BY <1>4 DEF Wk!Post
  <1>5. CASE Wk(cf)!RecordsAccepted BY <1>5 DEF Wk!RecordsAccepted, Wk!RecordBatch, Wk!From
  <1>6. CASE Wk(cf)!RecordsTerminal BY <1>6 DEF Wk!RecordsTerminal, Wk!RecordBatch, Wk!From
  <1>7. CASE Wk(cf)!RecordsProven BY <1>7 DEF Wk!RecordsProven, Wk!RecordBatch, Wk!From
  <1>8. CASE Wk(cf)!RecordsUncertain BY <1>8 DEF Wk!RecordsUncertain, Wk!RecordBatch, Wk!From
  <1>9. ASSUME NEW b \in cf.Batches, Wk(cf)!DoorRejects(b) PROVE \A c \in cf.Batches :
             batch[c].state = "none" /\ batch'[c].owner = "self" => w.pc = "admit"
    BY <1>9 DEF Wk!DoorRejects
  <1>10. ASSUME NEW b \in cf.Batches, Wk(cf)!DoorSettles(b) PROVE \A c \in cf.Batches :
             batch[c].state = "none" /\ batch'[c].owner = "self" => w.pc = "admit"
    BY <1>10 DEF Wk!DoorSettles
  <1>11. ASSUME NEW k \in cf.Keys, NEW b \in cf.Batches, Wk(cf)!AppClaims(k, b) PROVE \A c \in cf.Batches :
             batch[c].state = "none" /\ batch'[c].owner = "self" => w.pc = "admit"
    BY <1>11 DEF Wk!AppClaims
  <1>12. ASSUME NEW b \in cf.Batches, Wk(cf)!AppMoves(b) PROVE \A c \in cf.Batches :
             batch[c].state = "none" /\ batch'[c].owner = "self" => w.pc = "admit"
    BY <1>12 DEF Wk!AppMoves
  <1> QED
    BY <1>1, <1>2, <1>3, <1>4, <1>5, <1>6, <1>7, <1>8, <1>9, <1>10, <1>11, <1>12
    DEF Wk!Next, Wk!Worker, Wk!Door, Wk!Environment

LEMMA WakeStarts ==
  ASSUME NEW cf, Wk(cf)!Parameters, Wk(cf)!Init
  PROVE  WakeInv(cf)
  <1> USE DEF Wk!Init, Wk!Parameters
  <1>1. Wk(cf)!TypeOK
    BY DEF Wk!Intent, Wk!NoIntent, Wk!Row, Wk!Hand, Wk!Idle, Wk!Pcs, Wk!Unused, Wk!TypeOK
  <1>2. BatchFacts(cf) BY DEF BatchFacts
  <1>3. OwnFacts(cf) BY DEF OwnFacts, Holding, Wk!Idle, Wk!NoIntent
  <1>4. CountFacts(cf) BY DEF CountFacts, Uncounted, Holding, Wk!Idle
  <1>5. ClaimFacts(cf) BY DEF ClaimFacts, Wk!Idle
  <1>6. GateFacts BY DEF GateFacts, Wk!Idle
  <1> QED BY <1>1, <1>2, <1>3, <1>4, <1>5, <1>6 DEF WakeInv

LEMMA WakeInductive ==
  ASSUME NEW cf, Wk(cf)!Parameters, WakeInv(cf), [Wk(cf)!Next]_(Wk(cf)!vars)
  PROVE  WakeInv(cf)' /\ Forward(cf)
  <1>1. /\ intent \in [cf.Keys -> Wk(cf)!Intent] /\ w \in Wk(cf)!Hand /\ batch \in [cf.Batches -> Wk(cf)!Row]
        /\ cons \in [cf.Keys -> cf.Batches \cup {"ignored", "none"}]
        /\ chain \in [fires : Nat, fails : Nat, fused : BOOLEAN]
        /\ door \in [cf.Batches -> {"none", "gated", "rejected", "streaming"}]
        /\ run \in [cf.Batches -> {"none", "running"} \cup Wk(cf)!Ended]
        /\ launched \in [cf.Batches -> Nat] /\ counted \in [cf.Batches -> Nat]
    BY Zenon DEF WakeInv, Wk!TypeOK
  <1>2. Wk(cf)!TypeOK /\ BatchFacts(cf) /\ OwnFacts(cf) /\ CountFacts(cf) /\ ClaimFacts(cf) /\ GateFacts
    BY DEF WakeInv
  <1>3. w.pc \in Holding => w.batch \in cf.Batches BY <1>2 DEF OwnFacts
  <1>4. Wk(cf)!TypeOK'
    BY <1>1, <1>3, IntentTyped, HandTyped, LedgerTyped, ChainTyped, DoorTyped, <1>2, KnobsTyped
       DEF Wk!TypeOK
  <1>5. Forward(cf) BY <1>1, <1>2, <1>3, GoesForward
  <1>6. BatchFacts(cf)' BY <1>1, <1>2, BatchFactsKept
  <1>7. OwnFacts(cf)' BY <1>1, <1>2, <1>5, OwnFactsKept
  <1>8. CountFacts(cf)' BY <1>1, <1>2, <1>5, CountFactsKept
  <1>9. GateFacts' BY <1>1, <1>2, GateFactsKept
  <1>10. ClaimFacts(cf)'
    BY <1>1, <1>3, StaysAwake, <1>2, ItemsAwake, <1>5, ClaimsAwake DEF ClaimFacts
  <1> QED BY <1>4, <1>5, <1>6, <1>7, <1>8, <1>9, <1>10 DEF WakeInv

LEMMA WakeImplies ==
  ASSUME NEW cf, WakeInv(cf)
  PROVE  Wk(cf)!TypeOK /\ Wk(cf)!WakesOnce
  <1> USE DEF WakeInv
  <1>1. Wk(cf)!OneTurnPerBatch BY DEF BatchFacts, Wk!OneTurnPerBatch
  <1>2. Wk(cf)!AppBatchesUntouched BY DEF BatchFacts, Wk!AppBatchesUntouched
  <1>3. Wk(cf)!CountedOnce BY DEF CountFacts, Wk!CountedOnce, Wk!TypeOK
  <1>4. Wk(cf)!ShadowNeverAdmits BY DEF ClaimFacts, Awake, Wk!ShadowNeverAdmits
  <1> QED BY <1>1, <1>2, <1>3, <1>4 DEF Wk!WakesOnce

LEMMA FuseKept ==
  ASSUME NEW cf, WakeInv(cf), [Wk(cf)!Next]_(Wk(cf)!vars)
  PROVE  Wk(cf)!FusedStep
  BY OnlyAdmitClaims DEF WakeInv, Wk!TypeOK, OwnFacts, GateFacts, Wk!FusedStep

-----------------------------------------------------------------------------
(* Installer.                                                              *)

UnitsOf(cf) == Range(cf.Units)
Unpublished == [gen |-> 0, owners |-> {}, changes |-> <<>>]
Idle == [owner |-> "none", at |-> 0, step |-> 0, abandoned |-> FALSE]
Wrap(u, gen) == [by |-> u, gen |-> gen]
Layers(cf) == {Wrap("native", 0), Wrap("third", 0)} \cup [by : UnitsOf(cf), gen : 1..cf.MaxLoads]
Change(cf) == [attr : cf.Attrs, old : Seq(Layers(cf)), value : Seq(Layers(cf))]
Group(cf) == [gen : 0..cf.MaxLoads, owners : SUBSET cf.Owners, changes : Seq(Change(cf))]
Lease(cf) == [unit : UnitsOf(cf), gen : 1..cf.MaxLoads]

\* The place of a unit in the order.
Place(cf, u) == CHOOSE k \in 1..Len(cf.Units) : cf.Units[k] = u

\* The unit whose bindings are being set.
Busy(cf, u) == load.step > 0 /\ load.at \in 1..Len(cf.Units) /\ u = cf.Units[load.at]

Changes(u) == group[u].changes
Steps(u) == 1..Len(group[u].changes)
Attr(u, i) == group[u].changes[i].attr
Old(u, i) == group[u].changes[i].old
Value(u, i) == group[u].changes[i].value
Holds(u, a) == \E i \in Steps(u) : Attr(u, i) = a

\* The first and the last change a unit made of an attribute.
Opens(u, i) == i \in Steps(u) /\ \A j \in Steps(u) : j < i => Attr(u, j) # Attr(u, i)
Closes(u, i) == i \in Steps(u) /\ \A j \in Steps(u) : i < j => Attr(u, j) # Attr(u, i)

LoadTyped(cf) ==
    /\ bound \in [cf.Attrs -> Seq(Layers(cf))] /\ rows \in [cf.Attrs -> Seq(Layers(cf))]
    /\ group \in [UnitsOf(cf) -> Group(cf)]
    /\ manifest \in [UnitsOf(cf) -> {"none", "applied", "skipped", "unloaded"}]
    /\ leases \in [cf.Owners -> Seq(Lease(cf))]
    /\ leaving \in SUBSET cf.Owners /\ kept \in SUBSET cf.Owners /\ foreign \in SUBSET cf.Third
    /\ loads \in 0..cf.MaxLoads
    /\ \/ load = Idle
       \/ load \in [owner : cf.Owners, at : 1..(Len(cf.Units) + 1), step : Nat, abandoned : BOOLEAN]
          /\ loads > 0

\* A published group has owners and the changes of all its bindings, or of those
\* set so far while the load is at it; each change is one layer on what it found.
GroupsFit(cf) ==
    \A u \in UnitsOf(cf) :
        /\ group[u] # Unpublished => group[u].owners # {} /\ group[u].gen \in 1..loads
        /\ \A i \in Steps(u) : /\ i <= Len(cf.Binds[u]) /\ Attr(u, i) = cf.Binds[u][i]
                               /\ Value(u, i) = <<Wrap(u, group[u].gen)>> \o Old(u, i)
        /\ Busy(cf, u) => /\ group[u].owners = {load.owner} /\ Len(Changes(u)) = load.step - 1
                          /\ load.step <= Len(cf.Binds[u]) + 1
        /\ ~Busy(cf, u) /\ group[u] # Unpublished => Len(Changes(u)) = Len(cf.Binds[u])

\* An owner has a lease on the very group, what the manifest calls applied is
\* owned, and the layer of a third party stays.
Leased(cf) ==
    \A o \in cf.Owners, u \in UnitsOf(cf) : o \in group[u].owners =>
        \E p \in 1..Len(leases[o]) : leases[o][p] = [unit |-> u, gen |-> group[u].gen]
AppliedOwned(cf) == \A u \in UnitsOf(cf) : manifest[u] = "applied" => group[u].owners # {}
ThirdStays == \A a \in foreign : Wrap("third", 0) \in Range(bound[a])

LoadBase(cf) == LoadTyped(cf) /\ GroupsFit(cf) /\ Leased(cf) /\ AppliedOwned(cf) /\ ThirdStays

\* Who owns units is kept, leaving or loading; who is kept owns every compatible
\* unit, the load in progress those it has passed unless it was abandoned.
OwnersFit(cf) ==
    /\ kept \cap leaving = {}
    /\ load # Idle => load.owner \notin kept /\ (load.owner \in leaving <=> load.abandoned)
    /\ \A o \in cf.Owners : o \notin kept \cup leaving \cup {load.owner} => leases[o] = <<>>
    /\ \A o \in kept, u \in UnitsOf(cf) \ cf.Broken : o \in group[u].owners
    /\ ~load.abandoned =>
           \A k \in 1..Len(cf.Units) :
               k < load.at /\ cf.Units[k] \notin cf.Broken => load.owner \in group[cf.Units[k]].owners

\* An incompatible unit is published only while the load is at it; who owns a
\* unit owns the compatible ones before it, and nobody those after a busy one.
Nested(cf) ==
    /\ \A u \in cf.Broken : group[u] # Unpublished => Busy(cf, u)
    /\ \A u, v \in UnitsOf(cf) \ cf.Broken :
           Place(cf, u) < Place(cf, v) =>
               /\ group[v].owners \subseteq group[u].owners
               /\ Busy(cf, u) => group[v] = Unpublished

\* No lease names a group still to come, one of a group that is there is its
\* owner's, and those of one manager were taken in the order of the units.
Live(l) == group[l.unit].gen = l.gen
LeasesFit(cf) ==
    \A o \in cf.Owners : \A p \in 1..Len(leases[o]) :
        /\ leases[o][p].gen <= loads
        /\ load # Idle /\ leases[o][p].gen = loads =>
               \/ Place(cf, leases[o][p].unit) < load.at
               \/ Place(cf, leases[o][p].unit) = load.at /\ load.step > 0
        /\ Live(leases[o][p]) => o \in group[leases[o][p].unit].owners
        /\ \A q \in 1..Len(leases[o]) :
               p < q /\ Live(leases[o][p]) /\ Live(leases[o][q])
               /\ leases[o][p].unit \notin cf.Broken /\ leases[o][q].unit \notin cf.Broken
               => Place(cf, leases[o][p].unit) < Place(cf, leases[o][q].unit)

\* The busy unit binds on top of all others, those in their order.
Rank(cf, u) == IF Busy(cf, u) THEN Len(cf.Units) + 1 ELSE Place(cf, u)

\* An attribute holds the layers of the units that hold it, in this order. A
\* unit's change of it was made on the value of its last one before;
Again(cf) ==
    \A u \in UnitsOf(cf) : \A i, j \in Steps(u) :
        /\ i < j /\ Attr(u, i) = Attr(u, j)
        /\ \A m \in Steps(u) : i < m /\ m < j => Attr(u, m) # Attr(u, j)
        => Old(u, j) = Value(u, i)

\* the last of the unit on top is bound;
TopIsBound(cf) ==
    \A u \in UnitsOf(cf), a \in cf.Attrs, i \in Nat :
        /\ Closes(u, i) /\ Attr(u, i) = a
        /\ \A y \in UnitsOf(cf) : Holds(y, a) => Rank(cf, y) <= Rank(cf, u)
        => bound[a] = Value(u, i)

\* the first of another was made on the last of the unit below it;
Chained(cf) ==
    \A u, v \in UnitsOf(cf), a \in cf.Attrs, i, j \in Nat :
        /\ Opens(u, i) /\ Closes(v, j) /\ Attr(u, i) = a /\ Attr(v, j) = a /\ Rank(cf, v) < Rank(cf, u)
        /\ \A y \in UnitsOf(cf) : Holds(y, a) => Rank(cf, y) <= Rank(cf, v) \/ Rank(cf, u) <= Rank(cf, y)
        => Old(u, i) = Value(v, j)

\* the value bound, and the one a first change found, have no other layers of ours.
BoundShows(cf) ==
    \A a \in cf.Attrs, x \in UnitsOf(cf), g \in 1..cf.MaxLoads :
        Wrap(x, g) \in Range(bound[a]) <=> Holds(x, a) /\ g = group[x].gen
OldShows(cf) ==
    \A u, x \in UnitsOf(cf), a \in cf.Attrs, i \in Nat, g \in 1..cf.MaxLoads :
        Opens(u, i) /\ Attr(u, i) = a =>
            (Wrap(x, g) \in Range(Old(u, i)) <=>
                Holds(x, a) /\ Rank(cf, x) < Rank(cf, u) /\ g = group[x].gen)

Stacked(cf) == Again(cf) /\ TopIsBound(cf) /\ Chained(cf) /\ BoundShows(cf) /\ OldShows(cf)

\* While somebody is kept the routes serve what is bound, but for the bindings
\* of a unit that is going to fail.
Serves(cf, a, v) == v # <<>> /\ v[1].by \in UnitsOf(cf) => rows[a] = v
RowsFollow(cf) ==
    kept # {} =>
        /\ \A u \in UnitsOf(cf), a \in cf.Attrs, i \in Nat :
               Busy(cf, u) /\ Opens(u, i) /\ Attr(u, i) = a => Serves(cf, a, Old(u, i))
        /\ \A a \in cf.Attrs :
               (\A u \in UnitsOf(cf) : Busy(cf, u) => ~Holds(u, a)) => Serves(cf, a, bound[a])

LoadInv(cf) ==
    LoadBase(cf) /\ OwnersFit(cf) /\ Nested(cf) /\ LeasesFit(cf) /\ Stacked(cf) /\ RowsFollow(cf)

\* A set of numbers up to n has a least one.
LEMMA LeastIs ==
  ASSUME NEW n \in Nat, NEW S \in SUBSET (1..n), S # {}
  PROVE  \E k \in S : \A j \in S : k <= j
  <1> DEFINE F == {1..k : k \in S}
  <1>1. IsFiniteSet(1..n) BY FS_Interval
  <1>2. F \in SUBSET (SUBSET (1..n)) /\ F # {}
    <2>1. \A k \in S : 1..k \subseteq 1..n OBVIOUS
    <2>2. F \in SUBSET (SUBSET (1..n)) BY ONLY <2>1
    <2>3. PICK k \in S : TRUE OBVIOUS
    <2>4. 1..k \in F BY <2>3
    <2> QED BY ONLY <2>2, <2>4
  <1>3. IsWellFoundedOn(StrictSubsetOrdering(1..n), FiniteSubsetsOf(1..n))
    BY <1>1, FS_StrictSubsetOrderingWellFounded
  <1>4. F \subseteq FiniteSubsetsOf(1..n) BY <1>1, <1>2, FS_FiniteSubsetsOfFinite
  <1> HIDE DEF F
  <1>5. PICK A \in F : \A B \in F : <<B, A>> \notin StrictSubsetOrdering(1..n)
    BY <1>2, <1>3, <1>4, WFMin
  <1>6. \A B \in F : B \subseteq A => B = A
    <2> SUFFICES ASSUME NEW B \in F, B \subseteq A PROVE B = A OBVIOUS
    <2>1. <<B, A>> \notin StrictSubsetOrdering(1..n) BY <1>5
    <2>2. A \in SUBSET (1..n) /\ B \in SUBSET (1..n) BY <1>2, <1>5
    <2> QED BY <2>1, <2>2 DEF StrictSubsetOrdering
  <1>7. PICK k \in S : A = 1..k BY <1>5 DEF F
  <1>8. ASSUME NEW j \in S, j < k PROVE FALSE
    <2>1. j \in Nat /\ k \in Nat /\ k \in 1..k /\ k \notin 1..j BY <1>8
    <2>2. 1..j \in F /\ 1..j \subseteq 1..k BY <1>8 DEF F
    <2> QED BY <2>1, <2>2, <1>6, <1>7
  <1>9. k \in Nat /\ \A j \in S : j \in Nat OBVIOUS
  <1> QED BY <1>8, <1>9

\* What Shape says of the units.
LEMMA UnitsAre ==
  ASSUME NEW cf, Install(cf)!Shape
  PROVE  /\ Len(cf.Units) \in Nat /\ cf.Units \in Seq(UnitsOf(cf)) /\ DOMAIN cf.Units = 1..Len(cf.Units)
         /\ \A k \in 1..Len(cf.Units) : cf.Units[k] \in UnitsOf(cf) /\ Place(cf, cf.Units[k]) = k
         /\ \A u \in UnitsOf(cf) : Place(cf, u) \in 1..Len(cf.Units) /\ cf.Units[Place(cf, u)] = u
         /\ cf.MaxLoads \in Nat /\ cf.Broken \in SUBSET UnitsOf(cf)
         /\ "none" \notin cf.Owners /\ "native" \notin UnitsOf(cf) /\ "third" \notin UnitsOf(cf)
  BY LenProperties DEF Install!Shape, Install!Range, Install!IsInjective, IsInjective, UnitsOf, Range,
     Place

LEMMA BindsAre ==
  ASSUME NEW cf, Install(cf)!Shape, NEW u \in UnitsOf(cf)
  PROVE  /\ Len(cf.Binds[u]) \in Nat
         /\ \A i \in 1..Len(cf.Binds[u]) : cf.Binds[u][i] \in cf.Attrs
         /\ Range(cf.Binds[u]) = {cf.Binds[u][i] : i \in 1..Len(cf.Binds[u])}
  BY LenProperties, ElementOfSeq DEF Install!Shape, Install!Range, UnitsOf, Range

\* The undoing of a list of changes, from the newest back to the n-th.
Runs(cf, f, cs) ==
    f = [n \in 0..Len(cs) |-> IF n = Len(cs) THEN bound ELSE Install(cf)!Undone(f[n + 1], cs[n + 1])]

LEMMA UndoRuns ==
  ASSUME NEW cf, NEW cs, Len(cs) \in Nat
  PROVE  \E f : Runs(cf, f, cs)
  <1> DEFINE L == Len(cs)
             Upto(f, m) == \A n \in (L - m)..L :
                 f[n] = IF n = L THEN bound ELSE Install(cf)!Undone(f[n + 1], cs[n + 1])
             Bad == {m \in 1..L : ~\E f : Upto(f, m)}
  <1>0. \E f : Upto(f, 0)
    <2> DEFINE g == [n \in {L} |-> bound]
    <2>1. Upto(g, 0) OBVIOUS
    <2> QED BY <2>1
  <1>1. ASSUME NEW m \in 0..L, m < L, NEW f, Upto(f, m) PROVE \E h : Upto(h, m + 1)
    <2> DEFINE g == [n \in (L - (m + 1))..L |->
                       IF n = L - (m + 1) THEN Install(cf)!Undone(f[n + 1], cs[n + 1]) ELSE f[n]]
    <2>1. \A n \in (L - m)..L : g[n] = f[n] /\ n # L - (m + 1) BY SMT
    <2>2. ASSUME NEW n \in (L - (m + 1))..L
          PROVE  g[n] = IF n = L THEN bound ELSE Install(cf)!Undone(g[n + 1], cs[n + 1])
      <3>1. CASE n = L - (m + 1)
        BY <3>1, <2>1
      <3>2. CASE n # L - (m + 1)
        <4>1. n \in (L - m)..L /\ (n # L => n + 1 \in (L - m)..L) BY <3>2
        <4>2. g[n] = f[n] /\ (n # L => g[n + 1] = f[n + 1]) BY <4>1, <2>1
        <4>3. f[n] = IF n = L THEN bound ELSE Install(cf)!Undone(f[n + 1], cs[n + 1]) BY <4>1, <1>1
        <4> HIDE DEF g
        <4> QED BY <4>2, <4>3
      <3> QED BY <3>1, <3>2
    <2>3. Upto(g, m + 1) BY <2>2
    <2> QED BY <2>3
  <1> HIDE DEF Upto
  <1>2. Bad = {}
    <2> SUFFICES ASSUME Bad # {} PROVE FALSE OBVIOUS
    <2>1. PICK m \in Bad : \A j \in Bad : m <= j
      <3>1. Bad \in SUBSET (1..L) OBVIOUS
      <3> HIDE DEF Bad
      <3> QED BY <3>1, LeastIs
    <2>2. m \in 1..L /\ ~\E f : Upto(f, m) BY <2>1
    <2>3. m - 1 \in 0..L /\ m - 1 < L /\ (m - 1) + 1 = m BY <2>2
    <2>4. \E f : Upto(f, m - 1)
      <3>1. CASE m = 1 BY <3>1, <1>0
      <3>2. CASE m # 1
        <4>1. m - 1 \in 1..L /\ ~(m <= m - 1) BY <2>2, <3>2
        <4> QED BY <4>1, <2>1
      <3> QED BY <3>1, <3>2
    <2>5. PICK f : Upto(f, m - 1) BY <2>4
    <2>6. \E h : Upto(h, (m - 1) + 1) BY <1>1, <2>3, <2>5
    <2> QED BY <2>2, <2>3, <2>6
  <1>3. \E f : Upto(f, L)
    <2>1. CASE L = 0 BY <2>1, <1>0
    <2>2. CASE L # 0 BY <2>2, <1>2
    <2> QED BY <2>1, <2>2
  <1>4. PICK f : Upto(f, L) BY <1>3
  <1> DEFINE g == [n \in 0..L |-> f[n]]
  <1>5. Runs(cf, g, cs)
    <2>1. \A n \in 0..L : f[n] = IF n = L THEN bound ELSE Install(cf)!Undone(f[n + 1], cs[n + 1])
      BY <1>4 DEF Upto
    <2>2. ASSUME NEW n \in 0..L
          PROVE  g[n] = IF n = L THEN bound ELSE Install(cf)!Undone(g[n + 1], cs[n + 1])
      <3>1. n # L => n + 1 \in 0..L OBVIOUS
      <3>2. g[n] = f[n] /\ (n # L => g[n + 1] = f[n + 1]) BY <3>1
      <3> HIDE DEF g
      <3> QED BY <3>2, <2>1
    <2>3. g = [n \in 0..L |-> g[n]] OBVIOUS
    <2> HIDE DEF g
    <2>4. g = [n \in 0..L |-> IF n = L THEN bound ELSE Install(cf)!Undone(g[n + 1], cs[n + 1])]
      BY <2>2, <2>3, Zenon
    <2> QED BY <2>4 DEF Runs
  <1> QED BY <1>5

LEMMA RestoredRuns ==
  ASSUME NEW cf, NEW cs, Len(cs) \in Nat
  PROVE  \E f : /\ Install(cf)!Restored(cs) = f[0] /\ f[Len(cs)] = bound
                /\ \A n \in 0..Len(cs) : n < Len(cs) => f[n] = Install(cf)!Undone(f[n + 1], cs[n + 1])
  <1> DEFINE g == CHOOSE f : f = [n \in 0..Len(cs) |->
                     IF n = Len(cs) THEN bound ELSE Install(cf)!Undone(f[n + 1], cs[n + 1])]
  <1>1. Install(cf)!Restored(cs) = g[0] BY Zenon DEF Install!Restored
  <1>2. Runs(cf, g, cs)
    <2>1. \E f : Runs(cf, f, cs) BY UndoRuns
    <2> QED BY <2>1, Zenon DEF Runs
  <1> HIDE DEF g
  <1>3. \A n \in 0..Len(cs) : g[n] = IF n = Len(cs) THEN bound ELSE Install(cf)!Undone(g[n + 1], cs[n + 1])
    BY <1>2, Zenon DEF Runs
  <1> QED BY <1>1, <1>3

LEMMA RestoredNone ==
  ASSUME NEW cf
  PROVE  Install(cf)!Restored(<<>>) = bound
  BY RestoredRuns

\* A layer put on top of a value.
LEMMA OnTop ==
  ASSUME NEW S, NEW s \in Seq(S), NEW e \in S
  PROVE  /\ <<e>> \o s \in Seq(S) /\ <<e>> \o s # <<>> /\ (<<e>> \o s)[1] = e
         /\ Range(<<e>> \o s) = {e} \cup Range(s)
  <1> DEFINE t == <<e>> \o s
  <1>1. /\ t \in Seq(S) /\ Len(t) = Len(s) + 1 /\ Len(s) \in Nat /\ t[1] = e
        /\ \A i \in 1..Len(s) : t[i + 1] = s[i]
    OBVIOUS
  <1>2. DOMAIN t = 1..(Len(s) + 1) /\ DOMAIN s = 1..Len(s) BY <1>1, LenProperties
  <1> HIDE DEF t
  <1>3. Range(t) = {t[i] : i \in 1..(Len(s) + 1)} /\ Range(s) = {s[i] : i \in 1..Len(s)}
    BY <1>2 DEF Range
  <1>4. \A i \in 1..(Len(s) + 1) : i = 1 \/ (i - 1 \in 1..Len(s) /\ (i - 1) + 1 = i) BY <1>1
  <1>5. \A i \in 1..(Len(s) + 1) : t[i] = e \/ t[i] \in Range(s)
    <2> SUFFICES ASSUME NEW i \in 1..(Len(s) + 1), i # 1 PROVE t[i] = e \/ t[i] \in Range(s)
      BY <1>1
    <2>1. i - 1 \in 1..Len(s) /\ (i - 1) + 1 = i BY <1>4
    <2>2. t[i] = s[i - 1] BY <2>1, <1>1
    <2> QED BY <2>1, <2>2, <1>3
  <1>6. \A i \in 1..Len(s) : s[i] \in Range(t)
    <2> SUFFICES ASSUME NEW i \in 1..Len(s) PROVE s[i] \in Range(t) OBVIOUS
    <2>1. i + 1 \in 1..(Len(s) + 1) /\ t[i + 1] = s[i] BY <1>1
    <2> QED BY <2>1, <1>3
  <1>7. e \in Range(t) BY <1>1, <1>3
  <1>8. Range(t) = {e} \cup Range(s) BY <1>3, <1>5, <1>6, <1>7
  <1>9. t # <<>> BY <1>1
  <1> QED BY <1>1, <1>8, <1>9 DEF t

\* Values are values again once changes are undone, and the layer of a third
\* party stays: no change put it there.
LEMMA RestoredTyped ==
  ASSUME NEW cf, Install(cf)!Shape, bound \in [cf.Attrs -> Seq(Layers(cf))],
         NEW cs \in Seq(Change(cf)),
         \A i \in 1..Len(cs) : \E u \in UnitsOf(cf), g \in 1..cf.MaxLoads :
             cs[i].value = <<Wrap(u, g)>> \o cs[i].old
  PROVE  /\ Install(cf)!Restored(cs) \in [cf.Attrs -> Seq(Layers(cf))]
         /\ \A a \in cf.Attrs : Wrap("third", 0) \in Range(bound[a])
                => Wrap("third", 0) \in Range(Install(cf)!Restored(cs)[a])
  <1> DEFINE L == Len(cs)
             Third(b) == \A a \in cf.Attrs : Wrap("third", 0) \in Range(bound[a])
                             => Wrap("third", 0) \in Range(b[a])
  <1>0. L \in Nat BY LenProperties
  <1>1. PICK f : /\ Install(cf)!Restored(cs) = f[0] /\ f[L] = bound
                 /\ \A n \in 0..L : n < L => f[n] = Install(cf)!Undone(f[n + 1], cs[n + 1])
    BY ONLY <1>0, RestoredRuns
  <1> DEFINE Good(n) == f[n] \in [cf.Attrs -> Seq(Layers(cf))] /\ Third(f[n])
             Bad == {m \in 1..L : ~Good(L - m)}
  <1>2. Good(L) BY <1>1
  <1>3. ASSUME NEW n \in 0..L, n < L, Good(n + 1) PROVE Good(n)
    <2> DEFINE c == cs[n + 1]
               b == f[n + 1]
    <2>1. n + 1 \in 1..L BY <1>0, <1>3
    <2>2. c \in Change(cf) BY <2>1, ElementOfSeq
    <2>3. PICK u \in UnitsOf(cf), g \in 1..cf.MaxLoads : c.value = <<Wrap(u, g)>> \o c.old
      BY <2>1
    <2>4. c.attr \in cf.Attrs /\ c.old \in Seq(Layers(cf)) BY <2>2 DEF Change
    <2>5. Wrap(u, g) \in Layers(cf) BY DEF Wrap, Layers
    <2>6. Wrap("third", 0) # Wrap(u, g) BY UnitsAre DEF Wrap
    <2>7. Range(c.value) = {Wrap(u, g)} \cup Range(c.old) BY <2>3, <2>4, <2>5, OnTop
    <2>8. f[n] = IF b[c.attr] = c.value THEN [b EXCEPT ![c.attr] = c.old] ELSE b
      BY <1>1, <1>3 DEF Install!Undone
    <2>9. b \in [cf.Attrs -> Seq(Layers(cf))] /\ Third(b) BY <1>3
    <2> HIDE DEF b, c
    <2>10. f[n] \in [cf.Attrs -> Seq(Layers(cf))] BY <2>4, <2>8, <2>9
    <2>11. ASSUME NEW a \in cf.Attrs, Wrap("third", 0) \in Range(bound[a])
           PROVE  Wrap("third", 0) \in Range(f[n][a])
      <3>1. Wrap("third", 0) \in Range(b[a]) BY <2>9, <2>11
      <3>2. CASE b[c.attr] = c.value /\ a = c.attr
        BY <2>8, <2>9, <3>2, <3>1, <2>6, <2>7
      <3>3. CASE ~(b[c.attr] = c.value /\ a = c.attr)
        BY <2>8, <2>9, <3>3, <3>1
      <3> QED BY <3>2, <3>3
    <2> QED BY <2>10, <2>11
  <1> HIDE DEF Good
  <1>4. Bad = {}
    <2> SUFFICES ASSUME Bad # {} PROVE FALSE OBVIOUS
    <2>1. PICK m \in Bad : \A j \in Bad : m <= j
      <3>1. Bad \in SUBSET (1..L) OBVIOUS
      <3> HIDE DEF Bad
      <3> QED BY <1>0, <3>1, LeastIs
    <2>2. m \in 1..L /\ ~Good(L - m) BY <2>1
    <2>3. L - m \in 0..L /\ L - m < L /\ (L - m) + 1 = L - (m - 1) BY <1>0, <2>2
    <2>4. Good(L - (m - 1))
      <3>1. CASE m = 1
        BY <1>0, <3>1, <1>2
      <3>2. CASE m # 1
        <4>1. m - 1 \in 1..L /\ ~(m <= m - 1) BY <2>2, <3>2
        <4> QED BY <4>1, <2>1
      <3> QED BY <3>1, <3>2
    <2> QED BY <2>2, <2>3, <2>4, <1>3
  <1>5. Good(0)
    <2>1. CASE L = 0 BY <2>1, <1>2
    <2>2. CASE L # 0
      <3>1. L \in 1..L /\ L - L = 0 BY <1>0, <2>2
      <3> QED BY <3>1, <1>4
    <2> QED BY <2>1, <2>2
  <1> QED BY <1>1, <1>5 DEF Good

\* What is undone of a unit that is on top of every attribute it holds: each has
\* again what the unit's first change of it found.
LEMMA RestoredIs ==
  ASSUME NEW cf, Install(cf)!Shape, LoadTyped(cf), NEW u \in UnitsOf(cf),
         \A i, j \in Steps(u) :
             /\ i < j /\ Attr(u, i) = Attr(u, j)
             /\ \A m \in Steps(u) : i < m /\ m < j => Attr(u, m) # Attr(u, j)
             => Old(u, j) = Value(u, i),
         \A i \in Nat : Closes(u, i) => bound[Attr(u, i)] = Value(u, i)
  PROVE  /\ \A i \in Nat : Opens(u, i) => Install(cf)!Restored(Changes(u))[Attr(u, i)] = Old(u, i)
         /\ \A a \in cf.Attrs : ~Holds(u, a) => Install(cf)!Restored(Changes(u))[a] = bound[a]
  <1> DEFINE cs == Changes(u)
             L == Len(cs)
  <1>0. /\ L \in Nat /\ cs \in Seq(Change(cf)) /\ Steps(u) = 1..L
        /\ \A i \in 1..L : /\ Attr(u, i) = cs[i].attr /\ Old(u, i) = cs[i].old /\ Value(u, i) = cs[i].value
                           /\ cs[i].attr \in cf.Attrs /\ cs[i].old \in Seq(Layers(cf))
    <2>1. group[u] \in Group(cf) BY DEF LoadTyped
    <2>2. cs \in Seq(Change(cf)) BY <2>1 DEF Group, Changes
    <2>3. \A i \in 1..L : cs[i] \in Change(cf) BY <2>2, ElementOfSeq
    <2>4. L \in Nat BY <2>2, LenProperties
    <2> QED BY <2>2, <2>3, <2>4 DEF Change, Changes, Steps, Attr, Old, Value
  <1>1. PICK f : /\ Install(cf)!Restored(cs) = f[0] /\ f[L] = bound
                 /\ \A n \in 0..L : n < L => f[n] = Install(cf)!Undone(f[n + 1], cs[n + 1])
    BY <1>0, RestoredRuns
  <1> DEFINE Top(n) == \A i \in 1..n : (\A j \in 1..n : i < j => cs[j].attr # cs[i].attr)
                           => f[n][cs[i].attr] = cs[i].value
             Gone(n) == \A i \in 1..L : i > n /\ (\A j \in 1..L : j < i => cs[j].attr # cs[i].attr)
                           => f[n][cs[i].attr] = cs[i].old
             Rest(n) == \A a \in cf.Attrs : (\A i \in 1..L : cs[i].attr # a) => f[n][a] = bound[a]
             Good(n) == f[n] \in [cf.Attrs -> Seq(Layers(cf))] /\ Top(n) /\ Gone(n) /\ Rest(n)
             Bad == {m \in 1..L : ~Good(L - m)}
  <1>2. Good(L)
    <2>1. ASSUME NEW i \in 1..L, \A j \in 1..L : i < j => cs[j].attr # cs[i].attr
          PROVE  bound[cs[i].attr] = cs[i].value
      <3>1. Closes(u, i) BY <1>0, <2>1 DEF Closes
      <3> QED BY <3>1, <1>0
    <2>2. bound \in [cf.Attrs -> Seq(Layers(cf))] BY DEF LoadTyped
    <2> QED BY <2>1, <2>2, <1>0, <1>1
  <1>3. ASSUME NEW n \in 0..L, n < L, Good(n + 1) PROVE Good(n)
    <2> DEFINE c == cs[n + 1]
               b == f[n + 1]
    <2>1. n + 1 \in 1..L /\ n \in Nat BY <1>0, <1>3
    <2>2. c.attr \in cf.Attrs /\ c.old \in Seq(Layers(cf)) BY <1>0, <2>1
    <2>3. b[c.attr] = c.value
      BY <1>3, <2>1
    <2>4. b \in [cf.Attrs -> Seq(Layers(cf))] BY <1>3
    <2>5. f[n] = [b EXCEPT ![c.attr] = c.old]
      BY <1>1, <1>3, <2>3 DEF Install!Undone
    <2>6. f[n] \in [cf.Attrs -> Seq(Layers(cf))] BY <2>2, <2>4, <2>5
    <2>7. f[n][c.attr] = c.old /\ \A a \in cf.Attrs : a # c.attr => f[n][a] = b[a]
      BY <2>2, <2>4, <2>5
    <2> HIDE DEF b
    <2>8. Top(n)
      <3> SUFFICES ASSUME NEW i \in 1..n, \A j \in 1..n : i < j => cs[j].attr # cs[i].attr
                   PROVE  f[n][cs[i].attr] = cs[i].value
        OBVIOUS
      <3>1. i \in 1..L /\ i < n + 1 BY <2>1
      <3>2. CASE cs[i].attr = c.attr
        <4>1. \A m \in Steps(u) : i < m /\ m < n + 1 => Attr(u, m) # Attr(u, n + 1)
          <5> SUFFICES ASSUME NEW m \in 1..L, i < m, m < n + 1 PROVE cs[m].attr # cs[n + 1].attr
            BY <1>0, <2>1
          <5>1. m \in 1..n BY <2>1
          <5> QED BY <5>1, <3>2
        <4>2. Old(u, n + 1) = Value(u, i) BY <4>1, <3>1, <3>2, <2>1, <1>0
        <4> QED BY <4>2, <3>1, <3>2, <2>1, <2>7, <1>0
      <3>3. CASE cs[i].attr # c.attr
        <4>1. \A j \in 1..(n + 1) : i < j => cs[j].attr # cs[i].attr
          <5> SUFFICES ASSUME NEW j \in 1..(n + 1), i < j PROVE cs[j].attr # cs[i].attr OBVIOUS
          <5>1. j \in 1..n \/ j = n + 1 BY <2>1
          <5> QED BY <5>1, <3>3
        <4>2. i \in 1..(n + 1) /\ Top(n + 1) BY <1>3, <2>1
        <4>3. b[cs[i].attr] = cs[i].value BY <4>1, <4>2 DEF b
        <4> QED BY <4>3, <3>1, <3>3, <2>7, <1>0
      <3> QED BY <3>2, <3>3
    <2>9. Gone(n)
      <3> SUFFICES ASSUME NEW i \in 1..L, i > n, \A j \in 1..L : j < i => cs[j].attr # cs[i].attr
                   PROVE  f[n][cs[i].attr] = cs[i].old
        OBVIOUS
      <3>1. CASE i = n + 1 BY <3>1, <2>7
      <3>2. CASE i # n + 1
        <4>1. i > n + 1 /\ n + 1 < i BY <3>2, <2>1
        <4>2. c.attr # cs[i].attr BY <4>1, <2>1
        <4>3. b[cs[i].attr] = cs[i].old
          BY <1>3, <4>1 DEF b
        <4> QED BY <4>2, <4>3, <2>7, <1>0
      <3> QED BY <3>1, <3>2
    <2>10. Rest(n)
      <3> SUFFICES ASSUME NEW a \in cf.Attrs, \A i \in 1..L : cs[i].attr # a PROVE f[n][a] = bound[a]
        OBVIOUS
      <3>1. Rest(n + 1) BY <1>3
      <3>2. b[a] = bound[a] BY <3>1 DEF b
      <3> QED BY <3>2, <2>1, <2>7
    <2> QED BY <2>6, <2>8, <2>9, <2>10
  <1> HIDE DEF Good
  <1>4. Bad = {}
    <2> SUFFICES ASSUME Bad # {} PROVE FALSE OBVIOUS
    <2>1. PICK m \in Bad : \A j \in Bad : m <= j
      <3>1. Bad \in SUBSET (1..L) OBVIOUS
      <3> HIDE DEF Bad
      <3> QED BY <1>0, <3>1, LeastIs
    <2>2. m \in 1..L /\ ~Good(L - m) BY <2>1
    <2>3. L - m \in 0..L /\ L - m < L /\ (L - m) + 1 = L - (m - 1) BY <1>0, <2>2
    <2>4. Good(L - (m - 1))
      <3>1. CASE m = 1
        BY <1>0, <3>1, <1>2
      <3>2. CASE m # 1
        <4>1. m - 1 \in 1..L /\ ~(m <= m - 1) BY <2>2, <3>2
        <4> QED BY <4>1, <2>1
      <3> QED BY <3>1, <3>2
    <2> QED BY <2>2, <2>3, <2>4, <1>3
  <1>5. Good(0)
    <2>1. CASE L = 0 BY <2>1, <1>2
    <2>2. CASE L # 0
      <3>1. L \in 1..L /\ L - L = 0 BY <1>0, <2>2
      <3> QED BY <3>1, <1>4
    <2> QED BY <2>1, <2>2
  <1>6. Gone(0) /\ Rest(0) BY <1>5 DEF Good
  <1>7. ASSUME NEW i \in Nat, Opens(u, i) PROVE f[0][Attr(u, i)] = Old(u, i)
    BY <1>0, <1>7, <1>6 DEF Opens
  <1>8. ASSUME NEW a \in cf.Attrs, ~Holds(u, a) PROVE f[0][a] = bound[a]
    BY <1>0, <1>8, <1>6 DEF Holds
  <1> QED BY <1>1, <1>7, <1>8

\* What a load that is under way, and its unit, are.
LEMMA LoadIs ==
  ASSUME NEW cf, Install(cf)!Shape, LoadTyped(cf)
  PROVE  /\ load = Idle <=> load = Install(cf)!NoLoad
         /\ load # Idle => load \in [owner : cf.Owners, at : 1..(Len(cf.Units) + 1), step : Nat, abandoned : BOOLEAN]
         /\ load # Idle => loads \in 1..cf.MaxLoads /\ load.owner \in cf.Owners /\ load.owner # "none"
         /\ load = Idle => load.owner = "none" /\ load.at = 0 /\ load.step = 0 /\ load.abandoned = FALSE
         /\ Install(cf)!InUnit => load # Idle /\ Install(cf)!Unit \in UnitsOf(cf)
                                  /\ Install(cf)!Unit = cf.Units[load.at]
                                  /\ Place(cf, Install(cf)!Unit) = load.at
         /\ load.step \in Nat /\ load.at \in 0..(Len(cf.Units) + 1)
         /\ \A u : Busy(cf, u) <=> Install(cf)!InUnit /\ load.step > 0 /\ u = Install(cf)!Unit
  <1>1. /\ Len(cf.Units) \in Nat
        /\ \A k \in 1..Len(cf.Units) : cf.Units[k] \in UnitsOf(cf) /\ Place(cf, cf.Units[k]) = k
        /\ cf.MaxLoads \in Nat /\ "none" \notin cf.Owners
    BY UnitsAre
  <1>2. \/ load = Idle
        \/ load \in [owner : cf.Owners, at : 1..(Len(cf.Units) + 1), step : Nat, abandoned : BOOLEAN]
           /\ loads > 0
    BY DEF LoadTyped
  <1>3. loads \in 0..cf.MaxLoads BY DEF LoadTyped
  <1>4. load = Idle => load.owner = "none" /\ load.at = 0 /\ load.step = 0 /\ load.abandoned = FALSE
    BY DEF Idle
  <1>5. load = Idle <=> load = Install(cf)!NoLoad BY DEF Idle, Install!NoLoad
  <1>6. Install(cf)!InUnit <=> load.at \in 1..Len(cf.Units) BY DEF Install!InUnit
  <1>7. Install(cf)!Unit = cf.Units[load.at] BY DEF Install!Unit
  <1>8. load # Idle => load.owner \in cf.Owners /\ load.at \in 1..(Len(cf.Units) + 1) /\ load.step \in Nat
                       /\ loads > 0
    BY <1>2
  <1>9. \A u : Busy(cf, u) <=> Install(cf)!InUnit /\ load.step > 0 /\ u = Install(cf)!Unit
    BY <1>6, <1>7 DEF Busy
  <1>10. load # Idle => loads \in 1..cf.MaxLoads /\ load.owner # "none" BY <1>1, <1>3, <1>8
  <1>11. load.step \in Nat /\ load.at \in 0..(Len(cf.Units) + 1) BY <1>1, <1>4, <1>8
  <1>12. Install(cf)!InUnit => load # Idle BY <1>4, <1>6
  <1> HIDE DEF Idle
  <1> QED BY <1>1, <1>2, <1>4, <1>5, <1>6, <1>7, <1>8, <1>9, <1>10, <1>11, <1>12

\* A record of a group and of its changes.
LEMMA GroupIs ==
  ASSUME NEW cf, LoadTyped(cf), NEW u \in UnitsOf(cf)
  PROVE  /\ group[u] \in Group(cf) /\ group[u].gen \in 0..cf.MaxLoads
         /\ group[u].owners \in SUBSET cf.Owners
         /\ group[u] = [gen |-> group[u].gen, owners |-> group[u].owners, changes |-> group[u].changes]
         /\ Changes(u) \in Seq(Change(cf)) /\ Len(Changes(u)) \in Nat /\ Steps(u) = 1..Len(Changes(u))
         /\ \A i \in Steps(u) : /\ Changes(u)[i] \in Change(cf) /\ Attr(u, i) \in cf.Attrs
                                /\ Old(u, i) \in Seq(Layers(cf)) /\ Value(u, i) \in Seq(Layers(cf))
                                /\ Changes(u)[i].value = Value(u, i) /\ Changes(u)[i].old = Old(u, i)
  <1>1. group[u] \in Group(cf) BY DEF LoadTyped
  <1>2. Changes(u) \in Seq(Change(cf)) /\ Steps(u) = 1..Len(Changes(u)) BY <1>1 DEF Group, Changes, Steps
  <1>3. \A i \in Steps(u) : Changes(u)[i] \in Change(cf) BY <1>2, ElementOfSeq
  <1>4. Len(Changes(u)) \in Nat BY <1>2, LenProperties
  <1>5. group[u] = [gen |-> group[u].gen, owners |-> group[u].owners, changes |-> group[u].changes]
        /\ group[u].gen \in 0..cf.MaxLoads /\ group[u].owners \in SUBSET cf.Owners
    BY <1>1 DEF Group
  <1>6. \A i \in Steps(u) : /\ Attr(u, i) \in cf.Attrs
                            /\ Old(u, i) \in Seq(Layers(cf)) /\ Value(u, i) \in Seq(Layers(cf))
    BY <1>3 DEF Change, Attr, Old, Value, Changes
  <1> QED BY <1>1, <1>2, <1>3, <1>4, <1>5, <1>6 DEF Value, Old, Changes

\* A release takes the group away with its last owner, takes one owner of
\* several, or finds the group gone or another one in its place.
Drops(cf, u, o) ==
    /\ group[u] # Unpublished /\ group[u].owners \ {o} = {}
    /\ bound' = Install(cf)!Restored(Changes(u)) /\ group' = [group EXCEPT ![u] = Unpublished]
Leaves(u, o) ==
    /\ group[u].owners \ {o} # {} /\ bound' = bound
    /\ group' = [group EXCEPT ![u].owners = @ \ {o}]

LEMMA ReleaseIs ==
  ASSUME NEW cf, Install(cf)!Shape, LoadTyped(cf), GroupsFit(cf), NEW u \in UnitsOf(cf),
         NEW gen, NEW o, NEW gone, NEW staying, Install(cf)!Release(u, gen, o, gone, staying)
  PROVE  /\ manifest' \in {[manifest EXCEPT ![u] = gone], [manifest EXCEPT ![u] = staying]}
         /\ \/ Drops(cf, u, o) /\ group[u].gen = gen /\ manifest' = [manifest EXCEPT ![u] = gone]
            \/ Leaves(u, o) /\ group[u].gen = gen /\ manifest' = [manifest EXCEPT ![u] = staying]
            \/ bound' = bound /\ group' = group /\ (group[u].gen = gen => group[u] = Unpublished)
  <1>1. Install(cf)!NoGroup = Unpublished BY DEF Install!NoGroup, Unpublished
  <1>2. CASE Install(cf)!LastOf(u, gen, o)
    <2>1. /\ bound' = Install(cf)!Restored(group[u].changes)
          /\ group' = [group EXCEPT ![u] = Unpublished] /\ manifest' = [manifest EXCEPT ![u] = gone]
      BY <1>1, <1>2 DEF Install!Release
    <2>2. group[u].gen = gen /\ group[u].owners \ {o} = {} BY <1>2 DEF Install!LastOf
    <2>3. CASE group[u] = Unpublished
      <3>1. group[u].changes = <<>> BY <2>3 DEF Unpublished
      <3>2. bound' = bound BY <2>1, <3>1, RestoredNone
      <3>3. group' = group
        <4>1. group \in [UnitsOf(cf) -> Group(cf)] BY DEF LoadTyped
        <4> HIDE DEF Unpublished
        <4> QED BY <4>1, <2>1, <2>3
      <3> QED BY <2>1, <2>3, <3>2, <3>3
    <2>4. CASE group[u] # Unpublished BY <2>1, <2>2, <2>4 DEF Drops, Changes
    <2> QED BY <2>3, <2>4
  <1>3. CASE ~Install(cf)!LastOf(u, gen, o)
    BY <1>3 DEF Install!Release, Install!LastOf, Leaves
  <1> QED BY <1>2, <1>3

LEMMA DropIs ==
  ASSUME NEW cf, LoadTyped(cf), NEW u \in UnitsOf(cf), NEW o, Drops(cf, u, o)
  PROVE  /\ group'[u] = Unpublished /\ Steps(u)' = {} /\ group'[u].owners = {} /\ group'[u].gen = 0
         /\ \A v \in UnitsOf(cf) : v # u => group'[v] = group[v]
         /\ DOMAIN group' = UnitsOf(cf)
  <1>1. group \in [UnitsOf(cf) -> Group(cf)] BY DEF LoadTyped
  <1>2. group' = [group EXCEPT ![u] = Unpublished] BY DEF Drops
  <1>3. group'[u] = Unpublished /\ (\A v \in UnitsOf(cf) : v # u => group'[v] = group[v])
        /\ DOMAIN group' = UnitsOf(cf)
    <2> HIDE DEF Unpublished
    <2> QED BY <1>1, <1>2
  <1>4. Steps(u)' = 1..Len(group'[u].changes) BY DEF Steps
  <1>5. Steps(u)' = {} BY <1>3, <1>4 DEF Unpublished
  <1>6. group'[u].owners = {} /\ group'[u].gen = 0 BY <1>3 DEF Unpublished
  <1> QED BY <1>3, <1>5, <1>6

LEMMA LeaveIs ==
  ASSUME NEW cf, LoadTyped(cf), NEW u \in UnitsOf(cf), NEW o, Leaves(u, o)
  PROVE  /\ group'[u].owners = group[u].owners \ {o} /\ group'[u].owners # {}
         /\ group'[u].gen = group[u].gen /\ group'[u].changes = group[u].changes
         /\ group'[u] \in Group(cf) /\ group'[u] # Unpublished
         /\ \A v \in UnitsOf(cf) : v # u => group'[v] = group[v]
         /\ DOMAIN group' = UnitsOf(cf)
  <1>1. group \in [UnitsOf(cf) -> Group(cf)] BY DEF LoadTyped
  <1>2. group' = [group EXCEPT ![u].owners = @ \ {o}] /\ group[u].owners \ {o} # {} BY DEF Leaves
  <1>3. group'[u] = [group[u] EXCEPT !.owners = @ \ {o}] /\ (\A v \in UnitsOf(cf) : v # u => group'[v] = group[v])
        /\ DOMAIN group' = UnitsOf(cf)
    BY <1>1, <1>2
  <1>4. group[u] \in Group(cf) BY <1>1
  <1>5. /\ group'[u].owners = group[u].owners \ {o} /\ group'[u].gen = group[u].gen
        /\ group'[u].changes = group[u].changes /\ group'[u] \in Group(cf)
    BY <1>3, <1>4 DEF Group
  <1>6. group'[u] # Unpublished BY <1>2, <1>5 DEF Unpublished
  <1> QED BY <1>2, <1>3, <1>5, <1>6

LEMMA OwnedIsPublished ==
  ASSUME NEW x, NEW o, o \in x.owners
  PROVE  x # Unpublished
  BY DEF Unpublished

\* What a load does when it comes to a unit, and when it sets a binding.
Entered(cf, u, o, g) ==
    /\ u \in UnitsOf(cf) /\ o \in cf.Owners /\ g \in 1..loads /\ g \in 1..cf.MaxLoads
    /\ load # Idle /\ load.step = 0 /\ ~load.abandoned /\ o \notin group[u].owners
    /\ u = cf.Units[load.at] /\ load.at \in 1..Len(cf.Units)
    /\ group'[u].owners = group[u].owners \cup {o} /\ group'[u].gen = g
    /\ group'[u].changes = group[u].changes /\ group'[u] \in Group(cf) /\ group'[u] # Unpublished
    /\ \A v \in UnitsOf(cf) : v # u => group'[v] = group[v]
    /\ DOMAIN group' = UnitsOf(cf)
    /\ leases' = [leases EXCEPT ![o] = Append(@, [unit |-> u, gen |-> g])]
    /\ load' = IF group[u] = Unpublished THEN [load EXCEPT !.step = 1]
               ELSE [load EXCEPT !.at = @ + 1, !.step = 0]
    /\ UNCHANGED <<bound, foreign, manifest, rows, leaving, kept, loads>>

LEMMA EnterIs ==
  ASSUME NEW cf, Install(cf)!Shape, LoadTyped(cf), GroupsFit(cf), Install(cf)!Enter,
         NEW u, u = Install(cf)!Unit, NEW o, o = load.owner,
         NEW g, g = IF group[u] = Unpublished THEN loads ELSE group[u].gen
  PROVE  Entered(cf, u, o, g)
  <1> DEFINE e == [group EXCEPT ![u].gen = g, ![u].owners = @ \cup {o}]
  <1>1. Install(cf)!NoGroup = Unpublished BY DEF Install!NoGroup, Unpublished
  <1>2. /\ Install(cf)!InUnit /\ load.step = 0 /\ o \notin group[u].owners /\ ~load.abandoned
        /\ group' = e
        /\ leases' = [leases EXCEPT ![o] = Append(@, [unit |-> u, gen |-> g])]
        /\ load' = IF group[u] = Unpublished THEN [load EXCEPT !.step = 1]
                   ELSE [load EXCEPT !.at = @ + 1, !.step = 0]
        /\ UNCHANGED <<bound, foreign, manifest, rows, leaving, kept, loads>>
    BY <1>1 DEF Install!Enter, Install!Refused, Install!Fresh, Install!NextUnit
  <1>3. u \in UnitsOf(cf) /\ o \in cf.Owners /\ loads \in 1..cf.MaxLoads /\ load # Idle
        /\ u = cf.Units[load.at]
    BY <1>2, LoadIs
  <1>4. load.at \in 1..Len(cf.Units) BY <1>2 DEF Install!InUnit
  <1>5. group \in [UnitsOf(cf) -> Group(cf)] /\ group[u] \in Group(cf) BY <1>3 DEF LoadTyped
  <1>6. g \in 1..loads /\ g \in 1..cf.MaxLoads
    <2>1. group[u] # Unpublished => group[u].gen \in 1..loads BY <1>3 DEF GroupsFit
    <2>2. cf.MaxLoads \in Nat BY UnitsAre
    <2> QED BY <1>3, <2>1, <2>2
  <1>7. group'[u] = [group[u] EXCEPT !.gen = g, !.owners = @ \cup {o}]
        /\ (\A v \in UnitsOf(cf) : v # u => group'[v] = group[v]) /\ DOMAIN group' = UnitsOf(cf)
    BY <1>2, <1>3, <1>5
  <1>8. /\ group'[u].owners = group[u].owners \cup {o} /\ group'[u].gen = g
        /\ group'[u].changes = group[u].changes /\ group'[u] \in Group(cf)
    <2>1. g \in 0..cf.MaxLoads /\ cf.MaxLoads \in Nat BY <1>6, UnitsAre
    <2>2. group[u].owners \cup {o} \in SUBSET cf.Owners BY <1>3, <1>5 DEF Group
    <2> QED BY <2>1, <2>2, <1>5, <1>7 DEF Group
  <1>9. group'[u] # Unpublished
    BY <1>8, OwnedIsPublished
  <1> HIDE DEF e
  <1> QED BY <1>2, <1>3, <1>4, <1>6, <1>7, <1>8, <1>9 DEF Entered

\* The list of leases a lease is added to, and the one whose last is gone.
LEMMA LeaseAdded ==
  ASSUME NEW cf, leases \in [cf.Owners -> Seq(Lease(cf))], NEW o \in cf.Owners, NEW l \in Lease(cf),
         leases' = [leases EXCEPT ![o] = Append(@, l)]
  PROVE  /\ leases' \in [cf.Owners -> Seq(Lease(cf))]
         /\ Len(leases'[o]) = Len(leases[o]) + 1 /\ Len(leases[o]) \in Nat
         /\ leases'[o][Len(leases[o]) + 1] = l
         /\ \A p \in 1..Len(leases[o]) : leases'[o][p] = leases[o][p]
         /\ \A v \in cf.Owners : v # o => leases'[v] = leases[v]
  BY LenProperties, AppendProperties

LEMMA LeaseGone ==
  ASSUME NEW cf, leases \in [cf.Owners -> Seq(Lease(cf))], NEW o \in cf.Owners, leases[o] # <<>>,
         leases' = [leases EXCEPT ![o] = SubSeq(@, 1, Len(leases[o]) - 1)]
  PROVE  /\ leases' \in [cf.Owners -> Seq(Lease(cf))]
         /\ Len(leases'[o]) = Len(leases[o]) - 1 /\ Len(leases[o]) \in Nat \ {0}
         /\ \A p \in 1..Len(leases'[o]) : leases'[o][p] = leases[o][p] /\ p \in 1..Len(leases[o])
         /\ \A v \in cf.Owners : v # o => leases'[v] = leases[v]
  <1> DEFINE s == leases[o]
             n == Len(leases[o])
  <1>1. s \in Seq(Lease(cf)) /\ n \in Nat \ {0}
    <2>1. s \in Seq(Lease(cf)) OBVIOUS
    <2> HIDE DEF s
    <2>2. s # <<>> BY DEF s
    <2> QED BY <2>1, <2>2, EmptySeq, LenProperties DEF s
  <1>2. leases'[o] = SubSeq(s, 1, n - 1) /\ (\A v \in cf.Owners : v # o => leases'[v] = leases[v]) OBVIOUS
  <1> HIDE DEF s
  <1>3. /\ SubSeq(s, 1, n - 1) \in Seq(Lease(cf)) /\ Len(SubSeq(s, 1, n - 1)) = n - 1
        /\ \A p \in 1..(n - 1) : SubSeq(s, 1, n - 1)[p] = s[p]
    BY <1>1, SMT DEF s
  <1>4. leases' \in [cf.Owners -> Seq(Lease(cf))] BY <1>2, <1>3
  <1> QED BY <1>1, <1>2, <1>3, <1>4 DEF s

LEMMA LeasesAre ==
  ASSUME NEW cf, LoadTyped(cf), NEW o \in cf.Owners
  PROVE  /\ leases[o] \in Seq(Lease(cf)) /\ Len(leases[o]) \in Nat
         /\ leases[o] # <<>> => Len(leases[o]) \in 1..Len(leases[o])
         /\ \A p \in 1..Len(leases[o]) :
                /\ leases[o][p] \in Lease(cf)
                /\ leases[o][p].unit \in UnitsOf(cf) /\ leases[o][p].gen \in Nat \ {0}
                /\ leases[o][p] = [unit |-> leases[o][p].unit, gen |-> leases[o][p].gen]
         /\ Range(leases[o]) = {leases[o][p] : p \in 1..Len(leases[o])}
  <1>1. leases[o] \in Seq(Lease(cf)) BY DEF LoadTyped
  <1>2. Len(leases[o]) \in Nat /\ DOMAIN leases[o] = 1..Len(leases[o]) BY <1>1, LenProperties
  <1>3. \A p \in 1..Len(leases[o]) : leases[o][p] \in Lease(cf) BY <1>1, ElementOfSeq
  <1>4. leases[o] # <<>> => Len(leases[o]) # 0 BY <1>1, EmptySeq
  <1>5. Range(leases[o]) = {leases[o][p] : p \in 1..Len(leases[o])} BY <1>2, Zenon DEF Range
  <1>6. \A p \in 1..Len(leases[o]) :
            /\ leases[o][p].unit \in UnitsOf(cf) /\ leases[o][p].gen \in Nat \ {0}
            /\ leases[o][p] = [unit |-> leases[o][p].unit, gen |-> leases[o][p].gen]
    BY <1>3 DEF Lease
  <1> QED BY <1>1, <1>2, <1>3, <1>4, <1>5, <1>6

Binding(cf, u, i, a) ==
    /\ u \in UnitsOf(cf) /\ Busy(cf, u) /\ a \in cf.Attrs /\ i \in 1..Len(cf.Binds[u])
    /\ i = Len(Changes(u)) + 1 /\ Len(Changes(u)) \in Nat
    /\ u = cf.Units[load.at] /\ load.at \in 1..Len(cf.Units) /\ load # Idle
    /\ group[u].gen \in 1..cf.MaxLoads
    /\ bound' = [bound EXCEPT ![a] = <<Wrap(u, group[u].gen)>> \o bound[a]]
    /\ group'[u].owners = group[u].owners /\ group'[u].gen = group[u].gen
    /\ group'[u] \in Group(cf) /\ group'[u] # Unpublished
    /\ \A v \in UnitsOf(cf) : v # u => group'[v] = group[v]
    /\ DOMAIN group' = UnitsOf(cf)
    /\ Steps(u)' = Steps(u) \cup {i} /\ Len(Changes(u)') = i /\ i \notin Steps(u)
    /\ \A j \in Steps(u) : /\ Attr(u, j)' = Attr(u, j) /\ Old(u, j)' = Old(u, j)
                           /\ Value(u, j)' = Value(u, j) /\ j < i
    /\ Attr(u, i)' = a /\ Old(u, i)' = bound[a]
    /\ Value(u, i)' = <<Wrap(u, group[u].gen)>> \o bound[a]
    /\ load' = [load EXCEPT !.step = @ + 1]
    /\ UNCHANGED <<foreign, manifest, rows, leases, leaving, kept, loads>>

LEMMA BindIs ==
  ASSUME NEW cf, Install(cf)!Shape, LoadTyped(cf), GroupsFit(cf), Install(cf)!Bind,
         NEW u, u = Install(cf)!Unit, NEW i, i = load.step, NEW a, a = cf.Binds[u][i]
  PROVE  Binding(cf, u, i, a)
  <1> DEFINE x == <<Wrap(u, group[u].gen)>> \o bound[a]
             c == [attr |-> a, old |-> bound[a], value |-> x]
  <1>1. /\ Install(cf)!InUnit /\ i \in 1..Len(cf.Binds[u])
        /\ bound' = [bound EXCEPT ![a] = x]
        /\ group' = [group EXCEPT ![u].changes = Append(@, c)]
        /\ load' = [load EXCEPT !.step = @ + 1]
        /\ UNCHANGED <<foreign, manifest, rows, leases, leaving, kept, loads>>
    BY DEF Install!Bind, Install!Layer, Wrap
  <1>2. u \in UnitsOf(cf) /\ load # Idle /\ u = cf.Units[load.at] BY <1>1, LoadIs
  <1>3. load.at \in 1..Len(cf.Units) BY <1>1 DEF Install!InUnit
  <1>4. a \in cf.Attrs /\ Len(cf.Binds[u]) \in Nat BY <1>1, <1>2, BindsAre
  <1>5. Busy(cf, u)
    <2>1. load.step > 0 BY <1>1, <1>4
    <2> QED BY <2>1, <1>1, <1>2, LoadIs
  <1>6. Len(Changes(u)) = i - 1 /\ group[u].owners = {load.owner} BY <1>2, <1>5 DEF GroupsFit
  <1>7. i = Len(Changes(u)) + 1 /\ Len(Changes(u)) \in Nat 
    <2>1. Len(Changes(u)) \in Nat BY <1>2, GroupIs
    <2>2. i \in Nat BY <1>1, <1>4
    <2> QED BY <2>1, <2>2, <1>6
  <1>8. group[u].gen \in 1..cf.MaxLoads
    <2>1. group[u] # Unpublished
      BY <1>6, OwnedIsPublished
    <2>2. group[u].gen \in 1..loads BY <1>2, <2>1 DEF GroupsFit
    <2>3. loads \in 0..cf.MaxLoads /\ cf.MaxLoads \in Nat BY UnitsAre DEF LoadTyped
    <2> QED BY <2>2, <2>3
  <1>9. c \in Change(cf)
    <2>1. bound[a] \in Seq(Layers(cf)) BY <1>4 DEF LoadTyped
    <2>2. Wrap(u, group[u].gen) \in Layers(cf) BY <1>2, <1>8 DEF Wrap, Layers
    <2>3. x \in Seq(Layers(cf)) BY <2>1, <2>2, OnTop
    <2> HIDE DEF x
    <2> QED BY <1>4, <2>1, <2>3 DEF Change
  <1>10. group \in [UnitsOf(cf) -> Group(cf)] BY DEF LoadTyped
  <1> HIDE DEF c, x
  <1>11. group'[u] = [group[u] EXCEPT !.changes = Append(@, c)]
         /\ (\A v \in UnitsOf(cf) : v # u => group'[v] = group[v]) /\ DOMAIN group' = UnitsOf(cf)
    BY <1>1, <1>2, <1>10
  <1>12. /\ Changes(u) \in Seq(Change(cf)) /\ group[u] \in Group(cf) /\ Steps(u) = 1..Len(Changes(u))
    BY <1>2, GroupIs
  <1>13. Changes(u)' = Append(Changes(u), c) /\ group'[u].owners = group[u].owners
         /\ group'[u].gen = group[u].gen
    BY <1>11, <1>12 DEF Changes, Group
  <1>14. /\ Append(Changes(u), c) \in Seq(Change(cf)) /\ Len(Append(Changes(u), c)) = Len(Changes(u)) + 1
         /\ \A j \in 1..Len(Changes(u)) : Append(Changes(u), c)[j] = Changes(u)[j]
         /\ Append(Changes(u), c)[Len(Changes(u)) + 1] = c
    BY <1>9, <1>12, AppendProperties
  <1>15. group'[u] \in Group(cf)
    BY <1>14, <1>11, <1>12 DEF Changes, Group
  <1>16. group'[u] # Unpublished
    BY <1>6, <1>13, OwnedIsPublished
  <1>17. Steps(u)' = 1..i /\ Len(Changes(u)') = i BY <1>7, <1>13, <1>14 DEF Steps, Changes
  <1>18. Steps(u)' = Steps(u) \cup {i} /\ i \notin Steps(u) /\ \A j \in Steps(u) : j < i
    BY <1>7, <1>12, <1>17
  <1>19. \A j \in Steps(u) : Changes(u)'[j] = Changes(u)[j] BY <1>12, <1>13, <1>14
  <1>20. Changes(u)'[i] = c BY <1>7, <1>13, <1>14
  <1>21. \A j \in Steps(u) : Attr(u, j)' = Attr(u, j) /\ Old(u, j)' = Old(u, j) /\ Value(u, j)' = Value(u, j)
    BY <1>19 DEF Attr, Old, Value, Changes
  <1>22. Attr(u, i)' = a /\ Old(u, i)' = bound[a] /\ Value(u, i)' = x
    BY <1>20 DEF Attr, Old, Value, Changes, c
  <1> QED
    BY <1>1, <1>2, <1>3, <1>4, <1>5, <1>7, <1>8, <1>11, <1>13, <1>15, <1>16, <1>17, <1>18, <1>21, <1>22
    DEF x, Binding

\* A step that leaves the groups alone; a unit that was busy and no longer is
\* has all its bindings.
LEMMA GroupsRest ==
  ASSUME NEW cf, Install(cf)!Shape, LoadTyped(cf), GroupsFit(cf), group' = group,
         loads \in Nat, loads' \in Nat, loads <= loads',
         \A u \in UnitsOf(cf) : Busy(cf, u)' => Busy(cf, u) /\ load'.owner = load.owner /\ load'.step = load.step,
         \A u \in UnitsOf(cf) : Busy(cf, u) /\ ~Busy(cf, u)' => Len(Changes(u)) = Len(cf.Binds[u])
  PROVE  GroupsFit(cf)'
  <1> SUFFICES ASSUME NEW u \in UnitsOf(cf)
               PROVE  /\ group'[u] # Unpublished => group'[u].owners # {} /\ group'[u].gen \in 1..loads'
                      /\ \A i \in Steps(u)' : /\ i <= Len(cf.Binds[u]) /\ Attr(u, i)' = cf.Binds[u][i]
                                              /\ Value(u, i)' = <<Wrap(u, group'[u].gen)>> \o Old(u, i)'
                      /\ Busy(cf, u)' => /\ group'[u].owners = {load'.owner} /\ Len(Changes(u)') = load'.step - 1
                                         /\ load'.step <= Len(cf.Binds[u]) + 1
                      /\ ~Busy(cf, u)' /\ group'[u] # Unpublished => Len(Changes(u)') = Len(cf.Binds[u])
    BY DEF GroupsFit
  <1>1. /\ Steps(u)' = Steps(u) /\ Changes(u)' = Changes(u)
        /\ \A i : Attr(u, i)' = Attr(u, i) /\ Value(u, i)' = Value(u, i) /\ Old(u, i)' = Old(u, i)
    BY DEF Steps, Changes, Attr, Value, Old
  <1>2. /\ group[u] # Unpublished => group[u].owners # {} /\ group[u].gen \in 1..loads
        /\ \A i \in Steps(u) : /\ i <= Len(cf.Binds[u]) /\ Attr(u, i) = cf.Binds[u][i]
                               /\ Value(u, i) = <<Wrap(u, group[u].gen)>> \o Old(u, i)
        /\ Busy(cf, u) => /\ group[u].owners = {load.owner} /\ Len(Changes(u)) = load.step - 1
                          /\ load.step <= Len(cf.Binds[u]) + 1
        /\ ~Busy(cf, u) /\ group[u] # Unpublished => Len(Changes(u)) = Len(cf.Binds[u])
    BY DEF GroupsFit
  <1>3. group[u].gen \in 1..loads => group[u].gen \in 1..loads' BY SMT
  <1> QED BY <1>1, <1>2, <1>3

\* The load goes on to the next unit, or does not move.
LEMMA NextUnitIs ==
  ASSUME NEW cf, Install(cf)!Shape, LoadTyped(cf), Install(cf)!InUnit,
         load' = Install(cf)!NextUnit
  PROVE  /\ load' \in [owner : cf.Owners, at : 1..(Len(cf.Units) + 1), step : Nat, abandoned : BOOLEAN]
         /\ load'.owner = load.owner /\ load'.abandoned = load.abandoned
         /\ load'.at = load.at + 1 /\ load'.step = 0 /\ load' # Idle
         /\ \A u : ~Busy(cf, u)'
  <1>1. load \in [owner : cf.Owners, at : 1..(Len(cf.Units) + 1), step : Nat, abandoned : BOOLEAN]
        /\ load.owner # "none"
    BY LoadIs
  <1>2. load.at \in 1..Len(cf.Units) /\ Len(cf.Units) \in Nat BY UnitsAre DEF Install!InUnit
  <1>3. load' = [load EXCEPT !.at = @ + 1, !.step = 0] BY DEF Install!NextUnit
  <1>4. load.at + 1 \in 1..(Len(cf.Units) + 1) BY <1>2
  <1>5. /\ load' \in [owner : cf.Owners, at : 1..(Len(cf.Units) + 1), step : Nat, abandoned : BOOLEAN]
        /\ load'.owner = load.owner /\ load'.abandoned = load.abandoned
        /\ load'.at = load.at + 1 /\ load'.step = 0
    <2>1. load' = [owner |-> load.owner, at |-> load.at + 1, step |-> 0, abandoned |-> load.abandoned]
      BY <1>1, <1>3
    <2>2. load.owner \in cf.Owners /\ load.abandoned \in BOOLEAN BY <1>1
    <2> QED BY <2>1, <2>2, <1>4
  <1>6. \A u : ~Busy(cf, u)' BY <1>5 DEF Busy
  <1>7. load' # Idle BY <1>1, <1>5 DEF Idle
  <1> QED BY <1>5, <1>6, <1>7

LEMMA BusyIs ==
  ASSUME NEW cf, Install(cf)!Shape, LoadTyped(cf), GroupsFit(cf), NEW u \in UnitsOf(cf), Busy(cf, u)
  PROVE  /\ group[u] # Unpublished /\ group[u].owners = {load.owner} /\ load # Idle
         /\ load.owner \in cf.Owners /\ load.step \in 1..(Len(cf.Binds[u]) + 1)
         /\ Install(cf)!InUnit /\ u = Install(cf)!Unit /\ Place(cf, u) = load.at
  <1>1. group[u].owners = {load.owner} /\ load.step <= Len(cf.Binds[u]) + 1 BY DEF GroupsFit
  <1>2. group[u] # Unpublished BY <1>1, OwnedIsPublished
  <1>3. Len(cf.Binds[u]) \in Nat BY BindsAre
  <1>4. /\ Install(cf)!InUnit /\ load.step > 0 /\ u = Install(cf)!Unit /\ load # Idle
        /\ load.step \in Nat /\ Place(cf, u) = load.at /\ load.owner \in cf.Owners
    BY LoadIs
  <1> QED BY <1>1, <1>2, <1>3, <1>4

\* What a unit's changes are, wherever they come from.
LEMMA ValuesAre ==
  ASSUME NEW cf, Install(cf)!Shape, LoadTyped(cf), GroupsFit(cf), NEW u \in UnitsOf(cf)
  PROVE  \A i \in 1..Len(Changes(u)) : \E y \in UnitsOf(cf), g \in 1..cf.MaxLoads :
             Changes(u)[i].value = <<Wrap(y, g)>> \o Changes(u)[i].old
  <1> SUFFICES ASSUME NEW i \in 1..Len(Changes(u))
               PROVE  \E y \in UnitsOf(cf), g \in 1..cf.MaxLoads :
                          Changes(u)[i].value = <<Wrap(y, g)>> \o Changes(u)[i].old
    OBVIOUS
  <1>1. i \in Steps(u) /\ Changes(u)[i].value = Value(u, i) /\ Changes(u)[i].old = Old(u, i)
    BY GroupIs
  <1>2. group[u] # Unpublished
    <2> SUFFICES ASSUME group[u] = Unpublished PROVE FALSE OBVIOUS
    <2>1. Len(Changes(u)) = 0 BY DEF Unpublished, Changes
    <2> QED BY <2>1
  <1>3. group[u].gen \in 1..loads /\ Value(u, i) = <<Wrap(u, group[u].gen)>> \o Old(u, i)
    BY <1>1, <1>2 DEF GroupsFit
  <1>4. group[u].gen \in 1..cf.MaxLoads
    BY UnitsAre, <1>3 DEF LoadTyped
  <1> QED BY <1>1, <1>3, <1>4

\* A release leaves groups, values and manifest what they are.
LEMMA ReleaseTyped ==
  ASSUME NEW cf, Install(cf)!Shape, LoadTyped(cf), GroupsFit(cf), NEW u \in UnitsOf(cf),
         NEW gen, NEW o, NEW gone \in {"skipped", "unloaded"},
         NEW staying \in {"none", "applied", "skipped", "unloaded"},
         Install(cf)!Release(u, gen, o, gone, staying)
  PROVE  /\ bound' \in [cf.Attrs -> Seq(Layers(cf))]
         /\ group' \in [UnitsOf(cf) -> Group(cf)]
         /\ manifest' \in [UnitsOf(cf) -> {"none", "applied", "skipped", "unloaded"}]
         /\ \A a \in cf.Attrs : Wrap("third", 0) \in Range(bound[a]) => Wrap("third", 0) \in Range(bound'[a])
  <1>1. group \in [UnitsOf(cf) -> Group(cf)] /\ bound \in [cf.Attrs -> Seq(Layers(cf))]
        /\ manifest \in [UnitsOf(cf) -> {"none", "applied", "skipped", "unloaded"}]
    BY DEF LoadTyped
  <1>2. manifest' \in [UnitsOf(cf) -> {"none", "applied", "skipped", "unloaded"}]
    BY ReleaseIs, <1>1
  <1>3. CASE Drops(cf, u, o)
    <2>1. bound' = Install(cf)!Restored(Changes(u)) BY <1>3 DEF Drops
    <2>2. Changes(u) \in Seq(Change(cf)) BY GroupIs
    <2>3. bound' \in [cf.Attrs -> Seq(Layers(cf))]
          /\ \A a \in cf.Attrs : Wrap("third", 0) \in Range(bound[a]) => Wrap("third", 0) \in Range(bound'[a])
      <3>1. \A i \in 1..Len(Changes(u)) : \E y \in UnitsOf(cf), g \in 1..cf.MaxLoads :
               Changes(u)[i].value = <<Wrap(y, g)>> \o Changes(u)[i].old
        BY ValuesAre
      <3>2. PICK cs : cs = Changes(u) OBVIOUS
      <3>3. /\ Install(cf)!Restored(cs) \in [cf.Attrs -> Seq(Layers(cf))]
            /\ \A a \in cf.Attrs : Wrap("third", 0) \in Range(bound[a])
                   => Wrap("third", 0) \in Range(Install(cf)!Restored(cs)[a])
        BY <1>1, <2>2, <3>1, <3>2, RestoredTyped
      <3> QED BY ONLY <2>1, <3>2, <3>3
    <2>4. group' \in [UnitsOf(cf) -> Group(cf)]
      <3>1. Unpublished \in Group(cf)
        BY UnitsAre DEF Unpublished, Group
      <3>2. group' = [group EXCEPT ![u] = Unpublished] BY <1>3 DEF Drops
      <3> QED BY <3>1, <3>2, <1>1
    <2> QED BY <2>3, <2>4, <1>2
  <1>4. CASE Leaves(u, o)
    <2>1. bound' = bound BY <1>4 DEF Leaves
    <2>2. group' \in [UnitsOf(cf) -> Group(cf)]
      <3>1. group'[u] \in Group(cf) BY <1>4, LeaveIs
      <3>2. group' = [group EXCEPT ![u] = group'[u]]
        BY <1>4, <1>1 DEF Leaves
      <3> QED BY <3>1, <3>2, <1>1
    <2> QED BY <2>1, <2>2, <1>1, <1>2
  <1>5. CASE bound' = bound /\ group' = group BY <1>1, <1>2, <1>5
  <1> QED BY <1>3, <1>4, <1>5, ReleaseIs

\* The unit and owner a lease or a failure releases.
LEMMA FailIs ==
  ASSUME NEW cf, Install(cf)!Shape, LoadTyped(cf), GroupsFit(cf), Install(cf)!Fail,
         NEW u, u = Install(cf)!Unit, NEW o, o = load.owner
  PROVE  /\ Install(cf)!InUnit /\ u \in UnitsOf(cf) /\ o \in cf.Owners /\ load # Idle /\ Place(cf, u) = load.at
         /\ Install(cf)!Release(u, group[u].gen, o, "skipped", "skipped")
         /\ load' = Install(cf)!NextUnit
         /\ load.step = 0 => load.abandoned /\ o \notin group[u].owners
         /\ load.step > 0 => Busy(cf, u)
         /\ load.abandoned \/ u \in cf.Broken
         /\ UNCHANGED <<foreign, rows, leases, leaving, kept, loads>>
  <1>1. /\ Install(cf)!InUnit
        /\ \/ /\ load.abandoned /\ (load.step = 0 => o \notin group[u].owners)
           \/ load.step > 0 /\ u \in cf.Broken
        /\ Install(cf)!Release(u, group[u].gen, o, "skipped", "skipped")
        /\ load' = Install(cf)!NextUnit
        /\ UNCHANGED <<foreign, rows, leases, leaving, kept, loads>>
    BY DEF Install!Fail, Install!Refused, Install!Incompatible
  <1>2. u \in UnitsOf(cf) /\ o \in cf.Owners /\ load # Idle /\ Place(cf, u) = load.at BY <1>1, LoadIs
  <1>3. load.step > 0 => Busy(cf, u) BY <1>1, LoadIs
  <1>4. load.step = 0 => ~(load.step > 0) OBVIOUS
  <1> QED BY <1>1, <1>2, <1>3, <1>4

LEMMA LetsIs ==
  ASSUME NEW cf, Install(cf)!Shape, LoadTyped(cf), NEW o \in cf.Owners, Install(cf)!Lets(o),
         NEW n, n = Len(leases[o]), NEW l, l = leases[o][n]
  PROVE  /\ load = Idle /\ o \in leaving /\ leases[o] # <<>>
         /\ n \in 1..Len(leases[o]) /\ l \in Lease(cf) /\ l.unit \in UnitsOf(cf) /\ l.gen \in Nat \ {0}
         /\ Install(cf)!Release(l.unit, l.gen, o, "unloaded", manifest[l.unit])
         /\ manifest[l.unit] \in {"none", "applied", "skipped", "unloaded"}
         /\ leases' = [leases EXCEPT ![o] = SubSeq(@, 1, Len(leases[o]) - 1)]
         /\ UNCHANGED <<foreign, rows, leaving, kept, load, loads>>
  BY LeasesAre, LoadIs DEF Install!Lets, LoadTyped

LEMMA TypedKept ==
  ASSUME NEW cf, Install(cf)!Shape, LoadTyped(cf), GroupsFit(cf), Install(cf)!Next
  PROVE  LoadTyped(cf)'
  <1> DEFINE LoadSet == [owner : cf.Owners, at : 1..(Len(cf.Units) + 1), step : Nat, abandoned : BOOLEAN]
  <1>0. Len(cf.Units) \in Nat /\ cf.MaxLoads \in Nat BY UnitsAre
  <1>1. ASSUME NEW o \in cf.Owners, Install(cf)!Begin(o) PROVE LoadTyped(cf)'
    BY <1>1, <1>0 DEF Install!Begin, LoadTyped
  <1>2. ASSUME NEW o \in cf.Owners, Install(cf)!Unload(o) PROVE LoadTyped(cf)'
    BY <1>2 DEF LoadTyped, Install!Unload
  <1>3. ASSUME NEW o \in cf.Owners, Install(cf)!Lets(o) PROVE LoadTyped(cf)'
    <2>1. leases' \in [cf.Owners -> Seq(Lease(cf))] BY <1>3, LetsIs, LeaseGone DEF LoadTyped
    <2>2. /\ bound' \in [cf.Attrs -> Seq(Layers(cf))] /\ group' \in [UnitsOf(cf) -> Group(cf)]
          /\ manifest' \in [UnitsOf(cf) -> {"none", "applied", "skipped", "unloaded"}]
      <3> DEFINE l == leases[o][Len(leases[o])]
      <3>1. /\ Install(cf)!Release(l.unit, l.gen, o, "unloaded", manifest[l.unit])
            /\ l.unit \in UnitsOf(cf) /\ manifest[l.unit] \in {"none", "applied", "skipped", "unloaded"}
        BY <1>3, LetsIs
      <3> HIDE DEF l
      <3> QED BY <3>1, ReleaseTyped
    <2>3. UNCHANGED <<foreign, rows, leaving, kept, load, loads>> BY <1>3, LetsIs
    <2> QED BY <2>1, <2>2, <2>3 DEF LoadTyped
  <1>4. ASSUME NEW o \in cf.Owners, Install(cf)!Left(o) PROVE LoadTyped(cf)'
    BY <1>4 DEF LoadTyped, Install!Left
  <1>5. CASE Install(cf)!Skip
    <2>1. load' = Install(cf)!NextUnit /\ Install(cf)!InUnit
          /\ UNCHANGED <<bound, foreign, group, manifest, rows, leases, leaving, kept, loads>>
      BY <1>5 DEF Install!Skip
    <2>2. load' \in LoadSet BY <2>1, NextUnitIs
    <2>3. loads > 0
      BY <2>1, LoadIs DEF LoadTyped
    <2> QED BY <2>1, <2>2, <2>3 DEF LoadTyped
  <1>6. CASE Install(cf)!Enter
    <2>0. PICK u, g : u = Install(cf)!Unit /\ g = IF group[u] = Unpublished THEN loads ELSE group[u].gen
      OBVIOUS
    <2>a. Entered(cf, u, load.owner, g) BY <1>6, <2>0, EnterIs
    <2>1. /\ u \in UnitsOf(cf) /\ load.owner \in cf.Owners /\ g \in 1..cf.MaxLoads /\ load # Idle
          /\ load.at \in 1..Len(cf.Units)
          /\ group'[u] \in Group(cf) /\ \A v \in UnitsOf(cf) : v # u => group'[v] = group[v]
          /\ DOMAIN group' = UnitsOf(cf)
          /\ leases' = [leases EXCEPT ![load.owner] = Append(@, [unit |-> u, gen |-> g])]
          /\ load' = IF group[u] = Unpublished THEN [load EXCEPT !.step = 1]
                     ELSE [load EXCEPT !.at = @ + 1, !.step = 0]
          /\ UNCHANGED <<bound, foreign, manifest, rows, leaving, kept, loads>>
      BY <2>a DEF Entered
    <2>2. group' \in [UnitsOf(cf) -> Group(cf)]
      <3>1. group' = [group EXCEPT ![u] = group'[u]]
        BY <1>6, <2>0, <2>1 DEF Install!Enter, LoadTyped
      <3> QED BY <3>1, <2>1 DEF LoadTyped
    <2>3. leases' \in [cf.Owners -> Seq(Lease(cf))]
      BY <2>1, LeaseAdded DEF Lease, LoadTyped
    <2>4. load' \in LoadSet /\ loads > 0
      <3>1. load \in LoadSet /\ loads > 0 BY <2>1 DEF LoadTyped
      <3>2. load.at + 1 \in 1..(Len(cf.Units) + 1) BY <2>1, <1>0
      <3> QED BY <3>1, <3>2, <2>1
    <2> QED BY <2>1, <2>2, <2>3, <2>4 DEF LoadTyped
  <1>7. CASE Install(cf)!Bind
    <2>0. PICK u, i, a : u = Install(cf)!Unit /\ i = load.step /\ a = cf.Binds[u][i] OBVIOUS
    <2>a. Binding(cf, u, i, a) BY <1>7, <2>0, BindIs
    <2>1. /\ u \in UnitsOf(cf) /\ a \in cf.Attrs /\ load # Idle /\ group[u].gen \in 1..cf.MaxLoads
          /\ bound' = [bound EXCEPT ![a] = <<Wrap(u, group[u].gen)>> \o bound[a]]
          /\ group'[u] \in Group(cf) /\ \A v \in UnitsOf(cf) : v # u => group'[v] = group[v]
          /\ load' = [load EXCEPT !.step = @ + 1]
          /\ UNCHANGED <<foreign, manifest, rows, leases, leaving, kept, loads>>
      BY <2>a DEF Binding
    <2>2. group' \in [UnitsOf(cf) -> Group(cf)]
      <3>1. group' = [group EXCEPT ![u] = group'[u]]
        BY <1>7, <2>0, <2>1 DEF Install!Bind, LoadTyped
      <3> QED BY <3>1, <2>1 DEF LoadTyped
    <2>3. bound' \in [cf.Attrs -> Seq(Layers(cf))]
      BY <2>1, OnTop DEF Wrap, Layers, LoadTyped
    <2>4. load' \in LoadSet /\ loads > 0
      <3>1. load \in LoadSet /\ loads > 0 BY <2>1 DEF LoadTyped
      <3> QED BY <3>1, <2>1
    <2> QED BY <2>1, <2>2, <2>3, <2>4 DEF LoadTyped
  <1>8. CASE Install(cf)!Applied
    <2>1. /\ load' = Install(cf)!NextUnit /\ Install(cf)!InUnit
          /\ manifest' = [manifest EXCEPT ![Install(cf)!Unit] = "applied"]
          /\ UNCHANGED <<bound, foreign, group, rows, leases, leaving, kept, loads>>
      BY <1>8 DEF Install!Applied
    <2>2. load' \in LoadSet BY <2>1, NextUnitIs
    <2>3. loads > 0
      BY <2>1, LoadIs DEF LoadTyped
    <2>4. manifest' \in [UnitsOf(cf) -> {"none", "applied", "skipped", "unloaded"}] BY <2>1 DEF LoadTyped
    <2> QED BY <2>1, <2>2, <2>3, <2>4 DEF LoadTyped
  <1>9. CASE Install(cf)!Fail
    BY <1>9, FailIs, ReleaseTyped, NextUnitIs DEF LoadTyped
  <1>10. CASE Install(cf)!End
    <2>1. /\ load' = Idle /\ load # Idle /\ rows' \in {rows, Install(cf)!Synced}
          /\ kept' \in {kept, kept \cup {load.owner}}
          /\ UNCHANGED <<bound, foreign, group, manifest, leases, leaving, loads>>
      <3>1. /\ load' = Install(cf)!NoLoad /\ rows' \in {rows, Install(cf)!Synced}
            /\ kept' \in {kept, kept \cup {load.owner}} /\ load.at > Len(cf.Units)
            /\ UNCHANGED <<bound, foreign, group, manifest, leases, leaving, loads>>
        BY <1>10 DEF Install!End
      <3>2. Install(cf)!NoLoad = Idle BY DEF Install!NoLoad, Idle
      <3>3. load # Idle
        <4>1. ~(0 > Len(cf.Units)) BY <1>0
        <4> QED BY <4>1, <3>1, LoadIs
      <3> QED BY <3>1, <3>2, <3>3
    <2>2. load.owner \in cf.Owners BY <2>1, LoadIs
    <2>3. rows' \in [cf.Attrs -> Seq(Layers(cf))]
      BY <2>1 DEF LoadTyped, Install!Synced
    <2> QED BY <2>1, <2>2, <2>3 DEF LoadTyped
  <1>11. CASE Install(cf)!Abandon
    BY <1>11, LoadIs DEF Install!Abandon, LoadTyped
  <1>12. ASSUME NEW a \in cf.Attrs, Install(cf)!ThirdParty(a) PROVE LoadTyped(cf)'
    BY <1>12, OnTop DEF Install!ThirdParty, Install!Layer, Wrap, LoadTyped, Layers
  <1> HIDE DEF LoadSet
  <1> QED
    BY <1>1, <1>2, <1>3, <1>4, <1>5, <1>6, <1>7, <1>8, <1>9, <1>10, <1>11, <1>12 DEF Install!Next

\* A release takes an owner's ownership, and nothing of the others'.
LEMMA ReleaseOwners ==
  ASSUME NEW cf, Install(cf)!Shape, LoadTyped(cf), GroupsFit(cf), NEW u \in UnitsOf(cf),
         NEW gen, NEW o, NEW gone, NEW staying, Install(cf)!Release(u, gen, o, gone, staying)
  PROVE  /\ \A v \in UnitsOf(cf) : v # u => group'[v] = group[v]
         /\ group'[u].owners = group[u].owners \/ group'[u].owners = group[u].owners \ {o}
         /\ group[u].gen = gen => o \notin group'[u].owners
         /\ \A v \in UnitsOf(cf) : group'[v].owners # {} => group'[v].gen = group[v].gen
         /\ \A v \in UnitsOf(cf) : group'[v] # Unpublished => group[v] # Unpublished
         /\ Install(cf)!NoGroup = Unpublished
         /\ group'[u] = Unpublished \/ (Steps(u)' = Steps(u) /\ group'[u].gen = group[u].gen
                                        /\ Changes(u)' = Changes(u))
  <1>1. CASE Drops(cf, u, o)
    BY <1>1, DropIs DEF Drops, Install!NoGroup, Unpublished
  <1>2. CASE Leaves(u, o)
    <2>1. /\ group'[u].owners = group[u].owners \ {o} /\ group'[u].gen = group[u].gen
          /\ group'[u].changes = group[u].changes /\ group'[u] # Unpublished
          /\ \A v \in UnitsOf(cf) : v # u => group'[v] = group[v]
      BY <1>2, LeaveIs
    <2>2. Steps(u)' = Steps(u) /\ Changes(u)' = Changes(u) BY <2>1 DEF Steps, Changes
    <2>3. group[u] # Unpublished
      <3>1. group[u].owners \ {o} # {} BY <1>2 DEF Leaves
      <3>2. PICK v \in group[u].owners : TRUE BY <3>1
      <3> QED BY <3>2, OwnedIsPublished
    <2> QED BY <2>1, <2>2, <2>3 DEF Install!NoGroup, Unpublished
  <1>3. CASE group' = group /\ (group[u].gen = gen => group[u] = Unpublished)
    BY <1>3 DEF Unpublished, Steps, Changes, Install!NoGroup
  <1> QED BY <1>1, <1>2, <1>3, ReleaseIs

\* The groups fit after a release: the unit was not busy, or it is gone.
LEMMA ReleaseFits ==
  ASSUME NEW cf, Install(cf)!Shape, LoadTyped(cf), GroupsFit(cf), NEW u \in UnitsOf(cf),
         NEW gen, NEW o, NEW gone, NEW staying, Install(cf)!Release(u, gen, o, gone, staying),
         loads' = loads, \A v \in UnitsOf(cf) : ~Busy(cf, v)', \A v \in UnitsOf(cf) : v # u => ~Busy(cf, v),
         Busy(cf, u) => o = load.owner /\ gen = group[u].gen
  PROVE  GroupsFit(cf)'
  <1> SUFFICES ASSUME NEW v \in UnitsOf(cf)
               PROVE  /\ group'[v] # Unpublished => group'[v].owners # {} /\ group'[v].gen \in 1..loads'
                      /\ \A i \in Steps(v)' : /\ i <= Len(cf.Binds[v]) /\ Attr(v, i)' = cf.Binds[v][i]
                                              /\ Value(v, i)' = <<Wrap(v, group'[v].gen)>> \o Old(v, i)'
                      /\ ~Busy(cf, v)' /\ group'[v] # Unpublished => Len(Changes(v)') = Len(cf.Binds[v])
    BY DEF GroupsFit
  <1>1. /\ group[v] # Unpublished => group[v].owners # {} /\ group[v].gen \in 1..loads
        /\ \A i \in Steps(v) : /\ i <= Len(cf.Binds[v]) /\ Attr(v, i) = cf.Binds[v][i]
                               /\ Value(v, i) = <<Wrap(v, group[v].gen)>> \o Old(v, i)
        /\ Busy(cf, v) => group[v].owners = {load.owner}
        /\ ~Busy(cf, v) /\ group[v] # Unpublished => Len(Changes(v)) = Len(cf.Binds[v])
    BY DEF GroupsFit
  <1>2. CASE group'[v] = group[v] /\ ~Busy(cf, v)
    BY <1>2, <1>1 DEF Steps, Changes, Attr, Value, Old
  <1>3. CASE group'[v] = Unpublished
    BY <1>3 DEF Steps, Unpublished
  <1>4. CASE v = u /\ Leaves(u, o)
    BY <1>4, <1>1, OwnedIsPublished, LeaveIs DEF Leaves, Steps, Changes, Attr, Value, Old
  <1>5. CASE v # u BY <1>2, <1>5, ReleaseOwners
  <1>6. CASE v = u /\ Drops(cf, u, o) BY <1>3, <1>6, DropIs
  <1>7. CASE v = u /\ group' = group /\ (group[u].gen = gen => group[u] = Unpublished)
    <2>1. CASE Busy(cf, u)
      BY <1>7, <2>1, BusyIs
    <2>2. CASE ~Busy(cf, u) BY <1>2, <1>7, <2>2
    <2> QED BY <2>1, <2>2
  <1> QED BY <1>4, <1>5, <1>6, <1>7, ReleaseIs

\* Ownership and leases, where neither a group gains an owner nor a lease goes.
LEMMA LeasedRests ==
  ASSUME NEW cf, Leased(cf), leases' = leases,
         \A u \in UnitsOf(cf) : group'[u].owners \subseteq group[u].owners,
         \A u \in UnitsOf(cf) : group'[u].owners # {} => group'[u].gen = group[u].gen
  PROVE  Leased(cf)'
  BY DEF Leased

LEMMA GroupsKept ==
  ASSUME NEW cf, Install(cf)!Shape, LoadTyped(cf), GroupsFit(cf), Install(cf)!Next
  PROVE  GroupsFit(cf)'
  <1>0. loads \in Nat /\ Len(cf.Units) \in Nat BY UnitsAre DEF LoadTyped
  <1>1. ASSUME NEW o \in cf.Owners, Install(cf)!Begin(o) PROVE GroupsFit(cf)'
    <2>1. load' = [owner |-> o, at |-> 1, step |-> 0, abandoned |-> FALSE] /\ loads' = loads + 1
          /\ load = Install(cf)!NoLoad /\ group' = group
      BY <1>1 DEF Install!Begin
    <2>2. load.step = 0 BY <2>1, LoadIs
    <2>3. \A u : ~Busy(cf, u)' /\ ~Busy(cf, u) BY <2>1, <2>2 DEF Busy
    <2>4. loads' \in Nat /\ loads <= loads' BY <2>1, <1>0
    <2> QED BY <1>0, <2>1, <2>3, <2>4, GroupsRest
  <1>2. ASSUME group' = group, loads' = loads, UNCHANGED load PROVE GroupsFit(cf)'
    BY <1>2, <1>0, GroupsRest DEF Busy
  <1>3. ASSUME NEW o \in cf.Owners, Install(cf)!Unload(o) \/ Install(cf)!Left(o) PROVE GroupsFit(cf)'
    BY <1>2, <1>3 DEF Install!Unload, Install!Left
  <1>4. ASSUME NEW o \in cf.Owners, Install(cf)!Lets(o) PROVE GroupsFit(cf)'
    <2> DEFINE l == leases[o][Len(leases[o])]
    <2>1. /\ Install(cf)!Release(l.unit, l.gen, o, "unloaded", manifest[l.unit])
          /\ l.unit \in UnitsOf(cf) /\ load = Idle /\ UNCHANGED <<load, loads>>
      BY <1>4, LetsIs
    <2> HIDE DEF l
    <2>2. load.step = 0 BY <2>1, LoadIs
    <2>3. \A u : ~Busy(cf, u)' /\ ~Busy(cf, u) BY <2>1, <2>2 DEF Busy
    <2> QED BY <2>1, <2>3, ReleaseFits
  <1>5. CASE Install(cf)!Skip
    BY <1>5, NextUnitIs, <1>0, GroupsRest DEF Install!Skip, Busy
  <1>6. CASE Install(cf)!Enter
    <2>0. PICK u, o, g : u = Install(cf)!Unit /\ o = load.owner
                         /\ g = IF group[u] = Unpublished THEN loads ELSE group[u].gen
      OBVIOUS
    <2>a. Entered(cf, u, o, g) BY <1>6, <2>0, EnterIs
    <2>1. /\ u \in UnitsOf(cf) /\ o \in cf.Owners /\ g \in 1..loads /\ load # Idle /\ load.step = 0
          /\ u = cf.Units[load.at] /\ load.at \in 1..Len(cf.Units)
          /\ group'[u].owners = group[u].owners \cup {o} /\ group'[u].gen = g
          /\ group'[u].changes = group[u].changes
          /\ \A v \in UnitsOf(cf) : v # u => group'[v] = group[v]
          /\ load' = IF group[u] = Unpublished THEN [load EXCEPT !.step = 1]
                     ELSE [load EXCEPT !.at = @ + 1, !.step = 0]
          /\ loads' = loads
      BY <2>a DEF Entered
    <2>2. load \in [owner : cf.Owners, at : 1..(Len(cf.Units) + 1), step : Nat, abandoned : BOOLEAN]
      BY <2>1, LoadIs
    <2>3. \A v : ~Busy(cf, v) BY <2>1 DEF Busy
    <2>4. load'.owner = o /\ \A v : Busy(cf, v)' <=> v = u /\ group[u] = Unpublished
      <3>1. CASE group[u] = Unpublished
        <4>1. load'.step = 1 /\ load'.at = load.at /\ load'.owner = load.owner BY <2>1, <2>2, <3>1
        <4> QED BY <4>1, <3>1, <2>0, <2>1 DEF Busy
      <3>2. CASE group[u] # Unpublished
        BY <2>1, <2>2, <3>2, <2>0 DEF Busy
      <3> QED BY <3>1, <3>2
    <2> SUFFICES ASSUME NEW v \in UnitsOf(cf)
                 PROVE  /\ group'[v] # Unpublished => group'[v].owners # {} /\ group'[v].gen \in 1..loads'
                        /\ \A i \in Steps(v)' : /\ i <= Len(cf.Binds[v]) /\ Attr(v, i)' = cf.Binds[v][i]
                                                /\ Value(v, i)' = <<Wrap(v, group'[v].gen)>> \o Old(v, i)'
                        /\ Busy(cf, v)' => /\ group'[v].owners = {load'.owner} /\ Len(Changes(v)') = load'.step - 1
                                           /\ load'.step <= Len(cf.Binds[v]) + 1
                        /\ ~Busy(cf, v)' /\ group'[v] # Unpublished => Len(Changes(v)') = Len(cf.Binds[v])
      BY DEF GroupsFit
    <2>5. /\ group[v] # Unpublished => group[v].owners # {} /\ group[v].gen \in 1..loads
                                       /\ Len(Changes(v)) = Len(cf.Binds[v])
          /\ \A i \in Steps(v) : /\ i <= Len(cf.Binds[v]) /\ Attr(v, i) = cf.Binds[v][i]
                                 /\ Value(v, i) = <<Wrap(v, group[v].gen)>> \o Old(v, i)
      BY <2>3 DEF GroupsFit
    <2>6. group[v] = Unpublished => Steps(v) = {} /\ Len(Changes(v)) = 0 /\ group[v].owners = {}
      BY DEF Unpublished, Steps, Changes
    <2>7. group'[v].changes = group[v].changes BY <2>1
    <2>8. /\ Steps(v)' = Steps(v) /\ Changes(v)' = Changes(v)
          /\ \A i : Attr(v, i)' = Attr(v, i) /\ Value(v, i)' = Value(v, i) /\ Old(v, i)' = Old(v, i)
      BY <2>7 DEF Steps, Changes, Attr, Value, Old
    <2>9. CASE v # u
      BY <2>1, <2>9, <2>4, <2>5, <2>8
    <2>10. CASE v = u /\ group[u] # Unpublished
      <3>1. group'[v].gen = group[v].gen BY <2>0, <2>1, <2>10
      <3>2. ~Busy(cf, v)' BY <2>4, <2>10
      <3>3. group'[v].owners # {} BY <2>1, <2>10
      <3>4. group[v].gen \in 1..loads' BY <2>1, <2>5, <2>10
      <3> QED BY <3>1, <3>2, <3>3, <3>4, <2>5, <2>8, <2>10
    <2>11. CASE v = u /\ group[u] = Unpublished
      <3>1. load'.step = 1 BY <2>1, <2>2, <2>11
      <3>2. Len(cf.Binds[v]) \in Nat BY BindsAre
      <3>3. group'[v].owners = {o} BY <2>1, <2>6, <2>11
      <3> QED BY <3>1, <3>2, <3>3, <2>1, <2>4, <2>6, <2>8, <2>11
    <2> QED BY <2>9, <2>10, <2>11
  <1>7. CASE Install(cf)!Bind
    <2>0. PICK u, i, a : u = Install(cf)!Unit /\ i = load.step /\ a = cf.Binds[u][i] OBVIOUS
    <2>a. Binding(cf, u, i, a) BY <1>7, <2>0, BindIs
    <2>1. /\ u \in UnitsOf(cf) /\ Busy(cf, u) /\ i \in 1..Len(cf.Binds[u]) /\ load # Idle
          /\ i = Len(Changes(u)) + 1 /\ Len(Changes(u)) \in Nat
          /\ group'[u].owners = group[u].owners /\ group'[u].gen = group[u].gen
          /\ \A v \in UnitsOf(cf) : v # u => group'[v] = group[v]
          /\ Steps(u)' = Steps(u) \cup {i} /\ Len(Changes(u)') = i
          /\ \A j \in Steps(u) : /\ Attr(u, j)' = Attr(u, j) /\ Old(u, j)' = Old(u, j)
                                 /\ Value(u, j)' = Value(u, j)
          /\ Attr(u, i)' = a /\ Old(u, i)' = bound[a]
          /\ Value(u, i)' = <<Wrap(u, group[u].gen)>> \o bound[a]
          /\ load' = [load EXCEPT !.step = @ + 1] /\ loads' = loads
      BY <2>a DEF Binding
    <2>2. load \in [owner : cf.Owners, at : 1..(Len(cf.Units) + 1), step : Nat, abandoned : BOOLEAN]
      BY <2>1, LoadIs
    <2>3. load'.step = i + 1 /\ load'.at = load.at /\ load'.owner = load.owner BY <2>0, <2>1, <2>2
    <2>4. \A v : Busy(cf, v)' <=> Busy(cf, v)
      BY <2>1, <2>2, <2>3 DEF Busy
    <2>5. \A v : Busy(cf, v) => v = u BY <2>1 DEF Busy
    <2> SUFFICES ASSUME NEW v \in UnitsOf(cf)
                 PROVE  /\ group'[v] # Unpublished => group'[v].owners # {} /\ group'[v].gen \in 1..loads'
                        /\ \A j \in Steps(v)' : /\ j <= Len(cf.Binds[v]) /\ Attr(v, j)' = cf.Binds[v][j]
                                                /\ Value(v, j)' = <<Wrap(v, group'[v].gen)>> \o Old(v, j)'
                        /\ Busy(cf, v)' => /\ group'[v].owners = {load'.owner} /\ Len(Changes(v)') = load'.step - 1
                                           /\ load'.step <= Len(cf.Binds[v]) + 1
                        /\ ~Busy(cf, v)' /\ group'[v] # Unpublished => Len(Changes(v)') = Len(cf.Binds[v])
      BY DEF GroupsFit
    <2>6. /\ group[v] # Unpublished => group[v].owners # {} /\ group[v].gen \in 1..loads
          /\ \A j \in Steps(v) : /\ j <= Len(cf.Binds[v]) /\ Attr(v, j) = cf.Binds[v][j]
                                 /\ Value(v, j) = <<Wrap(v, group[v].gen)>> \o Old(v, j)
          /\ Busy(cf, v) => group[v].owners = {load.owner}
          /\ ~Busy(cf, v) /\ group[v] # Unpublished => Len(Changes(v)) = Len(cf.Binds[v])
      BY DEF GroupsFit
    <2>7. CASE v # u
      BY <2>1, <2>4, <2>5, <2>7, <2>6 DEF Steps, Changes, Attr, Value, Old
    <2>8. CASE v = u
      <3>1. group[u] # Unpublished BY <2>1, BusyIs
      <3>2. /\ group'[v].owners = {load'.owner} /\ group'[v].owners # {} /\ group'[v].gen \in 1..loads'
            /\ Busy(cf, v)'
        BY <3>1, <2>1, <2>3, <2>4, <2>6, <2>8
      <3>3. Len(Changes(v)') = load'.step - 1 /\ load'.step <= Len(cf.Binds[v]) + 1
        BY BindsAre, <2>1, <2>3, <2>8
      <3>4. ASSUME NEW j \in Steps(v)'
            PROVE  /\ j <= Len(cf.Binds[v]) /\ Attr(v, j)' = cf.Binds[v][j]
                   /\ Value(v, j)' = <<Wrap(v, group'[v].gen)>> \o Old(v, j)'
        <4>1. j \in Steps(u) \/ j = i BY <3>4, <2>1, <2>8
        <4>2. CASE j \in Steps(u) BY <4>2, <2>1, <2>6, <2>8
        <4>3. CASE j = i
          <5>1. i <= Len(cf.Binds[u])
            BY <2>1, BindsAre
          <5> QED BY <5>1, <4>3, <2>0, <2>1, <2>8
        <4> QED BY <4>1, <4>2, <4>3
      <3> QED BY <3>2, <3>3, <3>4
    <2> QED BY <2>7, <2>8
  <1>8. CASE Install(cf)!Applied
    <2>1. /\ load' = Install(cf)!NextUnit /\ Install(cf)!InUnit /\ group' = group /\ loads' = loads
          /\ load.step > Len(cf.Binds[Install(cf)!Unit])
      BY <1>8 DEF Install!Applied
    <2>2. \A u : ~Busy(cf, u)' BY <2>1, NextUnitIs
    <2>3. ASSUME NEW u \in UnitsOf(cf), Busy(cf, u) PROVE Len(Changes(u)) = Len(cf.Binds[u])
      <3>1. Len(Changes(u)) = load.step - 1 /\ load.step <= Len(cf.Binds[u]) + 1 BY <2>3 DEF GroupsFit
      <3>2. u = Install(cf)!Unit /\ load.step \in Nat BY <2>3, LoadIs
      <3>3. Len(cf.Binds[u]) \in Nat BY BindsAre
      <3> QED BY <3>1, <3>2, <3>3, <2>1
    <2> QED BY <1>0, <2>1, <2>2, <2>3, GroupsRest
  <1>9. CASE Install(cf)!Fail
    <2>0. PICK u, o : u = Install(cf)!Unit /\ o = load.owner OBVIOUS
    <2>1. /\ Install(cf)!InUnit /\ u \in UnitsOf(cf) /\ load' = Install(cf)!NextUnit /\ loads' = loads
          /\ Install(cf)!Release(u, group[u].gen, o, "skipped", "skipped")
      BY <1>9, <2>0, FailIs
    <2>2. \A v : ~Busy(cf, v)' BY <2>1, NextUnitIs
    <2>3. \A v : Busy(cf, v) => v = u BY <2>0, LoadIs
    <2> QED BY <2>0, <2>1, <2>2, <2>3, ReleaseFits
  <1>10. CASE Install(cf)!End
    <2>1. load' = Install(cf)!NoLoad /\ load.at > Len(cf.Units) /\ group' = group /\ loads' = loads
      BY <1>10 DEF Install!End
    <2>2. \A u : ~Busy(cf, u)'
      BY <2>1 DEF Install!NoLoad, Busy
    <2>3. \A u : ~Busy(cf, u)
      BY <2>1, <1>0 DEF Busy
    <2> QED BY <1>0, <2>1, <2>2, <2>3, GroupsRest
  <1>11. CASE Install(cf)!Abandon
    BY <1>11, LoadIs, <1>0, GroupsRest DEF Install!Abandon, Busy
  <1>12. ASSUME NEW a \in cf.Attrs, Install(cf)!ThirdParty(a) PROVE GroupsFit(cf)'
    BY <1>2, <1>12 DEF Install!ThirdParty
  <1> QED
    BY <1>1, <1>3, <1>4, <1>5, <1>6, <1>7, <1>8, <1>9, <1>10, <1>11, <1>12 DEF Install!Next

LEMMA LeasedKept ==
  ASSUME NEW cf, Install(cf)!Shape, LoadTyped(cf), GroupsFit(cf), Leased(cf), Install(cf)!Next
  PROVE  Leased(cf)'
  <1>1. ASSUME UNCHANGED <<group, leases>> PROVE Leased(cf)' BY <1>1 DEF Leased
  <1>2. ASSUME NEW o \in cf.Owners, Install(cf)!Begin(o) \/ Install(cf)!Unload(o) \/ Install(cf)!Left(o)
        PROVE  Leased(cf)'
    BY <1>1, <1>2 DEF Install!Begin, Install!Unload, Install!Left
  <1>3. CASE Install(cf)!Skip \/ Install(cf)!Applied \/ Install(cf)!End \/ Install(cf)!Abandon
    BY <1>1, <1>3 DEF Install!Skip, Install!Applied, Install!End, Install!Abandon
  <1>4. ASSUME NEW a \in cf.Attrs, Install(cf)!ThirdParty(a) PROVE Leased(cf)'
    BY <1>1, <1>4 DEF Install!ThirdParty
  <1>5. ASSUME NEW o \in cf.Owners, Install(cf)!Lets(o) PROVE Leased(cf)'
    <2>0. PICK n, l : n = Len(leases[o]) /\ l = leases[o][n] OBVIOUS
    <2>1. /\ Install(cf)!Release(l.unit, l.gen, o, "unloaded", manifest[l.unit])
          /\ l.unit \in UnitsOf(cf) /\ n \in 1..Len(leases[o]) /\ leases[o] # <<>>
          /\ leases' = [leases EXCEPT ![o] = SubSeq(@, 1, Len(leases[o]) - 1)]
      BY <1>5, <2>0, LetsIs
    <2>2. /\ Len(leases'[o]) = Len(leases[o]) - 1 /\ Len(leases[o]) \in Nat \ {0}
          /\ \A p \in 1..Len(leases'[o]) : leases'[o][p] = leases[o][p]
          /\ \A v \in cf.Owners : v # o => leases'[v] = leases[v]
      BY <2>1, LeaseGone DEF LoadTyped
    <2>3. /\ \A v \in UnitsOf(cf) : v # l.unit => group'[v] = group[v]
          /\ group'[l.unit].owners \subseteq group[l.unit].owners
          /\ group[l.unit].gen = l.gen => o \notin group'[l.unit].owners
          /\ \A v \in UnitsOf(cf) : group'[v].owners # {} => group'[v].gen = group[v].gen
      BY <2>1, ReleaseOwners
    <2> SUFFICES ASSUME NEW x \in cf.Owners, NEW u \in UnitsOf(cf), x \in group'[u].owners
                 PROVE  \E p \in 1..Len(leases'[x]) : leases'[x][p] = [unit |-> u, gen |-> group'[u].gen]
      BY DEF Leased
    <2>4. x \in group[u].owners /\ group'[u].gen = group[u].gen BY <2>3
    <2>5. PICK p \in 1..Len(leases[x]) : leases[x][p] = [unit |-> u, gen |-> group[u].gen]
      BY <2>4 DEF Leased
    <2>6. CASE x # o BY <2>2, <2>4, <2>5, <2>6
    <2>7. CASE x = o /\ p # n
      BY <2>0, <2>2, <2>5, <2>7, <2>4
    <2>8. CASE x = o /\ p = n
      BY <2>0, <2>5, <2>8, <2>3
    <2> QED BY <2>6, <2>7, <2>8
  <1>6. CASE Install(cf)!Enter
    <2>0. PICK u, o, g : u = Install(cf)!Unit /\ o = load.owner
                         /\ g = IF group[u] = Unpublished THEN loads ELSE group[u].gen
      OBVIOUS
    <2>a. Entered(cf, u, o, g) BY <1>6, <2>0, EnterIs
    <2>1. /\ u \in UnitsOf(cf) /\ o \in cf.Owners /\ g \in 1..cf.MaxLoads
          /\ group'[u].owners = group[u].owners \cup {o} /\ group'[u].gen = g
          /\ \A v \in UnitsOf(cf) : v # u => group'[v] = group[v]
          /\ leases' = [leases EXCEPT ![o] = Append(@, [unit |-> u, gen |-> g])]
      BY <2>a DEF Entered
    <2>2. /\ Len(leases'[o]) = Len(leases[o]) + 1 /\ Len(leases[o]) \in Nat
          /\ leases'[o][Len(leases[o]) + 1] = [unit |-> u, gen |-> g]
          /\ \A p \in 1..Len(leases[o]) : leases'[o][p] = leases[o][p]
          /\ \A v \in cf.Owners : v # o => leases'[v] = leases[v]
      BY <2>1, LeaseAdded DEF LoadTyped, Lease
    <2> SUFFICES ASSUME NEW x \in cf.Owners, NEW v \in UnitsOf(cf), x \in group'[v].owners
                 PROVE  \E p \in 1..Len(leases'[x]) : leases'[x][p] = [unit |-> v, gen |-> group'[v].gen]
      BY DEF Leased
    <2>3. CASE x \in group[v].owners
      <3>1. group'[v].gen = group[v].gen
        BY <2>3, OwnedIsPublished, <2>0, <2>1
      <3>2. PICK p \in 1..Len(leases[x]) : leases[x][p] = [unit |-> v, gen |-> group[v].gen]
        BY <2>3 DEF Leased
      <3>3. p \in 1..Len(leases'[x]) /\ leases'[x][p] = leases[x][p]
        <4>1. CASE x = o
          BY <2>2, <3>2, <4>1
        <4>2. CASE x # o BY <2>2, <3>2, <4>2
        <4> QED BY <4>1, <4>2
      <3> QED BY <3>1, <3>2, <3>3
    <2>4. CASE x \notin group[v].owners
      BY <2>1, <2>4, <2>2
    <2> QED BY <2>3, <2>4
  <1>7. CASE Install(cf)!Bind
    <2>0. PICK u, i, a : u = Install(cf)!Unit /\ i = load.step /\ a = cf.Binds[u][i] OBVIOUS
    <2>a. Binding(cf, u, i, a) BY <1>7, <2>0, BindIs
    <2>1. /\ group'[u].owners = group[u].owners /\ group'[u].gen = group[u].gen
          /\ \A v \in UnitsOf(cf) : v # u => group'[v] = group[v]
          /\ leases' = leases
      BY <2>a DEF Binding
    <2> QED BY <2>1, LeasedRests
  <1>8. CASE Install(cf)!Fail
    <2>0. PICK u, o : u = Install(cf)!Unit /\ o = load.owner OBVIOUS
    <2>1. /\ u \in UnitsOf(cf) /\ leases' = leases
          /\ Install(cf)!Release(u, group[u].gen, o, "skipped", "skipped")
      BY <1>8, <2>0, FailIs
    <2>2. /\ \A v \in UnitsOf(cf) : v # u => group'[v] = group[v]
          /\ group'[u].owners \subseteq group[u].owners
          /\ \A v \in UnitsOf(cf) : group'[v].owners # {} => group'[v].gen = group[v].gen
      BY <2>1, ReleaseOwners
    <2> QED BY <2>1, <2>2, LeasedRests
  <1> QED BY <1>2, <1>3, <1>4, <1>5, <1>6, <1>7, <1>8 DEF Install!Next

LEMMA AppliedKept ==
  ASSUME NEW cf, Install(cf)!Shape, LoadTyped(cf), GroupsFit(cf), AppliedOwned(cf), Install(cf)!Next
  PROVE  AppliedOwned(cf)'
  <1>1. ASSUME UNCHANGED <<group, manifest>> PROVE AppliedOwned(cf)' BY <1>1 DEF AppliedOwned
  <1>2. ASSUME NEW o \in cf.Owners, Install(cf)!Begin(o) \/ Install(cf)!Unload(o) \/ Install(cf)!Left(o)
        PROVE  AppliedOwned(cf)'
    BY <1>1, <1>2 DEF Install!Begin, Install!Unload, Install!Left
  <1>3. CASE Install(cf)!Skip \/ Install(cf)!End \/ Install(cf)!Abandon
    BY <1>1, <1>3 DEF Install!Skip, Install!End, Install!Abandon
  <1>4. ASSUME NEW a \in cf.Attrs, Install(cf)!ThirdParty(a) PROVE AppliedOwned(cf)'
    BY <1>1, <1>4 DEF Install!ThirdParty
  <1>5. ASSUME NEW u \in UnitsOf(cf), NEW gen, NEW o, NEW gone \in {"skipped", "unloaded"},
               NEW staying \in {"skipped", manifest[u]},
               Install(cf)!Release(u, gen, o, gone, staying)
        PROVE  AppliedOwned(cf)'
    <2>0. manifest \in [UnitsOf(cf) -> {"none", "applied", "skipped", "unloaded"}] BY DEF LoadTyped
    <2>1. \A v \in UnitsOf(cf) : v # u => group'[v] = group[v] BY <1>5, ReleaseOwners
    <2>2. manifest' \in {[manifest EXCEPT ![u] = gone], [manifest EXCEPT ![u] = staying]}
      BY <1>5, ReleaseIs
    <2>3. \A v \in UnitsOf(cf) : v # u => manifest'[v] = manifest[v] BY <2>0, <2>2
    <2>4. manifest'[u] = "applied" => manifest[u] = "applied" BY <2>0, <2>2
    <2>5. CASE Drops(cf, u, o) /\ manifest' = [manifest EXCEPT ![u] = gone]
      BY <2>0, <2>5, <2>1, <2>3 DEF AppliedOwned
    <2>6. CASE Leaves(u, o)
      BY <2>6, LeaveIs, <2>1, <2>3 DEF AppliedOwned
    <2>7. CASE group' = group BY <2>3, <2>4, <2>7 DEF AppliedOwned
    <2> QED BY <1>5, <2>5, <2>6, <2>7, ReleaseIs
  <1>6. ASSUME NEW o \in cf.Owners, Install(cf)!Lets(o) PROVE AppliedOwned(cf)'
    <2>0. PICK n, l : n = Len(leases[o]) /\ l = leases[o][n] OBVIOUS
    <2>1. /\ Install(cf)!Release(l.unit, l.gen, o, "unloaded", manifest[l.unit])
          /\ l.unit \in UnitsOf(cf)
      BY <1>6, <2>0, LetsIs
    <2> QED BY <1>5, <2>1
  <1>7. CASE Install(cf)!Fail
    <2>0. PICK u, o : u = Install(cf)!Unit /\ o = load.owner OBVIOUS
    <2>1. u \in UnitsOf(cf) /\ Install(cf)!Release(u, group[u].gen, o, "skipped", "skipped")
      BY <1>7, <2>0, FailIs
    <2> QED BY <1>5, <2>1
  <1>8. CASE Install(cf)!Enter
    <2>0. PICK u, o, g : u = Install(cf)!Unit /\ o = load.owner
                         /\ g = IF group[u] = Unpublished THEN loads ELSE group[u].gen
      OBVIOUS
    <2>a. Entered(cf, u, o, g) BY <1>8, <2>0, EnterIs
    <2>1. /\ group'[u].owners = group[u].owners \cup {o} /\ manifest' = manifest
          /\ \A v \in UnitsOf(cf) : v # u => group'[v] = group[v]
      BY <2>a DEF Entered
    <2> QED BY <2>1 DEF AppliedOwned
  <1>9. CASE Install(cf)!Bind
    <2>0. PICK u, i, a : u = Install(cf)!Unit /\ i = load.step /\ a = cf.Binds[u][i] OBVIOUS
    <2>a. Binding(cf, u, i, a) BY <1>9, <2>0, BindIs
    <2>1. /\ group'[u].owners = group[u].owners /\ manifest' = manifest
          /\ \A v \in UnitsOf(cf) : v # u => group'[v] = group[v]
      BY <2>a DEF Binding
    <2> QED BY <2>1 DEF AppliedOwned
  <1>10. CASE Install(cf)!Applied
    <2>1. /\ Install(cf)!InUnit /\ manifest' = [manifest EXCEPT ![Install(cf)!Unit] = "applied"]
          /\ group' = group /\ load.step > Len(cf.Binds[Install(cf)!Unit])
      BY <1>10 DEF Install!Applied
    <2>2. PICK u \in UnitsOf(cf) : u = Install(cf)!Unit BY <2>1, LoadIs
    <2>3. Busy(cf, u)
      <3>1. Len(cf.Binds[u]) \in Nat BY BindsAre
      <3>2. load.step > 0
        <4>1. load.step \in Nat BY LoadIs
        <4> QED BY <4>1, <3>1, <2>1, <2>2
      <3> QED BY <3>2, <2>1, <2>2, LoadIs
    <2>4. group[u].owners # {} BY <2>3, BusyIs
    <2>5. manifest \in [UnitsOf(cf) -> {"none", "applied", "skipped", "unloaded"}] BY DEF LoadTyped
    <2> QED BY <2>1, <2>2, <2>4, <2>5 DEF AppliedOwned
  <1> QED
    BY <1>2, <1>3, <1>4, <1>6, <1>7, <1>8, <1>9, <1>10 DEF Install!Next

LEMMA ThirdKept ==
  ASSUME NEW cf, Install(cf)!Shape, LoadTyped(cf), GroupsFit(cf), ThirdStays, Install(cf)!Next
  PROVE  ThirdStays'
  <1>0. foreign \subseteq cf.Attrs
    BY DEF Install!Shape, LoadTyped
  <1>1. ASSUME UNCHANGED <<bound, foreign>> PROVE ThirdStays' BY <1>1 DEF ThirdStays
  <1>2. ASSUME NEW o \in cf.Owners, Install(cf)!Begin(o) \/ Install(cf)!Unload(o) \/ Install(cf)!Left(o)
        PROVE  ThirdStays'
    BY <1>1, <1>2 DEF Install!Begin, Install!Unload, Install!Left
  <1>3. CASE Install(cf)!Skip \/ Install(cf)!Applied \/ Install(cf)!End \/ Install(cf)!Abandon \/ Install(cf)!Enter
    BY <1>1, <1>3 DEF Install!Skip, Install!Applied, Install!End, Install!Abandon, Install!Enter
  <1>4. ASSUME NEW a \in cf.Attrs, Install(cf)!ThirdParty(a) PROVE ThirdStays'
    <2>1. bound' = [bound EXCEPT ![a] = <<Wrap("third", 0)>> \o @] /\ foreign' = foreign \cup {a}
      BY <1>4 DEF Install!ThirdParty, Install!Layer, Wrap
    <2>2. bound \in [cf.Attrs -> Seq(Layers(cf))] BY DEF LoadTyped
    <2>3. Wrap("third", 0) \in Layers(cf) BY DEF Layers
    <2>4. Wrap("third", 0) \in Range(<<Wrap("third", 0)>> \o bound[a]) BY <2>2, <2>3, OnTop
    <2>5. bound'[a] = <<Wrap("third", 0)>> \o bound[a] /\ \A b \in cf.Attrs : b # a => bound'[b] = bound[b]
      BY <2>1, <2>2
    <2> QED BY <1>0, <2>1, <2>4, <2>5 DEF ThirdStays
  <1>5. CASE Install(cf)!Bind
    <2>0. PICK u, i, a : u = Install(cf)!Unit /\ i = load.step /\ a = cf.Binds[u][i] OBVIOUS
    <2>a. Binding(cf, u, i, a) BY <1>5, <2>0, BindIs
    <2>1. /\ bound' = [bound EXCEPT ![a] = <<Wrap(u, group[u].gen)>> \o bound[a]]
          /\ u \in UnitsOf(cf) /\ group[u].gen \in 1..cf.MaxLoads /\ a \in cf.Attrs /\ foreign' = foreign
      BY <2>a DEF Binding
    <2>2. bound \in [cf.Attrs -> Seq(Layers(cf))] BY DEF LoadTyped
    <2>3. Wrap(u, group[u].gen) \in Layers(cf) BY <2>1 DEF Layers, Wrap
    <2>4. Range(bound[a]) \subseteq Range(<<Wrap(u, group[u].gen)>> \o bound[a]) BY <2>1, <2>2, <2>3, OnTop
    <2>5. bound'[a] = <<Wrap(u, group[u].gen)>> \o bound[a] /\ \A b \in cf.Attrs : b # a => bound'[b] = bound[b]
      BY <2>1, <2>2
    <2> QED BY <1>0, <2>1, <2>4, <2>5 DEF ThirdStays
  <1>6. ASSUME NEW u \in UnitsOf(cf), NEW gen, NEW o, NEW gone \in {"skipped", "unloaded"},
               NEW staying \in {"none", "applied", "skipped", "unloaded"},
               Install(cf)!Release(u, gen, o, gone, staying), foreign' = foreign
        PROVE  ThirdStays'
    BY <1>6, ReleaseTyped, <1>0 DEF ThirdStays
  <1>7. ASSUME NEW o \in cf.Owners, Install(cf)!Lets(o) PROVE ThirdStays'
    <2>0. PICK n, l : n = Len(leases[o]) /\ l = leases[o][n] OBVIOUS
    <2>1. /\ Install(cf)!Release(l.unit, l.gen, o, "unloaded", manifest[l.unit])
          /\ l.unit \in UnitsOf(cf) /\ foreign' = foreign
          /\ manifest[l.unit] \in {"none", "applied", "skipped", "unloaded"}
      BY <1>7, <2>0, LetsIs
    <2> QED BY <1>6, <2>1
  <1>8. CASE Install(cf)!Fail
    <2>0. PICK u, o : u = Install(cf)!Unit /\ o = load.owner OBVIOUS
    <2>1. /\ u \in UnitsOf(cf) /\ Install(cf)!Release(u, group[u].gen, o, "skipped", "skipped")
          /\ foreign' = foreign
      BY <1>8, <2>0, FailIs
    <2> QED BY <1>6, <2>1
  <1> QED BY <1>2, <1>3, <1>4, <1>5, <1>7, <1>8 DEF Install!Next

LEMMA BaseKept ==
  ASSUME NEW cf, Install(cf)!Shape, LoadBase(cf), Install(cf)!Next
  PROVE  LoadBase(cf)'
  BY TypedKept, GroupsKept, LeasedKept, AppliedKept, ThirdKept DEF LoadBase

-----------------------------------------------------------------------------
(* One load after the other, and no third party.                           *)

\* The conjunct that a load which was not abandoned owns what it has passed.
Passed(cf) ==
    ~load.abandoned =>
        \A k \in 1..Len(cf.Units) :
            k < load.at /\ cf.Units[k] \notin cf.Broken => load.owner \in group[cf.Units[k]].owners

\* Owners, where the groups stay and only who loads, leaves or is kept changes.
LEMMA OwnersKept ==
  ASSUME NEW cf, Install(cf)!Shape, ~cf.Overlap, LoadBase(cf), OwnersFit(cf), Install(cf)!Next
  PROVE  OwnersFit(cf)'
  <1> USE DEF LoadBase
  <1>0. /\ load # Idle => load.owner \notin kept /\ (load.owner \in leaving <=> load.abandoned)
        /\ kept \cap leaving = {}
        /\ \A o \in cf.Owners : o \notin kept \cup leaving \cup {load.owner} => leases[o] = <<>>
        /\ \A o \in kept, u \in UnitsOf(cf) \ cf.Broken : o \in group[u].owners
        /\ Passed(cf)
    BY DEF OwnersFit, Passed
  <1>a. "none" \notin cf.Owners /\ Len(cf.Units) \in Nat
        /\ \A k \in 1..Len(cf.Units) : cf.Units[k] \in UnitsOf(cf)
    BY UnitsAre
  <1>b. kept \in SUBSET cf.Owners /\ leaving \in SUBSET cf.Owners BY DEF LoadTyped
  <1>1. ASSUME NEW o \in cf.Owners, Install(cf)!Begin(o) PROVE OwnersFit(cf)'
    <2>1. load' = [owner |-> o, at |-> 1, step |-> 0, abandoned |-> FALSE] /\ kept' = kept \ {o}
          /\ o \notin leaving /\ load = Idle
          /\ UNCHANGED <<bound, foreign, group, manifest, rows, leases, leaving>>
      BY <1>1, LoadIs DEF Install!Begin
    <2>2. load.owner \notin cf.Owners BY <2>1, <1>a, LoadIs
    <2>3. Passed(cf)' BY <2>1, <1>a DEF Passed
    <2>4. load'.owner = o /\ load'.abandoned = FALSE BY <2>1
    <2>5. \A x \in cf.Owners : x \notin kept' \cup leaving' \cup {load'.owner} => leases'[x] = <<>>
      BY <1>0, <2>1, <2>2, <2>4
    <2>6. load' # Idle => load'.owner \notin kept' /\ (load'.owner \in leaving' <=> load'.abandoned)
      BY <2>1, <2>4
    <2> QED BY <1>0, <2>1, <2>3, <2>5, <2>6 DEF OwnersFit, Passed
  <1>2. ASSUME NEW o \in cf.Owners, Install(cf)!Unload(o) PROVE OwnersFit(cf)'
    BY <1>2, LoadIs, <1>0 DEF Install!Unload, Passed, OwnersFit
  <1>3. ASSUME NEW o \in cf.Owners, Install(cf)!Left(o) PROVE OwnersFit(cf)'
    BY <1>3, <1>0 DEF Install!Left, Passed, OwnersFit
  <1>4. ASSUME NEW o \in cf.Owners, Install(cf)!Lets(o) PROVE OwnersFit(cf)'
    <2>0. PICK n, l : n = Len(leases[o]) /\ l = leases[o][n] OBVIOUS
    <2>1. /\ Install(cf)!Release(l.unit, l.gen, o, "unloaded", manifest[l.unit])
          /\ l.unit \in UnitsOf(cf) /\ load = Idle /\ o \in leaving /\ leases[o] # <<>>
          /\ leases' = [leases EXCEPT ![o] = SubSeq(@, 1, Len(leases[o]) - 1)]
          /\ UNCHANGED <<foreign, rows, leaving, kept, load, loads>>
      BY <1>4, <2>0, LetsIs
    <2>2. \A v \in cf.Owners : v # o => leases'[v] = leases[v] BY <2>1 DEF LoadTyped
    <2>3. \A x \in kept, u \in UnitsOf(cf) \ cf.Broken : x \in group'[u].owners
      <3> SUFFICES ASSUME NEW x \in kept, NEW u \in UnitsOf(cf) \ cf.Broken PROVE x \in group'[u].owners
        OBVIOUS
      <3>1. x # o /\ x \in group[u].owners BY <1>0, <2>1
      <3>2. \A v \in UnitsOf(cf) : v # l.unit => group'[v] = group[v] BY <2>1, ReleaseOwners
      <3>3. CASE u = l.unit
        BY <3>1, LeaveIs, <3>3, <2>1, ReleaseIs DEF Drops
      <3> QED BY <3>1, <3>2, <3>3
    <2>4. Passed(cf)'
      <3>1. load.at = 0 BY <2>1, LoadIs
      <3> QED BY <3>1, <2>1 DEF Passed
    <2>5. \A x \in cf.Owners : x \notin kept' \cup leaving' \cup {load'.owner} => leases'[x] = <<>>
      BY <1>0, <2>1, <2>2
    <2> QED BY <1>0, <2>1, <2>3, <2>4, <2>5 DEF OwnersFit, Passed
  <1>5. ASSUME load # Idle, load' # Idle, load'.owner = load.owner, load'.abandoned = load.abandoned,
               UNCHANGED <<leaving, kept>>,
               \A x \in cf.Owners : x # load.owner => leases'[x] = leases[x],
               \A x \in kept, u \in UnitsOf(cf) \ cf.Broken : x \in group'[u].owners,
               Passed(cf)'
        PROVE  OwnersFit(cf)'
    BY <1>0, <1>5 DEF OwnersFit, Passed
  <1>6. CASE Install(cf)!Skip \/ Install(cf)!Applied
    <2>1. /\ load' = Install(cf)!NextUnit /\ Install(cf)!InUnit /\ UNCHANGED <<group, leases, leaving, kept>>
          /\ load.owner \in group[Install(cf)!Unit].owners
      <3>1. CASE Install(cf)!Skip BY <3>1 DEF Install!Skip
      <3>2. CASE Install(cf)!Applied
        <4>1. /\ load' = Install(cf)!NextUnit /\ Install(cf)!InUnit /\ UNCHANGED <<group, leases, leaving, kept>>
              /\ load.step > Len(cf.Binds[Install(cf)!Unit])
          BY <3>2 DEF Install!Applied
        <4>2. Install(cf)!Unit \in UnitsOf(cf) /\ load.step \in Nat BY <4>1, LoadIs
        <4>3. Len(cf.Binds[Install(cf)!Unit]) \in Nat BY <4>2, BindsAre
        <4>4. load.step > 0 BY <4>1, <4>2, <4>3
        <4>5. Busy(cf, Install(cf)!Unit) BY <4>1, <4>4, LoadIs
        <4>6. group[Install(cf)!Unit].owners = {load.owner} BY <4>2, <4>5, BusyIs
        <4> QED BY <4>1, <4>6
      <3> QED BY <1>6, <3>1, <3>2
    <2>2. load'.owner = load.owner /\ load'.abandoned = load.abandoned /\ load'.at = load.at + 1 /\ load' # Idle
      BY <2>1, NextUnitIs
    <2>3. Passed(cf)'
      <3>1. load.at \in 1..Len(cf.Units) /\ Install(cf)!Unit = cf.Units[load.at]
        BY <2>1 DEF Install!InUnit, Install!Unit
      <3> SUFFICES ASSUME ~load.abandoned, NEW k \in 1..Len(cf.Units), k < load.at + 1, cf.Units[k] \notin cf.Broken
                   PROVE  load.owner \in group[cf.Units[k]].owners
        BY <2>1, <2>2 DEF Passed
      <3>2. k < load.at \/ k = load.at BY <3>1
      <3> QED BY <3>1, <3>2, <2>1, <1>0 DEF Passed
    <2>4. load # Idle BY <2>1, LoadIs
    <2> QED BY <1>0, <1>5, <2>1, <2>2, <2>3, <2>4
  <1>7. CASE Install(cf)!Enter
    <2>0. PICK u, o, g : u = Install(cf)!Unit /\ o = load.owner
                         /\ g = IF group[u] = Unpublished THEN loads ELSE group[u].gen
      OBVIOUS
    <2>a. Entered(cf, u, o, g) BY <1>7, <2>0, EnterIs
    <2>1. /\ u \in UnitsOf(cf) /\ o \in cf.Owners /\ load # Idle
          /\ u = cf.Units[load.at] /\ load.at \in 1..Len(cf.Units)
          /\ group'[u].owners = group[u].owners \cup {o}
          /\ \A v \in UnitsOf(cf) : v # u => group'[v] = group[v]
          /\ leases' = [leases EXCEPT ![o] = Append(@, [unit |-> u, gen |-> g])]
          /\ load' = IF group[u] = Unpublished THEN [load EXCEPT !.step = 1]
                     ELSE [load EXCEPT !.at = @ + 1, !.step = 0]
          /\ UNCHANGED <<leaving, kept>>
      BY <2>a DEF Entered
    <2>2. load \in [owner : cf.Owners, at : 1..(Len(cf.Units) + 1), step : Nat, abandoned : BOOLEAN]
          /\ o # "none"
      BY <2>0, <2>1, LoadIs
    <2>3. /\ load'.owner = o /\ load'.abandoned = load.abandoned /\ load' # Idle
          /\ load'.at = load.at \/ load'.at = load.at + 1
      BY <2>0, <2>1, <2>2 DEF Idle
    <2>4. Passed(cf)'
      <3> SUFFICES ASSUME ~load.abandoned, NEW k \in 1..Len(cf.Units), k < load.at + 1, cf.Units[k] \notin cf.Broken
                   PROVE  o \in group'[cf.Units[k]].owners
        BY <2>1, <2>3 DEF Passed
      <3>1. k < load.at \/ k = load.at BY <2>1
      <3>2. CASE k < load.at
        BY <1>0, <2>0, <3>2, <1>a, <2>1 DEF Passed
      <3>3. CASE k = load.at BY <2>1, <3>3
      <3> QED BY <3>1, <3>2, <3>3
    <2>5. \A x \in kept, v \in UnitsOf(cf) \ cf.Broken : x \in group'[v].owners BY <1>0, <2>1
    <2>6. \A x \in cf.Owners : x # load.owner => leases'[x] = leases[x] BY <2>0, <2>1 DEF LoadTyped
    <2> QED BY <1>5, <2>0, <2>1, <2>3, <2>4, <2>5, <2>6
  <1>8. CASE Install(cf)!Bind
    <2>0. PICK u, i, a : u = Install(cf)!Unit /\ i = load.step /\ a = cf.Binds[u][i] OBVIOUS
    <2>a. Binding(cf, u, i, a) BY <1>8, <2>0, BindIs
    <2>1. /\ group'[u].owners = group[u].owners /\ load # Idle
          /\ \A v \in UnitsOf(cf) : v # u => group'[v] = group[v]
          /\ load' = [load EXCEPT !.step = @ + 1]
          /\ UNCHANGED <<leaving, kept, leases>>
      BY <2>a DEF Binding
    <2>2. load \in [owner : cf.Owners, at : 1..(Len(cf.Units) + 1), step : Nat, abandoned : BOOLEAN]
          /\ load.owner # "none"
      BY <2>1, LoadIs
    <2>3. /\ load'.owner = load.owner /\ load'.abandoned = load.abandoned /\ load' # Idle
          /\ load'.at = load.at
      BY <2>1, <2>2 DEF Idle
    <2>4. \A v \in UnitsOf(cf) : group'[v].owners = group[v].owners BY <2>1
    <2>5. Passed(cf)' BY <1>0, <1>a, <2>3, <2>4 DEF Passed
    <2>6. \A x \in kept, v \in UnitsOf(cf) \ cf.Broken : x \in group'[v].owners BY <1>0, <2>4
    <2> QED BY <1>5, <2>1, <2>3, <2>5, <2>6
  <1>9. CASE Install(cf)!Fail
    <2>0. PICK u, o : u = Install(cf)!Unit /\ o = load.owner OBVIOUS
    <2>1. /\ Install(cf)!InUnit /\ u \in UnitsOf(cf) /\ o \in cf.Owners /\ load # Idle /\ Place(cf, u) = load.at
          /\ Install(cf)!Release(u, group[u].gen, o, "skipped", "skipped")
          /\ load' = Install(cf)!NextUnit
          /\ load.abandoned \/ u \in cf.Broken
          /\ UNCHANGED <<leases, leaving, kept>>
      BY <1>9, <2>0, FailIs
    <2>2. load'.owner = load.owner /\ load'.abandoned = load.abandoned /\ load'.at = load.at + 1 /\ load' # Idle
      BY <2>1, NextUnitIs
    <2>3. \A v \in UnitsOf(cf) : v # u => group'[v] = group[v] BY <2>1, ReleaseOwners
    <2>4. Passed(cf)'
      <3>1. load.at \in 1..Len(cf.Units) /\ u = cf.Units[load.at]
        BY <2>0, <2>1 DEF Install!InUnit, Install!Unit
      <3> SUFFICES ASSUME ~load.abandoned, NEW k \in 1..Len(cf.Units), k < load.at + 1, cf.Units[k] \notin cf.Broken
                   PROVE  load.owner \in group'[cf.Units[k]].owners
        BY <2>1, <2>2 DEF Passed
      <3>2. u \in cf.Broken BY <2>1
      <3>3. k # load.at /\ k < load.at BY <3>1, <3>2
      <3>4. cf.Units[k] \in UnitsOf(cf) /\ cf.Units[k] # u BY <1>a, <3>2
      <3> QED BY <1>0, <2>3, <3>3, <3>4 DEF Passed
    <2>5. \A x \in kept, v \in UnitsOf(cf) \ cf.Broken : x \in group'[v].owners
      <3> SUFFICES ASSUME NEW x \in kept, NEW v \in UnitsOf(cf) \ cf.Broken PROVE x \in group'[v].owners
        OBVIOUS
      <3>1. x # o /\ x \in group[v].owners BY <1>0, <2>0, <2>1
      <3>2. CASE v = u
        BY <3>1, <3>2, <2>1, LeaveIs, ReleaseIs DEF Drops
      <3> QED BY <2>3, <3>1, <3>2
    <2> QED BY <1>5, <2>1, <2>2, <2>4, <2>5
  <1>10. CASE Install(cf)!End
    <2>1. /\ load' = Idle /\ load.at > Len(cf.Units)
          /\ kept' = IF load.abandoned THEN kept ELSE kept \cup {load.owner}
          /\ UNCHANGED <<group, leases, leaving>>
      BY <1>10 DEF Install!NoLoad, Idle, Install!End
    <2>2. load # Idle
      <3>1. ~(0 > Len(cf.Units)) BY <1>a
      <3> QED BY <2>1, <3>1, LoadIs
    <2>3. load'.owner = "none" /\ load'.at = 0 BY <2>1 DEF Idle
    <2>4. \A x \in kept', u \in UnitsOf(cf) \ cf.Broken : x \in group'[u].owners
      <3> SUFFICES ASSUME NEW x \in kept', NEW u \in UnitsOf(cf) \ cf.Broken PROVE x \in group[u].owners
        BY <2>1
      <3>1. CASE x \in kept BY <1>0, <3>1
      <3>2. CASE x \notin kept
        <4>1. x = load.owner /\ ~load.abandoned BY <2>1, <3>2
        <4>2. Place(cf, u) \in 1..Len(cf.Units) /\ cf.Units[Place(cf, u)] = u BY UnitsAre
        <4>3. Place(cf, u) < load.at
          <5>1. load.at \in 0..(Len(cf.Units) + 1) BY LoadIs
          <5>2. Len(cf.Units) \in Nat BY <1>a
          <5>3. Place(cf, u) \in 1..Len(cf.Units) /\ load.at > Len(cf.Units) BY <4>2, <2>1
          <5> HIDE DEF LoadBase
          <5> QED BY ONLY <5>1, <5>2, <5>3, SMT
        <4> QED BY <4>1, <4>2, <4>3, <1>0 DEF Passed
      <3> QED BY <3>1, <3>2
    <2>5. kept' \cap leaving' = {} BY <1>0, <2>1, <2>2
    <2>6. \A x \in cf.Owners : x \notin kept' \cup leaving' \cup {load'.owner} => leases'[x] = <<>>
      BY <1>0, <2>1, <2>2
    <2>7. Passed(cf)' BY <2>3 DEF Passed
    <2> QED BY <2>1, <2>4, <2>5, <2>6, <2>7 DEF OwnersFit, Passed
  <1>11. CASE Install(cf)!Abandon
    BY <1>11, LoadIs, <1>0 DEF Install!Abandon, Passed, OwnersFit
  <1>12. ASSUME NEW a \in cf.Attrs, Install(cf)!ThirdParty(a) PROVE OwnersFit(cf)'
    BY <1>0, <1>12 DEF Install!ThirdParty, OwnersFit, Passed
  <1> QED
    BY <1>1, <1>2, <1>3, <1>4, <1>6, <1>7, <1>8, <1>9, <1>10, <1>11, <1>12 DEF Install!Next

\* Leases, where no manager gets one and a group that is there was there.
LEMMA LeasesRest ==
  ASSUME NEW cf, Install(cf)!Shape, LoadTyped(cf), LeasesFit(cf), loads' \in Nat, loads <= loads',
         \A x \in cf.Owners : /\ Len(leases'[x]) \in Nat /\ Len(leases'[x]) <= Len(leases[x])
                              /\ \A p \in 1..Len(leases'[x]) : leases'[x][p] = leases[x][p],
         load' # Idle /\ loads' = loads =>
             /\ load # Idle /\ load'.at \in Nat
             /\ load'.at > load.at \/ (load'.at = load.at /\ (load.step > 0 => load'.step > 0)),
         \A x \in cf.Owners : \A p \in 1..Len(leases'[x]) :
             group'[leases[x][p].unit].gen = leases[x][p].gen =>
                 Live(leases[x][p]) /\ x \in group'[leases[x][p].unit].owners
  PROVE  LeasesFit(cf)'
  <1> SUFFICES ASSUME NEW o \in cf.Owners, NEW p \in 1..Len(leases'[o])
               PROVE  /\ leases'[o][p].gen <= loads'
                      /\ load' # Idle /\ leases'[o][p].gen = loads' =>
                             \/ Place(cf, leases'[o][p].unit) < load'.at
                             \/ Place(cf, leases'[o][p].unit) = load'.at /\ load'.step > 0
                      /\ group'[leases'[o][p].unit].gen = leases'[o][p].gen => o \in group'[leases'[o][p].unit].owners
                      /\ \A q \in 1..Len(leases'[o]) :
                             p < q /\ group'[leases'[o][p].unit].gen = leases'[o][p].gen
                                   /\ group'[leases'[o][q].unit].gen = leases'[o][q].gen
                             /\ leases'[o][p].unit \notin cf.Broken /\ leases'[o][q].unit \notin cf.Broken
                             => Place(cf, leases'[o][p].unit) < Place(cf, leases'[o][q].unit)
    BY DEF LeasesFit, Live
  <1>0. Len(leases[o]) \in Nat /\ loads \in Nat BY LeasesAre DEF LoadTyped
  <1>1. \A q \in 1..Len(leases'[o]) : q \in 1..Len(leases[o]) /\ leases'[o][q] = leases[o][q]
    BY <1>0
  <1>2. PICK l : l = leases[o][p] OBVIOUS
  <1>3. leases'[o][p] = l /\ p \in 1..Len(leases[o]) BY <1>1, <1>2
  <1>4. l.unit \in UnitsOf(cf) /\ l.gen \in Nat \ {0}
    <2>1. \A q \in 1..Len(leases[o]) : leases[o][q].unit \in UnitsOf(cf) /\ leases[o][q].gen \in Nat \ {0}
      BY LeasesAre
    <2> QED BY <1>2, <1>3, <2>1
  <1>5. Place(cf, l.unit) \in Nat BY <1>4, UnitsAre
  <1>6. load.step \in Nat /\ load.at \in Nat
    <2>1. load.step \in Nat /\ load.at \in 0..(Len(cf.Units) + 1) BY LoadIs
    <2>2. Len(cf.Units) \in Nat BY UnitsAre
    <2> QED BY ONLY <2>1, <2>2
  <1>7. /\ l.gen <= loads
        /\ load # Idle /\ l.gen = loads =>
               \/ Place(cf, l.unit) < load.at
               \/ Place(cf, l.unit) = load.at /\ load.step > 0
    BY <1>2, <1>3 DEF LeasesFit
  <1>8. l.gen <= loads' BY <1>0, <1>4, <1>7
  <1>9. load' # Idle /\ l.gen = loads' =>
             \/ Place(cf, l.unit) < load'.at
             \/ Place(cf, l.unit) = load'.at /\ load'.step > 0
    <2> SUFFICES ASSUME load' # Idle, l.gen = loads'
                 PROVE  \/ Place(cf, l.unit) < load'.at
                        \/ Place(cf, l.unit) = load'.at /\ load'.step > 0
      OBVIOUS
    <2>1. loads' = loads BY <1>0, <1>4, <1>7
    <2>2. /\ load # Idle /\ load'.at \in Nat
          /\ load'.at > load.at \/ (load'.at = load.at /\ (load.step > 0 => load'.step > 0))
      BY <2>1
    <2>3. \/ Place(cf, l.unit) < load.at
          \/ Place(cf, l.unit) = load.at /\ load.step > 0
      BY <1>7, <2>1, <2>2
    <2> QED BY ONLY <2>2, <2>3, <1>5, <1>6
  <1>10. group'[l.unit].gen = l.gen => o \in group'[l.unit].owners BY <1>2
  <1>11. ASSUME NEW q \in 1..Len(leases'[o]), p < q, group'[l.unit].gen = l.gen,
                group'[leases'[o][q].unit].gen = leases'[o][q].gen,
                l.unit \notin cf.Broken, leases'[o][q].unit \notin cf.Broken
         PROVE  Place(cf, l.unit) < Place(cf, leases'[o][q].unit)
    <2>1. q \in 1..Len(leases[o]) /\ leases'[o][q] = leases[o][q] BY <1>1
    <2>2. Live(l) /\ Live(leases[o][q]) BY <1>2, <1>11, <2>1
    <2> QED BY <1>2, <1>3, <1>11, <2>1, <2>2 DEF LeasesFit
  <1> QED BY <1>3, <1>8, <1>9, <1>10, <1>11

\* What is published of an incompatible unit, and what a release takes from a
\* live lease.
LEMMA LeaseLets ==
  ASSUME NEW cf, Install(cf)!Shape, LoadTyped(cf), GroupsFit(cf), Nested(cf), LeasesFit(cf),
         NEW u \in UnitsOf(cf), NEW gen, NEW o \in cf.Owners, NEW gone, NEW staying,
         Install(cf)!Release(u, gen, o, gone, staying),
         NEW x \in cf.Owners, NEW p \in 1..Len(leases[x]),
         x = o /\ leases[x][p].unit = u => ~Leaves(u, o) \/ o \notin group[u].owners \/ ~Live(leases[x][p]),
         group'[leases[x][p].unit].gen = leases[x][p].gen
  PROVE  Live(leases[x][p]) /\ x \in group'[leases[x][p].unit].owners
  <1>1. PICK l : l = leases[x][p] OBVIOUS
  <1>2. l.unit \in UnitsOf(cf) /\ l.gen \in Nat \ {0} BY <1>1, LeasesAre
  <1>3. Live(l) => x \in group[l.unit].owners BY <1>1 DEF LeasesFit
  <1>4. CASE l.unit # u
    BY <1>2, <1>4, ReleaseOwners, <1>1, <1>3 DEF Live
  <1>5. CASE l.unit = u
    <2>1. CASE Drops(cf, u, o)
      BY <2>1, DropIs, <1>1, <1>2, <1>5
    <2>2. CASE Leaves(u, o)
      BY <2>2, LeaveIs, <1>1, <1>5, <1>3 DEF Live
    <2>3. CASE group' = group BY <1>1, <1>3, <2>3 DEF Live
    <2> QED BY <2>1, <2>2, <2>3, ReleaseIs
  <1> QED BY <1>4, <1>5

\* A manager that comes to a unit takes its lease after those of the units before.
LEMMA EnterLeases ==
  ASSUME NEW cf, Install(cf)!Shape, LoadTyped(cf), GroupsFit(cf), Nested(cf), LeasesFit(cf),
         NEW u, NEW o, NEW g, Entered(cf, u, o, g), o = load.owner,
         g = IF group[u] = Unpublished THEN loads ELSE group[u].gen
  PROVE  LeasesFit(cf)'
  <1>a. /\ u \in UnitsOf(cf) /\ o \in cf.Owners /\ g \in 1..loads /\ g \in 1..cf.MaxLoads
        /\ o \notin group[u].owners /\ u = cf.Units[load.at] /\ load.at \in 1..Len(cf.Units)
    BY ONLY Entered(cf, u, o, g), Zenon DEF Entered
  <1>b. load # Idle /\ load.step = 0 /\ loads' = loads BY ONLY Entered(cf, u, o, g), Zenon DEF Entered
  <1>c. /\ group'[u].owners = group[u].owners \cup {o} /\ group'[u].gen = g
        /\ \A v \in UnitsOf(cf) : v # u => group'[v] = group[v]
    BY ONLY Entered(cf, u, o, g), Zenon DEF Entered
  <1>d. leases' = [leases EXCEPT ![o] = Append(@, [unit |-> u, gen |-> g])] BY ONLY Entered(cf, u, o, g), Zenon DEF Entered
  <1>1. load' = IF group[u] = Unpublished THEN [load EXCEPT !.step = 1]
                ELSE [load EXCEPT !.at = @ + 1, !.step = 0]
    BY ONLY Entered(cf, u, o, g), Zenon DEF Entered
  <1>2. load \in [owner : cf.Owners, at : 1..(Len(cf.Units) + 1), step : Nat, abandoned : BOOLEAN]
    BY <1>b, LoadIs
  <1>3. Place(cf, u) = load.at /\ Len(cf.Units) \in Nat BY <1>a, UnitsAre
  <1>4. \/ load'.at = load.at /\ load'.step = 1
        \/ load'.at = load.at + 1
    BY ONLY <1>1, <1>2
  <1>5. /\ Len(leases'[o]) = Len(leases[o]) + 1 /\ Len(leases[o]) \in Nat
        /\ leases'[o][Len(leases[o]) + 1] = [unit |-> u, gen |-> g]
        /\ \A p \in 1..Len(leases[o]) : leases'[o][p] = leases[o][p]
        /\ \A v \in cf.Owners : v # o => leases'[v] = leases[v]
    <2>1. [unit |-> u, gen |-> g] \in Lease(cf) BY <1>a DEF Lease
    <2>2. leases \in [cf.Owners -> Seq(Lease(cf))] BY DEF LoadTyped
    <2>3. PICK l : l = [unit |-> u, gen |-> g] OBVIOUS
    <2>4. l \in Lease(cf) /\ leases' = [leases EXCEPT ![o] = Append(@, l)] /\ o \in cf.Owners
      BY <1>a, <1>d, <2>1, <2>3
    <2>5. /\ Len(leases'[o]) = Len(leases[o]) + 1 /\ Len(leases[o]) \in Nat
          /\ leases'[o][Len(leases[o]) + 1] = l
          /\ \A p \in 1..Len(leases[o]) : leases'[o][p] = leases[o][p]
          /\ \A v \in cf.Owners : v # o => leases'[v] = leases[v]
      BY ONLY <2>2, <2>4, LeaseAdded
    <2> QED BY <2>3, <2>5
  <1>6. \A x \in cf.Owners : Len(leases[x]) \in Nat /\ \A p \in 1..Len(leases[x]) :
            leases[x][p].unit \in UnitsOf(cf) /\ leases[x][p].gen \in Nat \ {0}
    BY LeasesAre
  <1>n. loads \in Nat /\ load.at \in Nat /\ g \in Nat /\ g <= loads
    <2>1. loads \in 0..cf.MaxLoads /\ cf.MaxLoads \in Nat BY UnitsAre DEF LoadTyped
    <2> QED BY ONLY <2>1, <1>a, <1>3
  \* What the managers had already.
  <1>7. ASSUME NEW x \in cf.Owners, NEW p \in 1..Len(leases[x]), NEW l, l = leases[x][p]
        PROVE  /\ l.gen <= loads
               /\ l.gen = loads => Place(cf, l.unit) < load.at
               /\ group'[l.unit].gen = l.gen => Live(l) /\ x \in group[l.unit].owners
                                                /\ x \in group'[l.unit].owners
    <2>1. /\ l.gen <= loads
          /\ l.gen = loads => \/ Place(cf, l.unit) < load.at
                              \/ Place(cf, l.unit) = load.at /\ load.step > 0
          /\ Live(l) => x \in group[l.unit].owners
      BY <1>b, <1>7 DEF LeasesFit
    <2>2. l.gen = loads => Place(cf, l.unit) < load.at BY ONLY <2>1, <1>b
    <2>3. l.unit \in UnitsOf(cf) BY <1>6, <1>7
    <2>4. ASSUME group'[l.unit].gen = l.gen
          PROVE  Live(l) /\ x \in group[l.unit].owners /\ x \in group'[l.unit].owners
      <3>1. CASE l.unit # u
        BY <1>c, <2>3, <3>1, <2>1, <2>4 DEF Live
      <3>2. CASE l.unit = u /\ group[u] = Unpublished
        BY <1>c, <2>4, <3>2, <2>2, <1>3, <1>n
      <3>3. CASE l.unit = u /\ group[u] # Unpublished
        BY <1>c, <2>4, <3>3, <2>1 DEF Live
      <3> QED BY <3>1, <3>2, <3>3
    <2> QED BY <2>1, <2>2, <2>4
  \* The new lease is in order.
  <1>8. ASSUME NEW p \in 1..Len(leases[o]), NEW l, l = leases[o][p], group'[l.unit].gen = l.gen,
               l.unit \notin cf.Broken, u \notin cf.Broken
        PROVE  Place(cf, l.unit) < load.at
    <2>1. o \in group[l.unit].owners /\ l.unit \in UnitsOf(cf) BY <1>a, <1>6, <1>7, <1>8
    <2>2. l.unit # u BY <2>1, <1>a
    <2>3. Place(cf, l.unit) # load.at /\ Place(cf, l.unit) \in 1..Len(cf.Units)
      <3>1. cf.Units[Place(cf, l.unit)] = l.unit /\ Place(cf, l.unit) \in 1..Len(cf.Units) BY <2>1, UnitsAre
      <3> QED BY <3>1, <2>2, <1>a
    <2>4. ~(Place(cf, u) < Place(cf, l.unit))
      BY <1>a, <1>8, <2>1 DEF Nested
    <2> QED BY ONLY <2>3, <2>4, <1>3, <1>n
  <1>9. ASSUME NEW x \in cf.Owners, NEW p \in 1..Len(leases'[x])
        PROVE  \/ p \in 1..Len(leases[x]) /\ leases'[x][p] = leases[x][p]
               \/ x = o /\ p = Len(leases[o]) + 1 /\ leases'[x][p] = [unit |-> u, gen |-> g]
    <2>1. CASE x # o BY <1>5, <2>1
    <2>2. CASE x = o
      BY <1>5, <2>2
    <2> QED BY <2>1, <2>2
  <1>10. ASSUME NEW x \in cf.Owners, NEW p \in 1..Len(leases'[x]), NEW l, l = leases'[x][p]
         PROVE  /\ l.gen <= loads'
                /\ load' # Idle /\ l.gen = loads' =>
                      \/ Place(cf, l.unit) < load'.at
                      \/ Place(cf, l.unit) = load'.at /\ load'.step > 0
                /\ group'[l.unit].gen = l.gen => x \in group'[l.unit].owners
                /\ \A q \in 1..Len(leases'[x]) :
                      p < q /\ group'[l.unit].gen = l.gen
                      /\ group'[leases'[x][q].unit].gen = leases'[x][q].gen
                      /\ l.unit \notin cf.Broken /\ leases'[x][q].unit \notin cf.Broken
                      => Place(cf, l.unit) < Place(cf, leases'[x][q].unit)
    <2>1. CASE p \in 1..Len(leases[x]) /\ leases'[x][p] = leases[x][p]
      <3>1. /\ l.gen <= loads
            /\ l.gen = loads => Place(cf, l.unit) < load.at
            /\ group'[l.unit].gen = l.gen => Live(l) /\ x \in group'[l.unit].owners
        BY <1>7, <1>10, <2>1
      <3>2. Place(cf, l.unit) \in 1..Len(cf.Units)
        BY <1>6, <1>10, <2>1, UnitsAre
      <3>3. l.gen = loads' => Place(cf, l.unit) < load'.at
        BY ONLY <3>1, <3>2, <1>b, <1>3, <1>4, <1>n
      <3>4. ASSUME NEW q \in 1..Len(leases'[x]), p < q, group'[l.unit].gen = l.gen,
                   group'[leases'[x][q].unit].gen = leases'[x][q].gen,
                   l.unit \notin cf.Broken, leases'[x][q].unit \notin cf.Broken
            PROVE  Place(cf, l.unit) < Place(cf, leases'[x][q].unit)
        <4>1. CASE q \in 1..Len(leases[x]) /\ leases'[x][q] = leases[x][q]
          BY <3>1, <3>4, <4>1, <1>7, <1>10, <2>1 DEF LeasesFit
        <4>2. CASE x = o /\ leases'[x][q] = [unit |-> u, gen |-> g]
          BY <4>2, <1>8, <1>10, <2>1, <3>4, <1>3
        <4> QED BY <4>1, <4>2, <1>9
      <3> QED BY <3>1, <3>3, <3>4, <1>b
    <2>2. CASE x = o /\ p = Len(leases[o]) + 1 /\ leases'[x][p] = [unit |-> u, gen |-> g]
      <3>1. l.unit = u /\ l.gen = g BY <2>2, <1>10
      <3>2. g <= loads BY <1>n
      <3>3. Place(cf, u) < load'.at \/ (Place(cf, u) = load'.at /\ load'.step > 0)
        BY ONLY <1>3, <1>4, <1>n
      <3>4. o \in group'[u].owners BY <1>c
      <3>5. \A q \in 1..Len(leases'[x]) : ~(p < q) BY <1>5, <2>2
      <3> QED BY <3>1, <3>2, <3>3, <3>4, <3>5, <2>2, <1>b
    <2> QED BY <2>1, <2>2, <1>9
  <1> QED BY <1>10 DEF LeasesFit, Live

LEMMA LeasesKept ==
  ASSUME NEW cf, Install(cf)!Shape, LoadBase(cf), Nested(cf), LeasesFit(cf), Install(cf)!Next
  PROVE  LeasesFit(cf)'
  <1> USE DEF LoadBase
  <1>0. loads \in Nat /\ load.step \in Nat /\ load.at \in Nat
    <2>1. loads \in 0..cf.MaxLoads /\ cf.MaxLoads \in Nat /\ Len(cf.Units) \in Nat BY UnitsAre DEF LoadTyped
    <2>2. load.step \in Nat /\ load.at \in 0..(Len(cf.Units) + 1) BY LoadIs
    <2> HIDE DEF LoadBase
    <2> QED BY ONLY <2>1, <2>2
  <1>a. \A x \in cf.Owners : Len(leases[x]) \in Nat BY LeasesAre
  <1>b. \A x \in cf.Owners : \A p \in 1..Len(leases[x]) : Live(leases[x][p]) => x \in group[leases[x][p].unit].owners
    BY DEF LeasesFit
  <1>1. ASSUME leases' = leases, group' = group, loads' \in Nat, loads <= loads',
               load' # Idle /\ loads' = loads =>
                 /\ load # Idle /\ load'.at \in Nat
                 /\ load'.at > load.at \/ (load'.at = load.at /\ (load.step > 0 => load'.step > 0))
        PROVE  LeasesFit(cf)'
    BY <1>1, <1>b, <1>a, LeasesRest DEF Live
  <1>2. ASSUME NEW o \in cf.Owners, Install(cf)!Begin(o) PROVE LeasesFit(cf)'
    BY <1>2, <1>0, <1>1 DEF Install!Begin
  <1>3. CASE Install(cf)!End \/ Install(cf)!Abandon
             \/ (\E o \in cf.Owners : Install(cf)!Unload(o) \/ Install(cf)!Left(o))
             \/ (\E a \in cf.Attrs : Install(cf)!ThirdParty(a))
    <2>1. leases' = leases /\ group' = group /\ loads' = loads
      BY <1>3 DEF Install!End, Install!Abandon, Install!Unload, Install!Left, Install!ThirdParty
    <2>2. load' = Idle \/ load' = load \/ (load # Idle /\ load' = [load EXCEPT !.abandoned = TRUE])
      <3>1. Install(cf)!NoLoad = Idle BY DEF Install!NoLoad, Idle
      <3>2. CASE Install(cf)!End BY <3>1, <3>2 DEF Install!End
      <3>3. CASE Install(cf)!Abandon BY <3>1, <3>3 DEF Install!Abandon
      <3>4. ASSUME NEW o \in cf.Owners, Install(cf)!Unload(o) \/ Install(cf)!Left(o) PROVE load' = load
        BY <3>4 DEF Install!Unload, Install!Left
      <3>5. ASSUME NEW a \in cf.Attrs, Install(cf)!ThirdParty(a) PROVE load' = load
        BY <3>5 DEF Install!ThirdParty
      <3> QED BY <1>3, <3>2, <3>3, <3>4, <3>5
    <2>3. load # Idle => load \in [owner : cf.Owners, at : 1..(Len(cf.Units) + 1), step : Nat, abandoned : BOOLEAN]
      BY LoadIs
    <2>4. load' # Idle => load # Idle /\ load'.at = load.at /\ load'.step = load.step BY <2>2, <2>3
    <2>5. loads <= loads BY ONLY <1>0
    <2> QED BY <1>1, <1>0, <2>1, <2>4, <2>5
  <1>4. CASE Install(cf)!Skip \/ Install(cf)!Applied
    <2>1. leases' = leases /\ group' = group /\ loads' = loads /\ load' = Install(cf)!NextUnit /\ Install(cf)!InUnit
      BY <1>4 DEF Install!Skip, Install!Applied
    <2>2. load # Idle /\ load'.at = load.at + 1 BY <2>1, NextUnitIs, LoadIs
    <2>3. load'.at \in Nat /\ load'.at > load.at /\ loads <= loads BY ONLY <1>0, <2>2
    <2> QED BY <1>1, <1>0, <2>1, <2>2, <2>3
  <1>5. CASE Install(cf)!Enter
    <2>0. PICK u, o, g : u = Install(cf)!Unit /\ o = load.owner
                         /\ g = IF group[u] = Unpublished THEN loads ELSE group[u].gen
      OBVIOUS
    <2>1. Entered(cf, u, o, g) BY <1>5, <2>0, EnterIs
    <2> QED BY <2>0, <2>1, EnterLeases
  <1>6. CASE Install(cf)!Bind
    <2>0. PICK u, i, a : u = Install(cf)!Unit /\ i = load.step /\ a = cf.Binds[u][i] OBVIOUS
    <2>a. Binding(cf, u, i, a) BY <1>6, <2>0, BindIs
    <2>1. /\ group'[u].owners = group[u].owners /\ load # Idle /\ group'[u].gen = group[u].gen
          /\ \A v \in UnitsOf(cf) : v # u => group'[v] = group[v]
          /\ load' = [load EXCEPT !.step = @ + 1]
          /\ UNCHANGED <<leases, loads>>
      BY <2>a DEF Binding
    <2>2. load \in [owner : cf.Owners, at : 1..(Len(cf.Units) + 1), step : Nat, abandoned : BOOLEAN]
      BY <2>1, LoadIs
    <2>3. load'.at = load.at /\ load'.step = load.step + 1 BY <2>1, <2>2
    <2>4. load'.step > 0 /\ loads <= loads BY ONLY <2>3, <1>0
    <2>5. \A v \in UnitsOf(cf) : group'[v].owners = group[v].owners /\ group'[v].gen = group[v].gen BY <2>1
    <2>6. \A x \in cf.Owners : \A p \in 1..Len(leases'[x]) :
             group'[leases[x][p].unit].gen = leases[x][p].gen =>
                 Live(leases[x][p]) /\ x \in group'[leases[x][p].unit].owners
      <3> SUFFICES ASSUME NEW x \in cf.Owners, NEW p \in 1..Len(leases[x]),
                          group'[leases[x][p].unit].gen = leases[x][p].gen
                   PROVE  Live(leases[x][p]) /\ x \in group'[leases[x][p].unit].owners
        BY <2>1
      <3>1. leases[x][p].unit \in UnitsOf(cf) BY LeasesAre
      <3> QED BY <3>1, <2>5, <1>b DEF Live
    <2>7. \A x \in cf.Owners : /\ Len(leases'[x]) \in Nat /\ Len(leases'[x]) <= Len(leases[x])
                               /\ \A p \in 1..Len(leases'[x]) : leases'[x][p] = leases[x][p]
      BY <2>1, <1>a
    <2> QED BY <2>1, <2>3, <2>4, <2>6, <2>7, <1>0, LeasesRest
  <1>7. CASE Install(cf)!Fail
    <2>0. PICK u, o : u = Install(cf)!Unit /\ o = load.owner OBVIOUS
    <2>1. /\ Install(cf)!InUnit /\ u \in UnitsOf(cf) /\ o \in cf.Owners /\ load # Idle
          /\ Install(cf)!Release(u, group[u].gen, o, "skipped", "skipped")
          /\ load' = Install(cf)!NextUnit
          /\ load.step = 0 => o \notin group[u].owners
          /\ load.step > 0 => Busy(cf, u)
          /\ UNCHANGED <<leases, loads>>
      BY <1>7, <2>0, FailIs
    <2>2. load'.at = load.at + 1 BY <2>1, NextUnitIs
    <2>3. load'.at \in Nat /\ load'.at > load.at /\ loads <= loads BY ONLY <1>0, <2>2
    <2>4. ~Leaves(u, o) \/ o \notin group[u].owners
      <3>1. CASE load.step = 0 BY <2>1, <3>1
      <3>2. CASE load.step > 0
        BY <2>0, <2>1, <3>2, BusyIs DEF Leaves
      <3> QED BY <3>1, <3>2, <1>0
    <2>5. \A x \in cf.Owners : \A p \in 1..Len(leases[x]) :
             group'[leases[x][p].unit].gen = leases[x][p].gen =>
                 Live(leases[x][p]) /\ x \in group'[leases[x][p].unit].owners
      BY <2>1, <2>4, LeaseLets
    <2>7. \A x \in cf.Owners : /\ Len(leases'[x]) \in Nat /\ Len(leases'[x]) <= Len(leases[x])
                               /\ \A p \in 1..Len(leases'[x]) : leases'[x][p] = leases[x][p]
      BY <2>1, <1>a
    <2> QED BY <2>1, <2>3, <2>5, <2>7, <1>0, LeasesRest
  <1>8. ASSUME NEW o \in cf.Owners, Install(cf)!Lets(o) PROVE LeasesFit(cf)'
    <2>0. PICK n, l : n = Len(leases[o]) /\ l = leases[o][n] OBVIOUS
    <2>1. /\ Install(cf)!Release(l.unit, l.gen, o, "unloaded", manifest[l.unit])
          /\ l.unit \in UnitsOf(cf) /\ load = Idle /\ leases[o] # <<>> /\ n \in 1..Len(leases[o])
          /\ leases' = [leases EXCEPT ![o] = SubSeq(@, 1, Len(leases[o]) - 1)]
          /\ UNCHANGED <<load, loads>>
      BY <1>8, <2>0, LetsIs
    <2>2. /\ Len(leases'[o]) = Len(leases[o]) - 1 /\ Len(leases[o]) \in Nat \ {0}
          /\ \A p \in 1..Len(leases'[o]) : leases'[o][p] = leases[o][p] /\ p \in 1..Len(leases[o])
          /\ \A v \in cf.Owners : v # o => leases'[v] = leases[v]
      BY <2>1, LeaseGone DEF LoadTyped
    <2>3. \A x \in cf.Owners : /\ Len(leases'[x]) \in Nat /\ Len(leases'[x]) <= Len(leases[x])
                               /\ \A p \in 1..Len(leases'[x]) : leases'[x][p] = leases[x][p]
      <3> SUFFICES ASSUME NEW x \in cf.Owners
                   PROVE  /\ Len(leases'[x]) \in Nat /\ Len(leases'[x]) <= Len(leases[x])
                          /\ \A p \in 1..Len(leases'[x]) : leases'[x][p] = leases[x][p]
        OBVIOUS
      <3>1. CASE x = o BY <2>2, <3>1
      <3>2. CASE x # o BY <2>2, <3>2, <1>a
      <3> QED BY <3>1, <3>2
    <2>4. ASSUME NEW x \in cf.Owners, NEW p \in 1..Len(leases'[x]),
                 group'[leases[x][p].unit].gen = leases[x][p].gen
          PROVE  Live(leases[x][p]) /\ x \in group'[leases[x][p].unit].owners
      <3>0. p \in 1..Len(leases[x])
        BY <2>3, <1>a, p \in 1..Len(leases'[x])
      <3>1. ASSUME x = o, leases[x][p].unit = l.unit, Leaves(l.unit, o), o \in group[l.unit].owners,
                   Live(leases[x][p])
            PROVE  FALSE
        <4>1. group[l.unit].gen = l.gen
          <5>1. group' # group
            BY <2>1, <3>1, LeaveIs
          <5>2. ~Drops(cf, l.unit, o) BY <3>1 DEF Drops, Leaves
          <5> QED BY <5>1, <5>2, <2>1, ReleaseIs
        <4>2. Live(l) BY <4>1 DEF Live
        <4>3. l.unit \notin cf.Broken
          BY <3>1, OwnedIsPublished, <2>1, LoadIs DEF Busy, Nested
        <4>4. p < n
          BY <2>2, <3>1, <2>0
        <4>5. Place(cf, leases[o][p].unit) < Place(cf, leases[o][n].unit)
          BY <2>0, <2>1, <3>0, <3>1, <4>2, <4>3, <4>4 DEF LeasesFit
        <4>6. Place(cf, l.unit) < Place(cf, l.unit) BY <4>5, <3>1, <2>0
        <4>7. Place(cf, l.unit) \in 1..Len(cf.Units) BY <2>1, UnitsAre
        <4> QED BY ONLY <4>6, <4>7
      <3>2. x = o /\ leases[x][p].unit = l.unit =>
                ~Leaves(l.unit, o) \/ o \notin group[l.unit].owners \/ ~Live(leases[x][p])
        BY <3>1
      <3> QED BY <2>1, <2>4, <3>0, <3>2, LeaseLets
    <2>5. loads' = loads /\ loads <= loads /\ load' = Idle BY <2>1, <1>0
    <2> QED BY <2>3, <2>4, <2>5, <1>0, LeasesRest
  <1> QED BY <1>2, <1>3, <1>4, <1>5, <1>6, <1>7, <1>8 DEF Install!Next

\* Who owns what, where no owner comes and no unit becomes busy.
LEMMA NestedRests ==
  ASSUME NEW cf, Install(cf)!Shape, Nested(cf),
         \A u \in UnitsOf(cf) : /\ group'[u] # Unpublished => group[u] # Unpublished
                                /\ Busy(cf, u)' => Busy(cf, u),
         \A u \in cf.Broken : Busy(cf, u) => Busy(cf, u)' \/ group'[u] = Unpublished,
         \A u, v \in UnitsOf(cf) \ cf.Broken :
             Place(cf, u) < Place(cf, v) => group'[v].owners \subseteq group'[u].owners
  PROVE  Nested(cf)'
  BY UnitsAre DEF Nested

LEMMA NestedKept ==
  ASSUME NEW cf, Install(cf)!Shape, LoadBase(cf), OwnersFit(cf), Nested(cf), LeasesFit(cf), Install(cf)!Next
  PROVE  Nested(cf)'
  <1> USE DEF LoadBase
  <1>0. /\ \A u \in cf.Broken : group[u] # Unpublished => Busy(cf, u)
        /\ \A u, v \in UnitsOf(cf) \ cf.Broken :
               Place(cf, u) < Place(cf, v) =>
                   /\ group[v].owners \subseteq group[u].owners
                   /\ Busy(cf, u) => group[v] = Unpublished
    BY DEF Nested
  <1>a. cf.Broken \in SUBSET UnitsOf(cf) BY UnitsAre
  <1>b. \A u, v \in UnitsOf(cf) : Place(cf, u) < Place(cf, v) => u # v
    BY UnitsAre
  <1>c. load.step = 0 => \A u : ~Busy(cf, u) BY DEF Busy
  <1>1. ASSUME group' = group, \A u \in UnitsOf(cf) : Busy(cf, u)' => Busy(cf, u),
               \A u \in cf.Broken : Busy(cf, u) => Busy(cf, u)'
        PROVE  Nested(cf)'
    BY <1>0, <1>1, NestedRests
  <1>2. ASSUME NEW o \in cf.Owners, Install(cf)!Begin(o) PROVE Nested(cf)'
    <2>1. group' = group /\ load.step = 0 /\ load' = [owner |-> o, at |-> 1, step |-> 0, abandoned |-> FALSE]
      BY <1>2, LoadIs DEF Install!Begin
    <2>2. \A u : ~Busy(cf, u)' BY <2>1 DEF Busy
    <2> QED BY <1>1, <1>c, <2>1, <2>2
  <1>3. ASSUME load' = load, group' = group PROVE Nested(cf)'
    BY <1>1, <1>3 DEF Busy
  <1>4. CASE Install(cf)!End
    <2>1. group' = group /\ load.at > Len(cf.Units) /\ load'.step = 0 BY <1>4 DEF Install!End, Install!NoLoad
    <2>2. \A u : ~Busy(cf, u)' BY <2>1 DEF Busy
    <2>3. \A u : ~Busy(cf, u)
      BY UnitsAre, <2>1 DEF Busy
    <2> QED BY <1>1, <2>1, <2>2, <2>3
  <1>5. CASE Install(cf)!Abandon
    BY <1>5, LoadIs, <1>1 DEF Install!Abandon, Busy
  <1>6. CASE Install(cf)!Skip \/ Install(cf)!Applied
    <2>1. group' = group /\ load' = Install(cf)!NextUnit /\ Install(cf)!InUnit
          /\ (load.step = 0 \/ Install(cf)!Unit \notin cf.Broken)
      BY <1>6 DEF Install!Skip, Install!Applied, Install!Incompatible
    <2>2. \A u : ~Busy(cf, u)' BY <2>1, NextUnitIs
    <2>3. \A u \in cf.Broken : ~Busy(cf, u)
      BY LoadIs, <2>1, <1>c
    <2> QED BY <1>1, <2>1, <2>2, <2>3
  <1>7. CASE Install(cf)!Enter
    <2>0. PICK u, o, g : u = Install(cf)!Unit /\ o = load.owner
                         /\ g = IF group[u] = Unpublished THEN loads ELSE group[u].gen
      OBVIOUS
    <2>a. Entered(cf, u, o, g) BY <1>7, <2>0, EnterIs
    <2>1. /\ u \in UnitsOf(cf) /\ o \in cf.Owners /\ load # Idle /\ load.step = 0 /\ ~load.abandoned
          /\ o \notin group[u].owners
          /\ u = cf.Units[load.at] /\ load.at \in 1..Len(cf.Units)
          /\ group'[u].owners = group[u].owners \cup {o}
          /\ \A v \in UnitsOf(cf) : v # u => group'[v] = group[v]
          /\ load' = IF group[u] = Unpublished THEN [load EXCEPT !.step = 1]
                     ELSE [load EXCEPT !.at = @ + 1, !.step = 0]
      BY <2>a DEF Entered
    <2>2. load \in [owner : cf.Owners, at : 1..(Len(cf.Units) + 1), step : Nat, abandoned : BOOLEAN]
      BY <2>1, LoadIs
    <2>3. Place(cf, u) = load.at /\ Len(cf.Units) \in Nat BY <2>1, UnitsAre
    <2>4. \A v : Busy(cf, v)' <=> v = u /\ group[u] = Unpublished
      <3>1. CASE group[u] = Unpublished
        BY <2>1, <2>2, <3>1 DEF Busy
      <3>2. CASE group[u] # Unpublished
        BY <2>1, <2>2, <3>2 DEF Busy
      <3> QED BY <3>1, <3>2
    <2>5. \A v \in cf.Broken : group'[v] # Unpublished => Busy(cf, v)'
      BY <1>0, <1>c, <2>1, <2>4, <1>a
    <2>6. ASSUME NEW x \in UnitsOf(cf) \ cf.Broken, NEW y \in UnitsOf(cf) \ cf.Broken,
                 Place(cf, x) < Place(cf, y)
          PROVE  group'[y].owners \subseteq group'[x].owners /\ (Busy(cf, x)' => group'[y] = Unpublished)
      <3>0. x # y /\ group[y].owners \subseteq group[x].owners BY <1>0, <1>b, <2>6
      <3>1. CASE y = u
        <4>1. Place(cf, x) \in 1..Len(cf.Units) /\ cf.Units[Place(cf, x)] = x BY UnitsAre
        <4>2. Place(cf, x) < load.at BY <2>3, <2>6, <3>1
        <4>3. o \in group[cf.Units[Place(cf, x)]].owners BY <4>1, <4>2, <2>0, <2>1 DEF OwnersFit
        <4>4. group'[x] = group[x] /\ ~Busy(cf, x)' BY <3>0, <3>1, <2>1, <2>4
        <4> QED BY <3>0, <3>1, <4>1, <4>3, <4>4, <2>1
      <3>2. CASE y # u
        <4>1. group'[y] = group[y] /\ group[x].owners \subseteq group'[x].owners BY <2>1, <3>2
        <4>2. ASSUME Busy(cf, x)' PROVE group[y] = Unpublished
          <5>1. x = u /\ group[u] = Unpublished BY <2>4, <4>2
          <5>2. group[x].owners = {} BY <5>1 DEF Unpublished
          <5>3. group[y].owners = {} BY <3>0, <5>2
          <5> QED BY <5>3 DEF GroupsFit
        <4> QED BY <3>0, <4>1, <4>2
      <3> QED BY <3>1, <3>2
    <2> QED BY <2>5, <2>6 DEF Nested
  <1>8. CASE Install(cf)!Bind
    <2>0. PICK u, i, a : u = Install(cf)!Unit /\ i = load.step /\ a = cf.Binds[u][i] OBVIOUS
    <2>a. Binding(cf, u, i, a) BY <1>8, <2>0, BindIs
    <2>1. /\ group'[u].owners = group[u].owners /\ load # Idle /\ Busy(cf, u) /\ u \in UnitsOf(cf)
          /\ \A v \in UnitsOf(cf) : v # u => group'[v] = group[v]
          /\ load' = [load EXCEPT !.step = @ + 1]
      BY <2>a DEF Binding
    <2>2. load \in [owner : cf.Owners, at : 1..(Len(cf.Units) + 1), step : Nat, abandoned : BOOLEAN]
      BY <2>1, LoadIs
    <2>3. load'.at = load.at /\ load'.step = load.step + 1 /\ load.step \in Nat BY <2>1, <2>2
    <2>4. load.step > 0 /\ load'.step > 0 BY <2>1, <2>3 DEF Busy
    <2>5. \A v : Busy(cf, v)' <=> Busy(cf, v) BY <2>3, <2>4 DEF Busy
    <2>6. group[u] # Unpublished BY <2>1, BusyIs
    <2>7. \A v \in UnitsOf(cf) : group'[v].owners = group[v].owners BY <2>1
    <2>8. \A x, y \in UnitsOf(cf) \ cf.Broken :
             Place(cf, x) < Place(cf, y) => group'[y].owners \subseteq group'[x].owners
      BY <1>0, <2>7
    <2> QED BY <2>1, <2>5, <2>6, <2>8, NestedRests
  <1>9. CASE Install(cf)!Fail
    <2>0. PICK u, o : u = Install(cf)!Unit /\ o = load.owner OBVIOUS
    <2>1. /\ Install(cf)!InUnit /\ u \in UnitsOf(cf) /\ o \in cf.Owners
          /\ Install(cf)!Release(u, group[u].gen, o, "skipped", "skipped")
          /\ load' = Install(cf)!NextUnit
          /\ load.step = 0 => o \notin group[u].owners
          /\ load.step > 0 => Busy(cf, u)
      BY <1>9, <2>0, FailIs
    <2>2. \A v : ~Busy(cf, v)' BY <2>1, NextUnitIs
    <2>3. /\ \A v \in UnitsOf(cf) : v # u => group'[v] = group[v]
          /\ group'[u].owners = group[u].owners \/ group'[u].owners = group[u].owners \ {o}
          /\ o \notin group'[u].owners
          /\ \A v \in UnitsOf(cf) : group'[v] # Unpublished => group[v] # Unpublished
      BY <2>1, ReleaseOwners
    <2>4. \A v \in cf.Broken : Busy(cf, v) => group'[v] = Unpublished
      <3> SUFFICES ASSUME NEW v \in cf.Broken, Busy(cf, v) PROVE group'[v] = Unpublished OBVIOUS
      <3>1. v = u /\ v \in UnitsOf(cf) BY <2>0, <1>a, LoadIs
      <3>2. group[u].owners = {o} BY <2>0, <3>1, BusyIs
      <3>3. group'[u].owners = {} BY <2>3, <3>2
      <3>4. GroupsFit(cf)' BY GroupsKept
      <3>5. group'[u] # Unpublished => group'[u].owners # {} BY <2>1, <3>4 DEF GroupsFit
      <3> QED BY <3>1, <3>3, <3>5
    <2>5. ASSUME NEW x \in UnitsOf(cf) \ cf.Broken, NEW y \in UnitsOf(cf) \ cf.Broken,
                 Place(cf, x) < Place(cf, y)
          PROVE  group'[y].owners \subseteq group'[x].owners
      <3>0. x # y /\ group[y].owners \subseteq group[x].owners BY <1>0, <1>b, <2>5
      <3>1. group'[y].owners \subseteq group[y].owners BY <2>3
      <3>2. CASE x # u BY <3>0, <3>1, <3>2, <2>3
      <3>3. CASE x = u /\ load.step = 0
        BY <2>1, <2>3, <3>3, <3>0, <3>1
      <3>4. CASE x = u /\ load.step > 0
        BY <1>0, <2>1, <2>5, <3>4, <3>1 DEF Unpublished
      <3>5. load.step = 0 \/ load.step > 0
        <4>1. load.step \in Nat BY LoadIs
        <4> QED BY <4>1
      <3> QED BY <3>2, <3>3, <3>4, <3>5
    <2> QED BY <2>2, <2>3, <2>4, <2>5, NestedRests
  <1>10. ASSUME NEW o \in cf.Owners, Install(cf)!Lets(o) PROVE Nested(cf)'
    <2>0. PICK n, l : n = Len(leases[o]) /\ l = leases[o][n] OBVIOUS
    <2>1. /\ Install(cf)!Release(l.unit, l.gen, o, "unloaded", manifest[l.unit])
          /\ l.unit \in UnitsOf(cf) /\ load = Idle /\ leases[o] # <<>> /\ n \in 1..Len(leases[o])
          /\ load' = load
      BY <1>10, <2>0, LetsIs
    <2>2. load.step = 0 BY <2>1, LoadIs
    <2>3. \A v : ~Busy(cf, v) /\ ~Busy(cf, v)' BY <2>1, <2>2 DEF Busy
    <2>4. /\ \A v \in UnitsOf(cf) : v # l.unit => group'[v] = group[v]
          /\ group'[l.unit].owners = group[l.unit].owners \/ group'[l.unit].owners = group[l.unit].owners \ {o}
          /\ \A v \in UnitsOf(cf) : group'[v] # Unpublished => group[v] # Unpublished
      BY <2>1, ReleaseOwners
    <2>5. ASSUME NEW x \in UnitsOf(cf) \ cf.Broken, NEW y \in UnitsOf(cf) \ cf.Broken,
                 Place(cf, x) < Place(cf, y)
          PROVE  group'[y].owners \subseteq group'[x].owners
      <3>0. x # y /\ group[y].owners \subseteq group[x].owners BY <1>0, <1>b, <2>5
      <3>1. group'[y].owners \subseteq group[y].owners BY <2>4
      <3>2. CASE x # l.unit BY <3>0, <3>1, <3>2, <2>4
      <3>3. CASE x = l.unit /\ group'[x].owners = group[x].owners BY <3>0, <3>1, <3>3
      <3>4. CASE x = l.unit /\ group'[x].owners # group[x].owners
        <4>1. group'[x].owners = group[x].owners \ {o} BY <2>4, <3>4
        <4>2. group[x].gen = l.gen
          BY <3>4, <2>1, ReleaseIs
        <4>3. o \notin group[y].owners
          <5> SUFFICES ASSUME o \in group[y].owners PROVE FALSE OBVIOUS
          <5>1. PICK p \in 1..Len(leases[o]) : leases[o][p] = [unit |-> y, gen |-> group[y].gen] BY DEF Leased
          <5>2. leases[o][p].unit = y /\ leases[o][p].gen = group[y].gen BY <5>1
          <5>3. Live(leases[o][p]) /\ Live(leases[o][n]) BY <5>2, <4>2, <3>4, <2>0 DEF Live
          <5>4. p < n
            BY <5>2, <2>0, <3>0, <3>4, LeasesAre
          <5>5. Place(cf, y) < Place(cf, x) BY <2>0, <2>1, <3>4, <5>2, <5>3, <5>4 DEF LeasesFit
          <5>6. Place(cf, x) \in 1..Len(cf.Units) /\ Place(cf, y) \in 1..Len(cf.Units) BY UnitsAre
          <5> QED BY ONLY <5>5, <5>6, <2>5
        <4> QED BY <3>0, <3>1, <4>1, <4>3
      <3> QED BY <3>2, <3>3, <3>4
    <2> QED BY <2>3, <2>4, <2>5, NestedRests
  <1>11. ASSUME NEW o \in cf.Owners, Install(cf)!Unload(o) \/ Install(cf)!Left(o) PROVE Nested(cf)'
    BY <1>3, <1>11 DEF Install!Unload, Install!Left
  <1>12. ASSUME NEW a \in cf.Attrs, Install(cf)!ThirdParty(a) PROVE Nested(cf)'
    BY <1>3, <1>12 DEF Install!ThirdParty
  <1> QED
    BY <1>2, <1>4, <1>5, <1>6, <1>7, <1>8, <1>9, <1>10, <1>11, <1>12 DEF Install!Next

-----------------------------------------------------------------------------
(* The layers of an attribute.                                             *)

\* Units have different ranks, and the busy one is above all others.
LEMMA RanksAre ==
  ASSUME NEW cf, Install(cf)!Shape
  PROVE  /\ \A u \in UnitsOf(cf) : Rank(cf, u) \in Nat
         /\ \A u \in UnitsOf(cf) : ~Busy(cf, u) => Rank(cf, u) = Place(cf, u)
         /\ \A u, v \in UnitsOf(cf) : u # v /\ Busy(cf, u) => ~Busy(cf, v) /\ Rank(cf, v) < Rank(cf, u)
         /\ \A u, v \in UnitsOf(cf) : u # v => Rank(cf, u) # Rank(cf, v)
         /\ \A u, v \in UnitsOf(cf) : u # v => Place(cf, u) # Place(cf, v)
         /\ \A u \in UnitsOf(cf) : Place(cf, u) \in Nat
  <1>1. /\ Len(cf.Units) \in Nat
        /\ \A u \in UnitsOf(cf) : Place(cf, u) \in 1..Len(cf.Units) /\ cf.Units[Place(cf, u)] = u
    BY UnitsAre
  <1>2. \A u, v : Busy(cf, u) /\ Busy(cf, v) => u = v BY DEF Busy
  <1>3. \A u, v \in UnitsOf(cf) : u # v => Place(cf, u) # Place(cf, v) BY <1>1
  <1>4. \A u \in UnitsOf(cf) : Place(cf, u) \in Nat /\ Place(cf, u) < Len(cf.Units) + 1 BY <1>1
  <1> QED BY <1>1, <1>2, <1>3, <1>4 DEF Rank

\* A unit that holds an attribute has a first change of it.
LEMMA FirstIs ==
  ASSUME NEW u, Len(Changes(u)) \in Nat, NEW a, Holds(u, a)
  PROVE  \E i \in Nat : Opens(u, i) /\ Attr(u, i) = a
  <1> DEFINE S == {i \in 1..Len(Changes(u)) : Attr(u, i) = a}
  <1>1. Steps(u) = 1..Len(Changes(u)) BY DEF Steps, Changes
  <1>2. S # {} BY <1>1 DEF Holds
  <1>3. S \in SUBSET (1..Len(Changes(u))) OBVIOUS
  <1>4. PICK k \in S : \A j \in S : k <= j BY ONLY <1>2, <1>3, Len(Changes(u)) \in Nat, LeastIs
  <1>5. k \in Steps(u) /\ k \in Nat /\ Attr(u, k) = a BY <1>1, <1>4
  <1>6. ASSUME NEW j \in Steps(u), j < k PROVE Attr(u, j) # Attr(u, k)
    <2>1. j \notin S
      BY <1>1, <1>5, <1>6, <1>4
    <2> QED BY <2>1, <1>1, <1>5
  <1> QED BY <1>5, <1>6 DEF Opens

\* Neither a change nor a value comes or goes, and those who have changes keep
\* their order.
LEMMA StackedRests ==
  ASSUME NEW cf, Install(cf)!Shape, Stacked(cf), bound' = bound,
         \A u \in UnitsOf(cf) : group'[u].changes = group[u].changes,
         \A u \in UnitsOf(cf) : \A a : Holds(u, a) => group'[u].gen = group[u].gen,
         \A u, v \in UnitsOf(cf) : \A a, b : Holds(u, a) /\ Holds(v, b) =>
             /\ Rank(cf, u)' < Rank(cf, v)' <=> Rank(cf, u) < Rank(cf, v)
             /\ Rank(cf, u)' <= Rank(cf, v)' <=> Rank(cf, u) <= Rank(cf, v)
  PROVE  Stacked(cf)'
  <1>1. \A u \in UnitsOf(cf) : Steps(u)' = Steps(u) BY DEF Steps
  <1>2. \A u \in UnitsOf(cf) : \A i : /\ Attr(u, i)' = Attr(u, i) /\ Old(u, i)' = Old(u, i)
                                      /\ Value(u, i)' = Value(u, i)
    BY DEF Attr, Old, Value
  <1>3. \A u \in UnitsOf(cf) : \A i : Opens(u, i)' <=> Opens(u, i) BY <1>1, <1>2 DEF Opens
  <1>4. \A u \in UnitsOf(cf) : \A i : Closes(u, i)' <=> Closes(u, i) BY <1>1, <1>2 DEF Closes
  <1>5. \A u \in UnitsOf(cf) : \A a : Holds(u, a)' <=> Holds(u, a) BY <1>1, <1>2 DEF Holds
  <1>6. \A u \in UnitsOf(cf) : \A i : Opens(u, i) \/ Closes(u, i) => Holds(u, Attr(u, i))
    BY DEF Opens, Closes, Holds
  <1>7. Again(cf)' BY <1>1, <1>2 DEF Stacked, Again
  <1>8. TopIsBound(cf)'
    <2> SUFFICES ASSUME NEW u \in UnitsOf(cf), NEW a \in cf.Attrs, NEW i \in Nat,
                        Closes(u, i)', Attr(u, i)' = a,
                        \A y \in UnitsOf(cf) : Holds(y, a)' => Rank(cf, y)' <= Rank(cf, u)'
                 PROVE  bound'[a] = Value(u, i)'
      BY DEF TopIsBound
    <2>1. Closes(u, i) /\ Attr(u, i) = a /\ Holds(u, a) BY <1>2, <1>4, <1>6
    <2>2. \A y \in UnitsOf(cf) : Holds(y, a) => Rank(cf, y) <= Rank(cf, u)
      BY <2>1, <1>5
    <2> QED BY <2>1, <2>2, <1>2 DEF Stacked, TopIsBound
  <1>9. Chained(cf)'
    <2> SUFFICES ASSUME NEW u \in UnitsOf(cf), NEW v \in UnitsOf(cf), NEW a \in cf.Attrs,
                        NEW i \in Nat, NEW j \in Nat, Opens(u, i)', Closes(v, j)',
                        Attr(u, i)' = a, Attr(v, j)' = a, Rank(cf, v)' < Rank(cf, u)',
                        \A y \in UnitsOf(cf) : Holds(y, a)' =>
                            Rank(cf, y)' <= Rank(cf, v)' \/ Rank(cf, u)' <= Rank(cf, y)'
                 PROVE  Old(u, i)' = Value(v, j)'
      BY DEF Chained
    <2>1. Opens(u, i) /\ Closes(v, j) /\ Attr(u, i) = a /\ Attr(v, j) = a /\ Holds(u, a) /\ Holds(v, a)
      BY <1>2, <1>3, <1>4, <1>6
    <2>2. Rank(cf, v) < Rank(cf, u) BY <2>1
    <2>3. \A y \in UnitsOf(cf) : Holds(y, a) => Rank(cf, y) <= Rank(cf, v) \/ Rank(cf, u) <= Rank(cf, y)
      BY <2>1, <1>5
    <2> QED BY <2>1, <2>2, <2>3, <1>2 DEF Stacked, Chained
  <1>10. BoundShows(cf)'
    <2> SUFFICES ASSUME NEW a \in cf.Attrs, NEW x \in UnitsOf(cf), NEW g \in 1..cf.MaxLoads
                 PROVE  Wrap(x, g) \in Range(bound'[a]) <=> Holds(x, a)' /\ g = group'[x].gen
      BY DEF BoundShows
    <2>1. Wrap(x, g) \in Range(bound[a]) <=> Holds(x, a) /\ g = group[x].gen BY DEF Stacked, BoundShows
    <2>2. Holds(x, a) => group'[x].gen = group[x].gen OBVIOUS
    <2>3. Holds(x, a)' <=> Holds(x, a) BY <1>5
    <2> QED BY ONLY <2>1, <2>2, <2>3, bound' = bound
  <1>11. OldShows(cf)'
    <2> SUFFICES ASSUME NEW u \in UnitsOf(cf), NEW x \in UnitsOf(cf), NEW a \in cf.Attrs, NEW i \in Nat,
                        NEW g \in 1..cf.MaxLoads, Opens(u, i)', Attr(u, i)' = a
                 PROVE  Wrap(x, g) \in Range(Old(u, i)') <=>
                            Holds(x, a)' /\ Rank(cf, x)' < Rank(cf, u)' /\ g = group'[x].gen
      BY DEF OldShows
    <2>1. Opens(u, i) /\ Attr(u, i) = a /\ Holds(u, a) BY <1>2, <1>3, <1>6
    <2>2. Wrap(x, g) \in Range(Old(u, i)) <=>
              Holds(x, a) /\ Rank(cf, x) < Rank(cf, u) /\ g = group[x].gen
      BY <2>1 DEF Stacked, OldShows
    <2>3. Old(u, i)' = Old(u, i) BY <1>2
    <2>4. Holds(x, a)' <=> Holds(x, a) BY <1>5
    <2>5. Holds(x, a) =>
              group'[x].gen = group[x].gen /\ (Rank(cf, x)' < Rank(cf, u)' <=> Rank(cf, x) < Rank(cf, u))
      BY <2>1
    <2> QED BY ONLY <2>2, <2>3, <2>4, <2>5
  <1> QED BY <1>7, <1>8, <1>9, <1>10, <1>11 DEF Stacked

\* A unit on top of all others goes: each of its attributes has again the value
\* its first change found.
LEMMA DropsBack ==
  ASSUME NEW cf, Install(cf)!Shape, LoadTyped(cf), Stacked(cf), NEW u \in UnitsOf(cf), NEW o,
         Drops(cf, u, o),
         \A y \in UnitsOf(cf) : \A a : Holds(y, a) => Rank(cf, y) <= Rank(cf, u)
  PROVE  \A a \in cf.Attrs :
             \/ bound'[a] = bound[a] /\ ~Holds(u, a)
             \/ \E i \in Nat : Opens(u, i) /\ Attr(u, i) = a /\ bound'[a] = Old(u, i)
  <1>1. /\ \A i \in Nat : Opens(u, i) => bound'[Attr(u, i)] = Old(u, i)
        /\ \A a \in cf.Attrs : ~Holds(u, a) => bound'[a] = bound[a]
    <2>1. \A i, j \in Steps(u) :
             /\ i < j /\ Attr(u, i) = Attr(u, j)
             /\ \A m \in Steps(u) : i < m /\ m < j => Attr(u, m) # Attr(u, j)
             => Old(u, j) = Value(u, i)
      BY DEF Stacked, Again
    <2>2. ASSUME NEW i \in Nat, Closes(u, i) PROVE bound[Attr(u, i)] = Value(u, i)
      <3>1. Attr(u, i) \in cf.Attrs
        BY <2>2, GroupIs DEF Closes
      <3> QED BY <2>2, <3>1 DEF Stacked, TopIsBound
    <2> QED BY <2>1, <2>2, RestoredIs DEF Drops
  <1>2. ASSUME NEW a \in cf.Attrs
        PROVE  \/ bound'[a] = bound[a] /\ ~Holds(u, a)
               \/ \E i \in Nat : Opens(u, i) /\ Attr(u, i) = a /\ bound'[a] = Old(u, i)
    <2>1. CASE ~Holds(u, a) BY <1>1, <2>1
    <2>2. CASE Holds(u, a)
      <3>1. Len(Changes(u)) \in Nat BY GroupIs
      <3>2. PICK i \in Nat : Opens(u, i) /\ Attr(u, i) = a BY <2>2, <3>1, FirstIs
      <3> QED BY <3>2, <1>1
    <2> QED BY <2>1, <2>2
  <1> QED BY <1>2

\* Without it the others are stacked as before.
LEMMA StackedDrops ==
  ASSUME NEW cf, Install(cf)!Shape, LoadTyped(cf), Stacked(cf), NEW u \in UnitsOf(cf), NEW o,
         Drops(cf, u, o),
         \A y \in UnitsOf(cf) : \A a : Holds(y, a) => Rank(cf, y) <= Rank(cf, u),
         \A y \in UnitsOf(cf) : ~Busy(cf, y)' /\ (y # u => ~Busy(cf, y))
  PROVE  Stacked(cf)'
  <1>1. Steps(u)' = {} /\ \A v \in UnitsOf(cf) : v # u => group'[v] = group[v] BY DropIs
  <1>3. \A v \in UnitsOf(cf) : v # u => Steps(v)' = Steps(v) BY <1>1 DEF Steps
  <1>4. \A v \in UnitsOf(cf) : \A i : v # u =>
            /\ Attr(v, i)' = Attr(v, i) /\ Old(v, i)' = Old(v, i) /\ Value(v, i)' = Value(v, i)
    BY <1>1 DEF Attr, Old, Value
  <1>5. \A v \in UnitsOf(cf) : \A i : Opens(v, i)' => v # u /\ Opens(v, i)
    BY <1>1, <1>3, <1>4 DEF Opens
  <1>6. \A v \in UnitsOf(cf) : \A i : Closes(v, i)' => v # u /\ Closes(v, i)
    BY <1>1, <1>3, <1>4 DEF Closes
  <1>7. \A v \in UnitsOf(cf) : \A a : Holds(v, a)' <=> v # u /\ Holds(v, a)
    BY <1>1, <1>3, <1>4 DEF Holds
  <1>8. \A v \in UnitsOf(cf) : \A i : Opens(v, i) \/ Closes(v, i) => Holds(v, Attr(v, i))
    BY DEF Opens, Closes, Holds
  <1>9. \A v \in UnitsOf(cf) : v # u => Rank(cf, v)' = Rank(cf, v) BY DEF Rank
  <1>10. \A v, a : v \in UnitsOf(cf) /\ v # u /\ Holds(v, a) => Rank(cf, v) < Rank(cf, u)
    <2> SUFFICES ASSUME NEW v \in UnitsOf(cf), NEW a, v # u, Holds(v, a) PROVE Rank(cf, v) < Rank(cf, u)
      OBVIOUS
    <2>1. Rank(cf, v) <= Rank(cf, u) OBVIOUS
    <2>2. Rank(cf, v) # Rank(cf, u) /\ Rank(cf, v) \in Nat /\ Rank(cf, u) \in Nat BY RanksAre
    <2> QED BY ONLY <2>1, <2>2
  <1>2. \A a \in cf.Attrs :
            \/ bound'[a] = bound[a] /\ ~Holds(u, a)
            \/ \E i \in Nat : Opens(u, i) /\ Attr(u, i) = a /\ bound'[a] = Old(u, i)
    BY DropsBack
  <1>13. Again(cf)'
    <2> SUFFICES ASSUME NEW v \in UnitsOf(cf), NEW i \in Steps(v)', NEW j \in Steps(v)',
                        i < j, Attr(v, i)' = Attr(v, j)',
                        \A m \in Steps(v)' : i < m /\ m < j => Attr(v, m)' # Attr(v, j)'
                 PROVE  Old(v, j)' = Value(v, i)'
      BY DEF Again
    <2>1. v # u BY <1>1
    <2> QED BY <2>1, <1>3, <1>4 DEF Stacked, Again
  <1>14. TopIsBound(cf)'
    <2> SUFFICES ASSUME NEW v \in UnitsOf(cf), NEW a \in cf.Attrs, NEW i \in Nat,
                        Closes(v, i)', Attr(v, i)' = a,
                        \A y \in UnitsOf(cf) : Holds(y, a)' => Rank(cf, y)' <= Rank(cf, v)'
                 PROVE  bound'[a] = Value(v, i)'
      BY DEF TopIsBound
    <2>1. v # u /\ Closes(v, i) /\ Attr(v, i) = a /\ Holds(v, a) /\ Value(v, i)' = Value(v, i)
      BY <1>4, <1>6, <1>8
    <2>2. \A y \in UnitsOf(cf) : y # u /\ Holds(y, a) => Rank(cf, y) <= Rank(cf, v)
      BY <2>1, <1>7, <1>9
    <2>3. CASE bound'[a] = bound[a] /\ ~Holds(u, a)
      BY <2>2, <2>3, <2>1 DEF Stacked, TopIsBound
    <2>4. ASSUME NEW k \in Nat, Opens(u, k), Attr(u, k) = a, bound'[a] = Old(u, k)
          PROVE  bound'[a] = Value(v, i)'
      <3>1. Rank(cf, v) < Rank(cf, u) BY <2>1, <1>10
      <3>2. Rank(cf, u) <= Rank(cf, u)
        BY RanksAre
      <3>3. \A y \in UnitsOf(cf) : Holds(y, a) => Rank(cf, y) <= Rank(cf, v) \/ Rank(cf, u) <= Rank(cf, y)
        BY <2>2, <3>2
      <3> QED BY <2>1, <2>4, <3>1, <3>3 DEF Stacked, Chained
    <2> QED BY <1>2, <2>3, <2>4
  <1>15. Chained(cf)'
    <2> SUFFICES ASSUME NEW x \in UnitsOf(cf), NEW v \in UnitsOf(cf), NEW a \in cf.Attrs,
                        NEW i \in Nat, NEW j \in Nat, Opens(x, i)', Closes(v, j)',
                        Attr(x, i)' = a, Attr(v, j)' = a, Rank(cf, v)' < Rank(cf, x)',
                        \A y \in UnitsOf(cf) : Holds(y, a)' =>
                            Rank(cf, y)' <= Rank(cf, v)' \/ Rank(cf, x)' <= Rank(cf, y)'
                 PROVE  Old(x, i)' = Value(v, j)'
      BY DEF Chained
    <2>1. /\ x # u /\ v # u /\ Opens(x, i) /\ Closes(v, j) /\ Attr(x, i) = a /\ Attr(v, j) = a
          /\ Holds(x, a) /\ Old(x, i)' = Old(x, i) /\ Value(v, j)' = Value(v, j)
      BY <1>4, <1>5, <1>6, <1>8
    <2>2. Rank(cf, v) < Rank(cf, x) BY <2>1, <1>9
    <2>3. Rank(cf, x) <= Rank(cf, u) BY <2>1
    <2>4. \A y \in UnitsOf(cf) : Holds(y, a) => Rank(cf, y) <= Rank(cf, v) \/ Rank(cf, x) <= Rank(cf, y)
      BY <2>1, <2>3, <1>7, <1>9
    <2> QED BY <2>1, <2>2, <2>4 DEF Stacked, Chained
  <1>16. BoundShows(cf)'
    <2> SUFFICES ASSUME NEW a \in cf.Attrs, NEW x \in UnitsOf(cf), NEW g \in 1..cf.MaxLoads
                 PROVE  Wrap(x, g) \in Range(bound'[a]) <=> Holds(x, a)' /\ g = group'[x].gen
      BY DEF BoundShows
    <2>1. Holds(x, a)' /\ g = group'[x].gen <=> x # u /\ Holds(x, a) /\ g = group[x].gen BY <1>1, <1>7
    <2>2. CASE bound'[a] = bound[a] /\ ~Holds(u, a)
      BY <2>1, <2>2 DEF Stacked, BoundShows
    <2>3. ASSUME NEW k \in Nat, Opens(u, k), Attr(u, k) = a, bound'[a] = Old(u, k)
          PROVE  Wrap(x, g) \in Range(bound'[a]) <=> Holds(x, a)' /\ g = group'[x].gen
      <3>1. Wrap(x, g) \in Range(Old(u, k)) <=>
                Holds(x, a) /\ Rank(cf, x) < Rank(cf, u) /\ g = group[x].gen
        BY <2>3 DEF Stacked, OldShows
      <3>2. Holds(x, a) => (Rank(cf, x) < Rank(cf, u) <=> x # u)
        <4>1. ~(Rank(cf, u) < Rank(cf, u))
          BY RanksAre
        <4> QED BY <4>1, <1>10
      <3> QED BY ONLY <2>1, <2>3, <3>1, <3>2
    <2> QED BY <1>2, <2>2, <2>3
  <1>17. OldShows(cf)'
    <2> SUFFICES ASSUME NEW v \in UnitsOf(cf), NEW x \in UnitsOf(cf), NEW a \in cf.Attrs, NEW i \in Nat,
                        NEW g \in 1..cf.MaxLoads, Opens(v, i)', Attr(v, i)' = a
                 PROVE  Wrap(x, g) \in Range(Old(v, i)') <=>
                            Holds(x, a)' /\ Rank(cf, x)' < Rank(cf, v)' /\ g = group'[x].gen
      BY DEF OldShows
    <2>1. v # u /\ Opens(v, i) /\ Attr(v, i) = a /\ Holds(v, a) /\ Old(v, i)' = Old(v, i)
      BY <1>4, <1>5, <1>8
    <2>2. Wrap(x, g) \in Range(Old(v, i)) <=>
              Holds(x, a) /\ Rank(cf, x) < Rank(cf, v) /\ g = group[x].gen
      BY <2>1 DEF Stacked, OldShows
    <2>3. CASE x = u
      <3>1. ~(Rank(cf, u) < Rank(cf, v))
        BY <2>1, <1>10, RanksAre
      <3>2. ~Holds(x, a)' BY <2>3, <1>7
      <3> QED BY <2>1, <2>2, <2>3, <3>1, <3>2
    <2>4. CASE x # u
      BY <2>1, <2>4, <1>1, <1>7, <1>9, <2>2
    <2> QED BY <2>3, <2>4
  <1> QED BY <1>13, <1>14, <1>15, <1>16, <1>17 DEF Stacked

\* The busy unit sets a binding, on top of what is there.
LEMMA StackedBinds ==
  ASSUME NEW cf, Install(cf)!Shape, LoadTyped(cf), Stacked(cf),
         NEW u, NEW k, NEW a, Binding(cf, u, k, a)
  PROVE  Stacked(cf)'
  <1>1. /\ u \in UnitsOf(cf) /\ Busy(cf, u) /\ a \in cf.Attrs /\ load # Idle
        /\ group[u].gen \in 1..cf.MaxLoads
        /\ bound' = [bound EXCEPT ![a] = <<Wrap(u, group[u].gen)>> \o bound[a]]
        /\ group'[u].gen = group[u].gen
        /\ \A v \in UnitsOf(cf) : v # u => group'[v] = group[v]
        /\ Steps(u)' = Steps(u) \cup {k} /\ k \notin Steps(u)
        /\ \A j \in Steps(u) : /\ Attr(u, j)' = Attr(u, j) /\ Old(u, j)' = Old(u, j)
                               /\ Value(u, j)' = Value(u, j) /\ j < k
        /\ Attr(u, k)' = a /\ Old(u, k)' = bound[a]
        /\ Value(u, k)' = <<Wrap(u, group[u].gen)>> \o bound[a]
        /\ load' = [load EXCEPT !.step = @ + 1]
    BY DEF Binding
  <1>k. k \in Nat /\ \A j \in Steps(u) : j \in Nat
    <2>1. k = Len(Changes(u)) + 1 /\ Len(Changes(u)) \in Nat BY DEF Binding
    <2>2. Steps(u) = 1..Len(Changes(u)) BY <1>1, GroupIs
    <2> QED BY <2>1, <2>2
  <1>b. bound \in [cf.Attrs -> Seq(Layers(cf))] BY DEF LoadTyped
  <1>2. bound'[a] = Value(u, k)' /\ \A b \in cf.Attrs : b # a => bound'[b] = bound[b] BY <1>1, <1>b
  <1>3. \A v \in UnitsOf(cf) : v # u => Steps(v)' = Steps(v) BY <1>1 DEF Steps
  <1>4. \A v \in UnitsOf(cf) : \A i : v # u =>
            /\ Attr(v, i)' = Attr(v, i) /\ Old(v, i)' = Old(v, i) /\ Value(v, i)' = Value(v, i)
    BY <1>1 DEF Attr, Old, Value
  <1>5. \A v \in UnitsOf(cf) : \A i \in Steps(v) :
            /\ i \in Steps(v)' /\ Attr(v, i)' = Attr(v, i) /\ Old(v, i)' = Old(v, i)
            /\ Value(v, i)' = Value(v, i)
    BY <1>1, <1>3, <1>4
  <1>6. \A v \in UnitsOf(cf) : \A i \in Steps(v)' : i \in Steps(v) \/ (v = u /\ i = k)
    BY <1>1, <1>3
  <1>7. \A v \in UnitsOf(cf) : \A i : Opens(v, i)' =>
            \/ Opens(v, i) /\ i \in Steps(v)
            \/ v = u /\ i = k /\ ~Holds(u, a)
    <2> SUFFICES ASSUME NEW v \in UnitsOf(cf), NEW i, Opens(v, i)'
                 PROVE  \/ Opens(v, i) /\ i \in Steps(v)
                        \/ v = u /\ i = k /\ ~Holds(u, a)
      OBVIOUS
    <2>1. i \in Steps(v)' /\ \A j \in Steps(v)' : j < i => Attr(v, j)' # Attr(v, i)' BY DEF Opens
    <2>2. CASE i \in Steps(v) BY <2>1, <2>2, <1>5 DEF Opens
    <2>3. CASE v = u /\ i = k BY <2>1, <2>3, <1>1, <1>5 DEF Holds
    <2> QED BY <2>1, <2>2, <2>3, <1>6
  <1>8. \A v \in UnitsOf(cf) : \A i : Closes(v, i)' =>
            \/ Closes(v, i) /\ i \in Steps(v) /\ (v = u => Attr(v, i) # a)
            \/ v = u /\ i = k
    <2> SUFFICES ASSUME NEW v \in UnitsOf(cf), NEW i, Closes(v, i)'
                 PROVE  \/ Closes(v, i) /\ i \in Steps(v) /\ (v = u => Attr(v, i) # a)
                        \/ v = u /\ i = k
      OBVIOUS
    <2>1. i \in Steps(v)' /\ \A j \in Steps(v)' : i < j => Attr(v, j)' # Attr(v, i)' BY DEF Closes
    <2>2. CASE i \in Steps(v)
      BY <2>1, <2>2, <1>5, <1>1 DEF Closes
    <2> QED BY <2>1, <2>2, <1>6
  <1>9. \A v \in UnitsOf(cf) : \A b : Holds(v, b)' <=> Holds(v, b) \/ (v = u /\ b = a)
    <2> SUFFICES ASSUME NEW v \in UnitsOf(cf), NEW b
                 PROVE  Holds(v, b)' <=> Holds(v, b) \/ (v = u /\ b = a)
      OBVIOUS
    <2>1. CASE v # u BY <2>1, <1>3, <1>4 DEF Holds
    <2>2. CASE v = u BY <2>2, <1>1 DEF Holds
    <2> QED BY <2>1, <2>2
  <1>10. \A v \in UnitsOf(cf) : \A i : i \in Steps(v) => Holds(v, Attr(v, i)) BY DEF Holds
  <1>11. \A v : Rank(cf, v)' = Rank(cf, v)
    <2>1. load \in [owner : cf.Owners, at : 1..(Len(cf.Units) + 1), step : Nat, abandoned : BOOLEAN]
      BY <1>1, LoadIs
    <2>2. load'.at = load.at /\ load'.step = load.step + 1 /\ load.step \in Nat
      BY ONLY <1>1, <2>1
    <2>3. load.step > 0 BY <1>1 DEF Busy
    <2>4. load'.step > 0 BY ONLY <2>2, <2>3
    <2>5. \A v : Busy(cf, v)' <=> Busy(cf, v) BY ONLY <2>2, <2>3, <2>4 DEF Busy
    <2> QED BY <2>5 DEF Rank
  <1>12. \A v \in UnitsOf(cf) : /\ Rank(cf, v) \in Nat /\ Rank(cf, v) <= Rank(cf, u)
                                /\ v # u => Rank(cf, v) < Rank(cf, u)
    BY RanksAre, <1>1
  <1>13. ASSUME NEW v \in UnitsOf(cf), Rank(cf, u) <= Rank(cf, v) PROVE v = u
    <2> SUFFICES ASSUME v # u PROVE FALSE OBVIOUS
    <2>1. Rank(cf, v) < Rank(cf, u) /\ Rank(cf, v) \in Nat /\ Rank(cf, u) \in Nat BY <1>1, <1>12
    <2> QED BY ONLY <2>1, <1>13
  <1>14. Again(cf)'
    <2> SUFFICES ASSUME NEW v \in UnitsOf(cf), NEW i \in Steps(v)', NEW j \in Steps(v)',
                        i < j, Attr(v, i)' = Attr(v, j)',
                        \A m \in Steps(v)' : i < m /\ m < j => Attr(v, m)' # Attr(v, j)'
                 PROVE  Old(v, j)' = Value(v, i)'
      BY DEF Again
    <2>1. CASE j \in Steps(v)
      <3>1. i \in Steps(v)
        <4>1. CASE v = u /\ i = k
          BY <2>1, <4>1, <1>1, <1>k, i < j
        <4> QED BY <4>1, <1>6
      <3>2. /\ Attr(v, i) = Attr(v, j) /\ Old(v, j)' = Old(v, j) /\ Value(v, i)' = Value(v, i)
            /\ \A m \in Steps(v) : i < m /\ m < j => Attr(v, m) # Attr(v, j)
        BY <2>1, <3>1, <1>5
      <3> QED BY <2>1, <3>1, <3>2 DEF Stacked, Again
    <2>2. CASE v = u /\ j = k
      <3>1. i \in Steps(u)
        BY <2>2, <1>k, <1>6
      <3>2. Attr(u, i) = a /\ Value(u, i)' = Value(u, i) BY <2>2, <3>1, <1>1
      <3>3. Closes(u, i) BY <2>2, <3>1, <3>2, <1>1, <1>5 DEF Closes
      <3>4. bound[a] = Value(u, i)
        BY <1>1, <1>12, <1>k, <3>1, <3>2, <3>3 DEF Stacked, TopIsBound
      <3> QED BY <2>2, <3>2, <3>4, <1>1
    <2> QED BY <2>1, <2>2, <1>6
  <1>15. TopIsBound(cf)'
    <2> SUFFICES ASSUME NEW v \in UnitsOf(cf), NEW b \in cf.Attrs, NEW i \in Nat,
                        Closes(v, i)', Attr(v, i)' = b,
                        \A y \in UnitsOf(cf) : Holds(y, b)' => Rank(cf, y)' <= Rank(cf, v)'
                 PROVE  bound'[b] = Value(v, i)'
      BY DEF TopIsBound
    <2>1. CASE Closes(v, i) /\ i \in Steps(v) /\ (v = u => Attr(v, i) # a)
      <3>1. Attr(v, i) = b /\ Value(v, i)' = Value(v, i) BY <2>1, <1>5
      <3>2. b # a
        <4> SUFFICES ASSUME b = a PROVE FALSE OBVIOUS
        <4>1. Rank(cf, u) <= Rank(cf, v) BY <1>1, <1>9, <1>11
        <4>2. v = u BY <4>1, <1>13
        <4> QED BY <4>2, <2>1, <3>1
      <3>3. \A y \in UnitsOf(cf) : Holds(y, b) => Rank(cf, y) <= Rank(cf, v) BY <1>9, <1>11
      <3>4. bound[b] = Value(v, i) BY <2>1, <3>1, <3>3 DEF Stacked, TopIsBound
      <3> QED BY <3>1, <3>2, <3>4, <1>2
    <2>2. CASE v = u /\ i = k BY <2>2, <1>1, <1>2
    <2> QED BY <2>1, <2>2, <1>8
  <1>16. Chained(cf)'
    <2> SUFFICES ASSUME NEW x \in UnitsOf(cf), NEW v \in UnitsOf(cf), NEW b \in cf.Attrs,
                        NEW i \in Nat, NEW j \in Nat, Opens(x, i)', Closes(v, j)',
                        Attr(x, i)' = b, Attr(v, j)' = b, Rank(cf, v)' < Rank(cf, x)',
                        \A y \in UnitsOf(cf) : Holds(y, b)' =>
                            Rank(cf, y)' <= Rank(cf, v)' \/ Rank(cf, x)' <= Rank(cf, y)'
                 PROVE  Old(x, i)' = Value(v, j)'
      BY DEF Chained
    <2>1. Rank(cf, v) < Rank(cf, x) BY <1>11
    <2>2. v # u
      <3>1. Rank(cf, v) \in Nat /\ Rank(cf, x) \in Nat /\ Rank(cf, x) <= Rank(cf, u) BY <1>12
      <3>2. ~(Rank(cf, u) <= Rank(cf, v))
        BY <1>1, <1>12, <2>1, <3>1
      <3>3. Rank(cf, u) <= Rank(cf, u) BY <1>1, <1>12
      <3> QED BY <3>2, <3>3
    <2>3. Closes(v, j) /\ j \in Steps(v) /\ Attr(v, j) = b /\ Value(v, j)' = Value(v, j)
      BY <2>2, <1>4, <1>8
    <2>4. \A y \in UnitsOf(cf) : Holds(y, b) => Rank(cf, y) <= Rank(cf, v) \/ Rank(cf, x) <= Rank(cf, y)
      BY <1>9, <1>11
    <2>5. CASE Opens(x, i) /\ i \in Steps(x)
      BY <2>5, <1>5, <2>1, <2>3, <2>4 DEF Stacked, Chained
    <2>6. CASE x = u /\ i = k /\ ~Holds(u, a)
      <3>1. b = a /\ Old(x, i)' = bound[a] BY <2>6, <1>1
      <3>2. \A y \in UnitsOf(cf) : Holds(y, a) => Rank(cf, y) <= Rank(cf, v)
        <4> SUFFICES ASSUME NEW y \in UnitsOf(cf), Holds(y, a) PROVE Rank(cf, y) <= Rank(cf, v) OBVIOUS
        <4>1. y # u BY <2>6
        <4>2. ~(Rank(cf, u) <= Rank(cf, y)) BY <4>1, <1>13
        <4> QED BY <2>4, <2>6, <3>1, <4>2
      <3>3. bound[a] = Value(v, j) BY <2>3, <3>1, <3>2, <1>1 DEF Stacked, TopIsBound
      <3> QED BY <2>3, <3>1, <3>3
    <2> QED BY <2>5, <2>6, <1>7
  <1>17. BoundShows(cf)'
    <2> SUFFICES ASSUME NEW b \in cf.Attrs, NEW x \in UnitsOf(cf), NEW g \in 1..cf.MaxLoads
                 PROVE  Wrap(x, g) \in Range(bound'[b]) <=> Holds(x, b)' /\ g = group'[x].gen
      BY DEF BoundShows
    <2>1. Wrap(x, g) \in Range(bound[b]) <=> Holds(x, b) /\ g = group[x].gen BY DEF Stacked, BoundShows
    <2>2. Holds(x, b)' <=> Holds(x, b) \/ (x = u /\ b = a) BY <1>9
    <2>3. group'[x].gen = group[x].gen BY <1>1
    <2>4. CASE b # a BY <2>1, <2>2, <2>3, <2>4, <1>2
    <2>5. CASE b = a
      <3>1. Range(bound'[a]) = {Wrap(u, group[u].gen)} \cup Range(bound[a])
        BY <1>1, <1>b, OnTop DEF Wrap, Layers
      <3>2. Wrap(x, g) = Wrap(u, group[u].gen) <=> x = u /\ g = group[u].gen BY DEF Wrap
      <3> QED BY <2>1, <2>2, <2>3, <2>5, <3>1, <3>2
    <2> QED BY <2>4, <2>5
  <1>18. OldShows(cf)'
    <2> SUFFICES ASSUME NEW v \in UnitsOf(cf), NEW x \in UnitsOf(cf), NEW b \in cf.Attrs, NEW i \in Nat,
                        NEW g \in 1..cf.MaxLoads, Opens(v, i)', Attr(v, i)' = b
                 PROVE  Wrap(x, g) \in Range(Old(v, i)') <=>
                            Holds(x, b)' /\ Rank(cf, x)' < Rank(cf, v)' /\ g = group'[x].gen
      BY DEF OldShows
    <2>1. Holds(x, b)' <=> Holds(x, b) \/ (x = u /\ b = a) BY <1>9
    <2>2. group'[x].gen = group[x].gen /\ Rank(cf, x)' = Rank(cf, x) /\ Rank(cf, v)' = Rank(cf, v)
      BY <1>1, <1>11
    <2>3. x = u => ~(Rank(cf, x) < Rank(cf, v))
      BY <1>1, <1>12
    <2>4. CASE Opens(v, i) /\ i \in Steps(v)
      BY <2>4, <1>5, <2>1, <2>2, <2>3 DEF Stacked, OldShows
    <2>5. CASE v = u /\ i = k /\ ~Holds(u, a)
      BY <2>5, <1>1, <1>12, <2>1, <2>2, <2>3 DEF Stacked, BoundShows
    <2> QED BY <2>4, <2>5, <1>7
  <1> QED BY <1>14, <1>15, <1>16, <1>17, <1>18 DEF Stacked

\* Who holds an attribute is published.
LEMMA HeldIsPublished ==
  ASSUME NEW u, NEW a, Holds(u, a)
  PROVE  group[u] # Unpublished
  <1> SUFFICES ASSUME group[u] = Unpublished PROVE FALSE OBVIOUS
  <1>1. Steps(u) = {}
    BY DEF Unpublished, Steps
  <1> QED BY <1>1 DEF Holds

\* The unit whose last owner lets it go, newest lease first, is on top.
LEMMA LetsTop ==
  ASSUME NEW cf, Install(cf)!Shape, LoadBase(cf), Nested(cf), LeasesFit(cf),
         NEW o \in cf.Owners, leases[o] # <<>>, load = Idle,
         NEW n, n = Len(leases[o]), NEW u, u = leases[o][n].unit,
         u \in UnitsOf(cf), group[u] # Unpublished, group[u].owners \ {o} = {},
         group[u].gen = leases[o][n].gen,
         NEW v \in UnitsOf(cf), group[v] # Unpublished
  PROVE  Rank(cf, v) <= Rank(cf, u)
  <1> USE DEF LoadBase
  <1>1. \A x : ~Busy(cf, x)
    BY LoadIs DEF Busy
  <1>2. \A x \in UnitsOf(cf) : group[x] # Unpublished => x \notin cf.Broken BY <1>1 DEF Nested
  <1>3. Rank(cf, v) = Place(cf, v) /\ Rank(cf, u) = Place(cf, u) /\ Place(cf, u) \in Nat /\ Place(cf, v) \in Nat
    BY <1>1, RanksAre
  <1>4. ASSUME Place(cf, u) < Place(cf, v) PROVE FALSE
    <2>1. group[v].owners \subseteq group[u].owners BY <1>2, <1>4 DEF Nested
    <2>2. group[v].owners # {} BY DEF GroupsFit
    <2>3. o \in group[v].owners BY <2>1, <2>2
    <2>4. PICK p \in 1..Len(leases[o]) : leases[o][p] = [unit |-> v, gen |-> group[v].gen]
      BY <2>3 DEF Leased
    <2>5. leases[o][p].unit = v /\ leases[o][p].gen = group[v].gen BY <2>4
    <2>6. Live(leases[o][p]) /\ Live(leases[o][n]) BY <2>5 DEF Live
    <2>7. p < n /\ n \in 1..Len(leases[o])
      BY <1>3, <1>4, <2>5, LeasesAre, n = Len(leases[o]), p \in 1..Len(leases[o])
    <2>8. Place(cf, v) < Place(cf, u) BY <1>2, <2>5, <2>6, <2>7 DEF LeasesFit
    <2> QED BY ONLY <1>3, <1>4, <2>8
  <1> QED BY ONLY <1>3, <1>4

LEMMA StackedKept ==
  ASSUME NEW cf, Install(cf)!Shape, cf.Third = {}, LoadBase(cf), Nested(cf), LeasesFit(cf), Stacked(cf),
         Install(cf)!Next
  PROVE  Stacked(cf)'
  <1> USE DEF LoadBase
  <1>c. load.step = 0 => \A u : ~Busy(cf, u) BY DEF Busy
  <1>1. ASSUME bound' = bound, group' = group, \A u : Busy(cf, u)' <=> Busy(cf, u) PROVE Stacked(cf)'
    BY <1>1, StackedRests DEF Rank
  \* Neither before nor after is a unit busy.
  <1>2. ASSUME bound' = bound, \A u \in UnitsOf(cf) : ~Busy(cf, u)', \A u \in UnitsOf(cf) : ~Busy(cf, u),
               \A u \in UnitsOf(cf) : group'[u].changes = group[u].changes /\ group'[u].gen = group[u].gen
        PROVE  Stacked(cf)'
    BY <1>2, StackedRests DEF Rank
  <1>3. ASSUME NEW o \in cf.Owners, Install(cf)!Begin(o) PROVE Stacked(cf)'
    <2>1. group' = group /\ bound' = bound /\ load.step = 0
          /\ load' = [owner |-> o, at |-> 1, step |-> 0, abandoned |-> FALSE]
      BY <1>3, LoadIs DEF Install!Begin
    <2>2. \A u : ~Busy(cf, u)' BY <2>1 DEF Busy
    <2> QED BY <1>1, <1>c, <2>1, <2>2
  <1>4. ASSUME NEW o \in cf.Owners, Install(cf)!Unload(o) \/ Install(cf)!Left(o) PROVE Stacked(cf)'
    BY <1>4, <1>1 DEF Install!Unload, Install!Left, Busy
  <1>5. CASE Install(cf)!End
    <2>1. group' = group /\ bound' = bound /\ load.at > Len(cf.Units) /\ load'.step = 0
      BY <1>5 DEF Install!End, Install!NoLoad
    <2>2. \A u : ~Busy(cf, u)' BY <2>1 DEF Busy
    <2>3. \A u : ~Busy(cf, u)
      BY UnitsAre, <2>1 DEF Busy
    <2> QED BY <1>1, <2>1, <2>2, <2>3
  <1>6. CASE Install(cf)!Abandon
    BY <1>6, LoadIs, <1>1 DEF Install!Abandon, Busy
  <1>7. CASE Install(cf)!Skip
    BY <1>7, NextUnitIs, <1>1, <1>c DEF Install!Skip
  <1>8. CASE Install(cf)!Applied
    <2>0. PICK u : u = Install(cf)!Unit OBVIOUS
    <2>1. group' = group /\ bound' = bound /\ load' = Install(cf)!NextUnit /\ Install(cf)!InUnit
          /\ u \notin cf.Broken /\ load.step > Len(cf.Binds[u])
      BY <1>8, <2>0 DEF Install!Applied, Install!Incompatible
    <2>2. \A v : ~Busy(cf, v)' BY <2>1, NextUnitIs
    <2>3. u \in UnitsOf(cf) /\ Busy(cf, u)
      <3>1. u \in UnitsOf(cf) BY <2>0, <2>1, LoadIs
      <3>2. load.step \in Nat /\ Len(cf.Binds[u]) \in Nat BY <3>1, LoadIs, BindsAre
      <3>3. load.step > 0 BY ONLY <2>1, <3>2
      <3> QED BY <2>0, <2>1, <3>1, <3>3, LoadIs
    <2>4. ASSUME NEW v \in UnitsOf(cf), NEW a, Holds(v, a), v # u PROVE Place(cf, v) < Place(cf, u)
      BY <2>4, HeldIsPublished, <2>3, RanksAre, <2>1 DEF Nested
    <2>5. ASSUME NEW x \in UnitsOf(cf), NEW y \in UnitsOf(cf), NEW a, NEW b, Holds(x, a), Holds(y, b)
          PROVE  /\ Rank(cf, x)' < Rank(cf, y)' <=> Rank(cf, x) < Rank(cf, y)
                 /\ Rank(cf, x)' <= Rank(cf, y)' <=> Rank(cf, x) <= Rank(cf, y)
      <3>1. Rank(cf, x)' = Place(cf, x) /\ Rank(cf, y)' = Place(cf, y) BY <2>2 DEF Rank
      <3>2. /\ x # u => Rank(cf, x) = Place(cf, x) /\ Rank(cf, x) < Rank(cf, u) /\ Place(cf, x) < Place(cf, u)
            /\ y # u => Rank(cf, y) = Place(cf, y) /\ Rank(cf, y) < Rank(cf, u) /\ Place(cf, y) < Place(cf, u)
        BY <2>3, RanksAre, <2>4, <2>5
      <3>3. /\ Rank(cf, x) \in Nat /\ Rank(cf, y) \in Nat /\ Rank(cf, u) \in Nat
            /\ Place(cf, x) \in Nat /\ Place(cf, y) \in Nat /\ Place(cf, u) \in Nat
        BY <2>3, RanksAre
      <3> QED BY ONLY <3>1, <3>2, <3>3
    <2> QED BY <2>1, <2>5, StackedRests
  <1>9. CASE Install(cf)!Enter
    <2>0. PICK u, o, g : u = Install(cf)!Unit /\ o = load.owner
                         /\ g = IF group[u] = Unpublished THEN loads ELSE group[u].gen
      OBVIOUS
    <2>a. Entered(cf, u, o, g) BY <1>9, <2>0, EnterIs
    <2>1. /\ u \in UnitsOf(cf) /\ load # Idle /\ load.step = 0 /\ bound' = bound
          /\ u = cf.Units[load.at] /\ load.at \in 1..Len(cf.Units)
          /\ group'[u].changes = group[u].changes /\ group'[u].gen = g
          /\ \A v \in UnitsOf(cf) : v # u => group'[v] = group[v]
          /\ load' = IF group[u] = Unpublished THEN [load EXCEPT !.step = 1]
                     ELSE [load EXCEPT !.at = @ + 1, !.step = 0]
      BY <2>a DEF Entered
    <2>2. load \in [owner : cf.Owners, at : 1..(Len(cf.Units) + 1), step : Nat, abandoned : BOOLEAN]
      BY <2>1, LoadIs
    <2>3. \A v \in UnitsOf(cf) : ~Busy(cf, v) BY <1>c, <2>1
    <2>4. CASE group[u] # Unpublished
      BY <2>1, <2>2, <2>4, <2>0, <1>2, <2>3 DEF Busy
    <2>5. CASE group[u] = Unpublished
      BY <2>1, <2>2, <2>5, HeldIsPublished, <2>3, StackedRests DEF Busy, Rank
    <2> QED BY <2>4, <2>5
  <1>10. CASE Install(cf)!Bind
    <2>0. PICK u, i, a : u = Install(cf)!Unit /\ i = load.step /\ a = cf.Binds[u][i] OBVIOUS
    <2>1. Binding(cf, u, i, a) BY <1>10, <2>0, BindIs
    <2> QED BY <2>1, StackedBinds
  <1>11. CASE Install(cf)!Fail
    <2>0. PICK u, o : u = Install(cf)!Unit /\ o = load.owner OBVIOUS
    <2>1. /\ Install(cf)!InUnit /\ u \in UnitsOf(cf) /\ o \in cf.Owners
          /\ Install(cf)!Release(u, group[u].gen, o, "skipped", "skipped")
          /\ load' = Install(cf)!NextUnit
          /\ load.step = 0 => o \notin group[u].owners
          /\ load.step > 0 => Busy(cf, u)
      BY <1>11, <2>0, FailIs
    <2>2. \A v : ~Busy(cf, v)' BY <2>1, NextUnitIs
    <2>3. load.step = 0 \/ load.step > 0
      <3>1. load.step \in Nat BY LoadIs
      <3> QED BY <3>1
    <2>4. CASE Drops(cf, u, o)
      <3>1. Busy(cf, u)
        <4>1. group[u] # Unpublished /\ group[u].owners \ {o} = {} BY <2>4 DEF Drops
        <4>2. group[u].owners # {} BY <2>1, <4>1 DEF GroupsFit
        <4>3. o \in group[u].owners BY <4>1, <4>2
        <4> QED BY <4>3, <2>1, <2>3
      <3>2. \A y \in UnitsOf(cf) : y # u => ~Busy(cf, y) /\ Rank(cf, y) < Rank(cf, u) BY <2>1, <3>1, RanksAre
      <3>3. \A y \in UnitsOf(cf) : Rank(cf, y) \in Nat BY RanksAre
      <3>4. \A y \in UnitsOf(cf) : Rank(cf, y) <= Rank(cf, u)
        BY <2>1, <3>2, <3>3
      <3> QED BY <2>1, <2>2, <2>4, <3>2, <3>4, StackedDrops
    <2>5. ASSUME bound' = bound, \A v \in UnitsOf(cf) : ~Busy(cf, v),
                 \A v \in UnitsOf(cf) : group'[v].changes = group[v].changes /\ group'[v].gen = group[v].gen
          PROVE  Stacked(cf)'
      BY <1>2, <2>2, <2>5
    <2>6. CASE Leaves(u, o)
      <3>1. load.step = 0
        BY <2>0, <2>1, BusyIs, <2>3, <2>6 DEF Leaves
      <3>2. bound' = bound BY <2>6 DEF Leaves
      <3>3. \A v \in UnitsOf(cf) : group'[v].changes = group[v].changes /\ group'[v].gen = group[v].gen
        BY <2>1, <2>6, LeaveIs
      <3> QED BY <1>c, <2>5, <3>1, <3>2, <3>3
    <2>7. CASE bound' = bound /\ group' = group /\ group[u] = Unpublished
      BY <2>1, <2>3, <2>7, BusyIs, <1>c, <2>5
    <2> QED BY <2>1, <2>4, <2>6, <2>7, ReleaseIs
  <1>12. ASSUME NEW o \in cf.Owners, Install(cf)!Lets(o) PROVE Stacked(cf)'
    <2>0. PICK n, l, u : n = Len(leases[o]) /\ l = leases[o][n] /\ u = l.unit OBVIOUS
    <2>1. /\ Install(cf)!Release(u, l.gen, o, "unloaded", manifest[u])
          /\ u \in UnitsOf(cf) /\ load = Idle /\ leases[o] # <<>> /\ load' = load
      BY <1>12, <2>0, LetsIs
    <2>2. load.step = 0 BY <2>1, LoadIs
    <2>3. \A v \in UnitsOf(cf) : ~Busy(cf, v) /\ ~Busy(cf, v)' BY <2>1, <2>2 DEF Busy
    <2>4. CASE Drops(cf, u, o) /\ group[u].gen = l.gen
      <3>1. group[u] # Unpublished /\ group[u].owners \ {o} = {} BY <2>4 DEF Drops
      <3>2. \A v \in UnitsOf(cf) : group[v] # Unpublished => Rank(cf, v) <= Rank(cf, u)
        BY <2>0, <2>1, <2>4, <3>1, LetsTop
      <3>3. \A v \in UnitsOf(cf) : \A a : Holds(v, a) => Rank(cf, v) <= Rank(cf, u) BY <3>2, HeldIsPublished
      <3> QED BY <2>1, <2>3, <2>4, <3>3, StackedDrops
    <2>5. CASE Leaves(u, o)
      BY <2>5, <2>1, LeaveIs, <1>2, <2>3 DEF Leaves
    <2>6. CASE bound' = bound /\ group' = group BY <1>2, <2>3, <2>6
    <2> QED BY <2>1, <2>4, <2>5, <2>6, ReleaseIs
  <1>13. ASSUME NEW a \in cf.Attrs, Install(cf)!ThirdParty(a) PROVE Stacked(cf)'
    BY <1>13 DEF Install!ThirdParty
  <1> QED
    BY <1>3, <1>4, <1>5, <1>6, <1>7, <1>8, <1>9, <1>10, <1>11, <1>12, <1>13 DEF Install!Next

-----------------------------------------------------------------------------
(* The routes.                                                             *)

LEMMA RowsKept ==
  ASSUME NEW cf, Install(cf)!Shape, cf.Third = {}, LoadBase(cf), OwnersFit(cf), Nested(cf), LeasesFit(cf),
         Stacked(cf), RowsFollow(cf), Install(cf)!Next
  PROVE  RowsFollow(cf)'
  <1> USE DEF LoadBase
  <1>0. kept # {} =>
           /\ \A u \in UnitsOf(cf), a \in cf.Attrs, i \in Nat :
                  Busy(cf, u) /\ Opens(u, i) /\ Attr(u, i) = a => Serves(cf, a, Old(u, i))
           /\ \A a \in cf.Attrs :
                  (\A u \in UnitsOf(cf) : Busy(cf, u) => ~Holds(u, a)) => Serves(cf, a, bound[a])
    BY DEF RowsFollow
  <1>a. kept \in SUBSET cf.Owners BY DEF LoadTyped
  <1>b. load.step = 0 => \A u : ~Busy(cf, u) BY DEF Busy
  <1>c. ASSUME rows' = rows, NEW a, NEW v PROVE Serves(cf, a, v)' <=> Serves(cf, a, v)
    BY <1>c DEF Serves
  \* Nothing that matters changes, or no unit is busy and the routes serve what is bound.
  <1>1. ASSUME bound' = bound, group' = group, rows' = rows, kept' \subseteq kept,
               \A u : Busy(cf, u)' <=> Busy(cf, u)
        PROVE  RowsFollow(cf)'
    <2>1. \A u, i : /\ Opens(u, i)' <=> Opens(u, i)
                    /\ Attr(u, i)' = Attr(u, i) /\ Old(u, i)' = Old(u, i)
      BY <1>1 DEF Opens, Steps, Attr, Old
    <2>2. \A u, a : Holds(u, a)' <=> Holds(u, a) BY <1>1 DEF Holds, Steps, Attr
    <2> SUFFICES ASSUME kept' # {}
                 PROVE  /\ \A u \in UnitsOf(cf), a \in cf.Attrs, i \in Nat :
                               Busy(cf, u)' /\ Opens(u, i)' /\ Attr(u, i)' = a => Serves(cf, a, Old(u, i))'
                        /\ \A a \in cf.Attrs :
                               (\A u \in UnitsOf(cf) : Busy(cf, u)' => ~Holds(u, a)') => Serves(cf, a, bound[a])'
      BY DEF RowsFollow
    <2>3. kept # {} BY <1>1
    <2>4. ASSUME NEW u \in UnitsOf(cf), NEW a \in cf.Attrs, NEW i \in Nat,
                 Busy(cf, u)', Opens(u, i)', Attr(u, i)' = a
          PROVE  Serves(cf, a, Old(u, i))'
      BY <1>0, <1>1, <2>1, <2>3, <2>4 DEF Serves
    <2>5. ASSUME NEW a \in cf.Attrs, \A u \in UnitsOf(cf) : Busy(cf, u)' => ~Holds(u, a)'
          PROVE  Serves(cf, a, bound[a])'
      BY <1>0, <1>1, <2>2, <2>3, <2>5 DEF Serves
    <2> QED BY <2>4, <2>5
  <1>2. ASSUME \A u \in UnitsOf(cf) : Busy(cf, u)' => Steps(u)' = {},
               \A a \in cf.Attrs : kept' # {} => Serves(cf, a, bound[a])'
        PROVE  RowsFollow(cf)'
    BY <1>2 DEF Opens, RowsFollow
  <1>3. ASSUME NEW a \in cf.Attrs, kept # {}, \A u \in UnitsOf(cf) : ~Busy(cf, u), bound' = bound, rows' = rows
        PROVE  Serves(cf, a, bound[a])'
    BY <1>0, <1>3 DEF Serves
  <1>4. ASSUME NEW o \in cf.Owners, Install(cf)!Begin(o) PROVE RowsFollow(cf)'
    <2>1. group' = group /\ bound' = bound /\ rows' = rows /\ load.step = 0 /\ kept' \subseteq kept
          /\ load' = [owner |-> o, at |-> 1, step |-> 0, abandoned |-> FALSE]
      BY <1>4, LoadIs DEF Install!Begin
    <2>2. \A u : ~Busy(cf, u)' BY <2>1 DEF Busy
    <2> QED BY <1>1, <1>b, <2>1, <2>2
  <1>5. ASSUME NEW o \in cf.Owners, Install(cf)!Unload(o) \/ Install(cf)!Left(o) PROVE RowsFollow(cf)'
    BY <1>5, <1>1 DEF Install!Unload, Install!Left, Busy
  <1>6. CASE Install(cf)!End
    <2>1. /\ bound' = bound /\ load.at > Len(cf.Units) /\ load'.step = 0
          /\ rows' = IF load.abandoned THEN rows ELSE Install(cf)!Synced
          /\ kept' = IF load.abandoned THEN kept ELSE kept \cup {load.owner}
      BY <1>6 DEF Install!End, Install!NoLoad
    <2>2. \A u : ~Busy(cf, u)' BY <2>1 DEF Busy
    <2>3. \A u : ~Busy(cf, u)
      BY UnitsAre, <2>1 DEF Busy
    <2>4. CASE load.abandoned BY <1>2, <1>3, <2>1, <2>2, <2>3, <2>4
    <2>5. CASE ~load.abandoned
      <3>1. \A a \in cf.Attrs : Serves(cf, a, bound[a])'
        <4> SUFFICES ASSUME NEW a \in cf.Attrs, bound[a] # <<>>, bound[a][1].by \in UnitsOf(cf)
                     PROVE  rows'[a] = bound[a]
          BY <2>1 DEF Serves
        <4>1. rows'[a] = IF bound[a] # <<>> /\ (Install(cf)!Ours(bound[a]) \/ Install(cf)!Ours(rows[a]))
                         THEN bound[a] ELSE rows[a]
          BY <2>1, <2>5 DEF Install!Synced, Install!Missing
        <4>2. Install(cf)!Ours(bound[a])
          BY DEF Install!Ours, Install!Missing, Install!U, Install!Range, UnitsOf, Range
        <4> QED BY <4>1, <4>2
      <3> QED BY <1>2, <2>2, <3>1
    <2> QED BY <2>4, <2>5
  <1>7. CASE Install(cf)!Abandon
    BY <1>7, LoadIs, <1>1 DEF Install!Abandon, Busy
  <1>8. CASE Install(cf)!Skip
    BY <1>8, NextUnitIs, <1>1, <1>b DEF Install!Skip
  \* The busy unit is its loader's alone: nobody who is kept owns it.
  <1>9. CASE Install(cf)!Applied
    <2>0. PICK u : u = Install(cf)!Unit OBVIOUS
    <2>1. kept' = kept /\ Install(cf)!InUnit /\ u \notin cf.Broken /\ load.step > Len(cf.Binds[u])
      BY <1>9, <2>0 DEF Install!Applied, Install!Incompatible
    <2>2. u \in UnitsOf(cf) /\ Busy(cf, u)
      <3>1. u \in UnitsOf(cf) BY <2>0, <2>1, LoadIs
      <3>2. load.step \in Nat /\ Len(cf.Binds[u]) \in Nat BY <3>1, LoadIs, BindsAre
      <3>3. load.step > 0 BY ONLY <2>1, <3>2
      <3> QED BY <2>0, <2>1, <3>1, <3>3, LoadIs
    <2>3. group[u].owners = {load.owner} /\ load # Idle BY <2>2, BusyIs
    <2>4. \A x \in kept : x \in group[u].owners /\ x # load.owner BY <1>a, <2>1, <2>2, <2>3 DEF OwnersFit
    <2>5. kept = {} BY <2>3, <2>4
    <2> QED BY <2>1, <2>5 DEF RowsFollow
  <1>10. CASE Install(cf)!Enter
    <2>0. PICK u, o, g : u = Install(cf)!Unit /\ o = load.owner
                         /\ g = IF group[u] = Unpublished THEN loads ELSE group[u].gen
      OBVIOUS
    <2>a. Entered(cf, u, o, g) BY <1>10, <2>0, EnterIs
    <2>1. /\ u \in UnitsOf(cf) /\ load # Idle /\ load.step = 0 /\ bound' = bound /\ rows' = rows /\ kept' = kept
          /\ u = cf.Units[load.at] /\ load.at \in 1..Len(cf.Units)
          /\ group'[u].changes = group[u].changes
          /\ load' = IF group[u] = Unpublished THEN [load EXCEPT !.step = 1]
                     ELSE [load EXCEPT !.at = @ + 1, !.step = 0]
      BY <2>a DEF Entered
    <2>2. load \in [owner : cf.Owners, at : 1..(Len(cf.Units) + 1), step : Nat, abandoned : BOOLEAN]
      BY <2>1, LoadIs
    <2>3. \A v \in UnitsOf(cf) : ~Busy(cf, v) BY <1>b, <2>1
    <2>4. ASSUME NEW v \in UnitsOf(cf), Busy(cf, v)' PROVE Steps(v)' = {}
      <3>1. CASE group[u] # Unpublished
        BY <2>1, <2>2, <3>1, <2>4 DEF Busy
      <3>2. CASE group[u] = Unpublished
        BY <2>1, <2>2, <3>2, <2>4 DEF Busy, Unpublished, Steps
      <3> QED BY <3>1, <3>2
    <2> QED BY <1>2, <1>3, <2>1, <2>3, <2>4
  <1>11. CASE Install(cf)!Bind
    <2>0. PICK u, k, a : u = Install(cf)!Unit /\ k = load.step /\ a = cf.Binds[u][k] OBVIOUS
    <2>a. Binding(cf, u, k, a) BY <1>11, <2>0, BindIs
    <2>1. /\ u \in UnitsOf(cf) /\ Busy(cf, u) /\ a \in cf.Attrs /\ load # Idle
          /\ bound' = [bound EXCEPT ![a] = <<Wrap(u, group[u].gen)>> \o bound[a]]
          /\ Steps(u)' = Steps(u) \cup {k} /\ k \notin Steps(u)
          /\ \A j \in Steps(u) : Attr(u, j)' = Attr(u, j) /\ Old(u, j)' = Old(u, j) /\ j < k
          /\ Attr(u, k)' = a /\ Old(u, k)' = bound[a]
          /\ load' = [load EXCEPT !.step = @ + 1]
          /\ rows' = rows /\ kept' = kept
      BY <2>a DEF Binding
    <2>2. load \in [owner : cf.Owners, at : 1..(Len(cf.Units) + 1), step : Nat, abandoned : BOOLEAN]
      BY <2>1, LoadIs
    <2>3. \A v : Busy(cf, v)' <=> v = u
      BY <2>1, <2>2 DEF Busy
    <2>4. \A v : Busy(cf, v) => v = u BY <2>1 DEF Busy
    <2> SUFFICES ASSUME kept # {}
                 PROVE  /\ \A v \in UnitsOf(cf), b \in cf.Attrs, i \in Nat :
                               Busy(cf, v)' /\ Opens(v, i)' /\ Attr(v, i)' = b => Serves(cf, b, Old(v, i))'
                        /\ \A b \in cf.Attrs :
                               (\A v \in UnitsOf(cf) : Busy(cf, v)' => ~Holds(v, b)') => Serves(cf, b, bound[b])'
      BY <2>1 DEF RowsFollow
    <2>5. ASSUME NEW b \in cf.Attrs, NEW i \in Nat, Opens(u, i)', Attr(u, i)' = b
          PROVE  Serves(cf, b, Old(u, i))'
      <3>1. i \in Steps(u) \cup {k} /\ \A j \in Steps(u) \cup {k} : j < i => Attr(u, j)' # Attr(u, i)'
        BY <2>1, <2>5 DEF Opens
      <3>2. CASE i \in Steps(u)
        BY <2>1, <2>5, <3>1, <3>2, <1>0 DEF Opens, Serves
      <3>3. CASE i = k
        BY <2>1, <2>5, <3>1, <3>3, <1>0, <2>4 DEF Holds, Serves
      <3> QED BY <3>1, <3>2, <3>3
    <2>6. ASSUME NEW b \in cf.Attrs, ~Holds(u, b)' PROVE Serves(cf, b, bound[b])'
      <3>1. b # a /\ ~Holds(u, b) BY <2>1, <2>6 DEF Holds
      <3>2. Serves(cf, b, bound[b]) BY <1>0, <2>4, <3>1
      <3>3. bound'[b] = bound[b]
        BY <2>1, <3>1 DEF LoadTyped
      <3> QED BY <3>2, <3>3, <2>1 DEF Serves
    <2> QED BY <2>1, <2>3, <2>5, <2>6
  <1>12. CASE Install(cf)!Fail
    <2>0. PICK u, o : u = Install(cf)!Unit /\ o = load.owner OBVIOUS
    <2>1. /\ Install(cf)!InUnit /\ u \in UnitsOf(cf) /\ o \in cf.Owners
          /\ Install(cf)!Release(u, group[u].gen, o, "skipped", "skipped")
          /\ load' = Install(cf)!NextUnit
          /\ load.step = 0 => o \notin group[u].owners
          /\ load.step > 0 => Busy(cf, u)
          /\ rows' = rows /\ kept' = kept
      BY <1>12, <2>0, FailIs
    <2>2. \A v : ~Busy(cf, v)' BY <2>1, NextUnitIs
    <2>3. load.step = 0 \/ load.step > 0
      <3>1. load.step \in Nat BY LoadIs
      <3> QED BY <3>1
    <2>4. CASE Drops(cf, u, o)
      <3>1. Busy(cf, u)
        <4>1. group[u] # Unpublished /\ group[u].owners \ {o} = {} BY <2>4 DEF Drops
        <4>2. group[u].owners # {} BY <2>1, <4>1 DEF GroupsFit
        <4>3. o \in group[u].owners BY <4>1, <4>2
        <4> QED BY <4>3, <2>1, <2>3
      <3>2. \A y \in UnitsOf(cf) : y # u => ~Busy(cf, y) /\ Rank(cf, y) < Rank(cf, u) BY <2>1, <3>1, RanksAre
      <3>3. \A y \in UnitsOf(cf) : Rank(cf, y) \in Nat BY RanksAre
      <3>4. \A y \in UnitsOf(cf) : Rank(cf, y) <= Rank(cf, u)
        BY <2>1, <3>2, <3>3
      <3>5. \A a \in cf.Attrs :
               \/ bound'[a] = bound[a] /\ ~Holds(u, a)
               \/ \E i \in Nat : Opens(u, i) /\ Attr(u, i) = a /\ bound'[a] = Old(u, i)
        BY <2>1, <2>4, <3>4, DropsBack
      <3>6. ASSUME NEW a \in cf.Attrs, kept # {} PROVE Serves(cf, a, bound'[a])
        <4>1. CASE bound'[a] = bound[a] /\ ~Holds(u, a)
          BY <1>0, <3>2, <3>6, <4>1
        <4>2. ASSUME NEW i \in Nat, Opens(u, i), Attr(u, i) = a, bound'[a] = Old(u, i)
              PROVE  Serves(cf, a, bound'[a])
          BY <1>0, <2>1, <3>1, <3>6, <4>2
        <4> QED BY <3>5, <4>1, <4>2
      <3>7. \A a \in cf.Attrs : kept' # {} => Serves(cf, a, bound[a])' BY <2>1, <3>6 DEF Serves
      <3> QED BY <1>2, <2>2, <3>7
    <2>5. CASE bound' = bound /\ load.step = 0
      BY <1>3, <1>b, <2>1, <2>5, <1>2, <2>2
    <2>6. CASE Leaves(u, o)
      <3>1. load.step = 0
        BY <2>0, <2>1, BusyIs, <2>3, <2>6 DEF Leaves
      <3>2. bound' = bound BY <2>6 DEF Leaves
      <3> QED BY <2>5, <3>1, <3>2
    <2>7. CASE bound' = bound /\ group[u] = Unpublished
      BY <2>1, <2>3, <2>7, BusyIs, <2>5
    <2> QED BY <2>1, <2>4, <2>6, <2>7, ReleaseIs
  \* While somebody is kept no manager is a compatible unit's last owner.
  <1>13. ASSUME NEW o \in cf.Owners, Install(cf)!Lets(o) PROVE RowsFollow(cf)'
    <2>0. PICK n, l, u : n = Len(leases[o]) /\ l = leases[o][n] /\ u = l.unit OBVIOUS
    <2>1. /\ Install(cf)!Release(u, l.gen, o, "unloaded", manifest[u])
          /\ u \in UnitsOf(cf) /\ load = Idle /\ o \in leaving
          /\ load' = load /\ rows' = rows /\ kept' = kept
      BY <1>13, <2>0, LetsIs
    <2>2. load.step = 0 BY <2>1, LoadIs
    <2>3. \A v \in UnitsOf(cf) : ~Busy(cf, v) /\ ~Busy(cf, v)' BY <2>1, <2>2 DEF Busy
    <2>4. kept # {} => ~Drops(cf, u, o)
      <3> SUFFICES ASSUME NEW x \in kept, Drops(cf, u, o) PROVE FALSE OBVIOUS
      <3>1. group[u] # Unpublished /\ group[u].owners \ {o} = {} BY DEF Drops
      <3>2. u \notin cf.Broken BY <2>1, <2>3, <3>1 DEF Nested
      <3>3. x \in group[u].owners /\ x # o BY <2>1, <3>2 DEF OwnersFit
      <3> QED BY <3>1, <3>3
    <2>5. kept # {} => bound' = bound
      BY <2>1, <2>4, ReleaseIs DEF Leaves
    <2>6. \A a \in cf.Attrs : kept' # {} => Serves(cf, a, bound[a])' BY <1>3, <2>1, <2>3, <2>5
    <2> QED BY <1>2, <2>3, <2>6
  <1>14. ASSUME NEW a \in cf.Attrs, Install(cf)!ThirdParty(a) PROVE RowsFollow(cf)'
    BY <1>14 DEF Install!ThirdParty
  <1> QED
    BY <1>4, <1>5, <1>6, <1>7, <1>8, <1>9, <1>10, <1>11, <1>12, <1>13, <1>14 DEF Install!Next

-----------------------------------------------------------------------------
(* What holds at the start, and what the invariant is for.                  *)

LEMMA LoadStarts ==
  ASSUME NEW cf, Install(cf)!Shape, Install(cf)!Init
  PROVE  LoadInv(cf)
  <1>1. /\ bound = [a \in cf.Attrs |-> IF a \in cf.Native THEN <<Wrap("native", 0)>> ELSE <<>>]
        /\ rows = bound /\ foreign = {}
        /\ group = [u \in UnitsOf(cf) |-> Unpublished] /\ manifest = [u \in UnitsOf(cf) |-> "none"]
        /\ leases = [o \in cf.Owners |-> <<>>] /\ leaving = {} /\ kept = {}
        /\ load = Idle /\ loads = 0
    BY DEF Install!Init, Install!U, Install!Range, Install!Layer, Install!Missing, Install!NoGroup,
           Install!NoLoad, UnitsOf, Range, Wrap, Unpublished, Idle
  <1>2. cf.MaxLoads \in Nat /\ cf.Broken \in SUBSET UnitsOf(cf) BY UnitsAre
  <1>3. load.at = 0 /\ load.step = 0 BY <1>1 DEF Idle
  <1>4. \A u : ~Busy(cf, u) BY <1>3 DEF Busy
  <1>5. \A u \in UnitsOf(cf) : /\ group[u] = Unpublished /\ group[u].owners = {} /\ group[u].gen = 0
                               /\ Steps(u) = {} /\ Len(Changes(u)) = 0
    BY <1>1 DEF Unpublished, Steps, Changes
  <1>6. \A u \in UnitsOf(cf) : \A i : ~Opens(u, i) /\ ~Closes(u, i) /\ ~Holds(u, i)
    BY <1>5 DEF Opens, Closes, Holds
  <1>7. LoadTyped(cf)
    <2>1. Wrap("native", 0) \in Layers(cf) BY DEF Layers
    <2>2. bound \in [cf.Attrs -> Seq(Layers(cf))]
      BY <2>1, <1>1
    <2>3. Unpublished \in Group(cf)
      BY <1>2 DEF Unpublished, Group
    <2>4. group \in [UnitsOf(cf) -> Group(cf)] BY <1>1, <2>3
    <2>5. leases \in [cf.Owners -> Seq(Lease(cf))] BY <1>1
    <2>6. manifest \in [UnitsOf(cf) -> {"none", "applied", "skipped", "unloaded"}] BY <1>1
    <2>7. loads \in 0..cf.MaxLoads BY <1>1, <1>2
    <2> QED BY <1>1, <2>2, <2>4, <2>5, <2>6, <2>7 DEF LoadTyped
  <1>8. GroupsFit(cf) BY <1>4, <1>5 DEF GroupsFit
  <1>9. Leased(cf) /\ AppliedOwned(cf) /\ ThirdStays
    BY <1>1, <1>5 DEF Leased, AppliedOwned, ThirdStays
  <1>10. OwnersFit(cf)
    BY <1>1, <1>3 DEF OwnersFit
  <1>11. Nested(cf) BY <1>2, <1>4, <1>5 DEF Nested
  <1>12. LeasesFit(cf)
    BY <1>1 DEF LeasesFit
  <1>13. BoundShows(cf)
    <2> SUFFICES ASSUME NEW a \in cf.Attrs, NEW x \in UnitsOf(cf), NEW g \in 1..cf.MaxLoads
                 PROVE  Wrap(x, g) \notin Range(bound[a])
      BY <1>6 DEF BoundShows
    <2>1. bound[a] = <<>> \/ bound[a] = <<Wrap("native", 0)>> BY <1>1
    <2>2. Wrap(x, g) # Wrap("native", 0) BY UnitsAre DEF Wrap
    <2> QED BY <2>1, <2>2 DEF Range
  <1>14. Stacked(cf) BY <1>5, <1>6, <1>13 DEF Stacked, Again, TopIsBound, Chained, OldShows
  <1>15. RowsFollow(cf) BY <1>1 DEF RowsFollow
  <1> QED BY <1>7, <1>8, <1>9, <1>10, <1>11, <1>12, <1>14, <1>15 DEF LoadInv, LoadBase

LEMMA LoadKept ==
  ASSUME NEW cf, Install(cf)!Shape, ~cf.Overlap, cf.Third = {}, LoadInv(cf), Install(cf)!Next
  PROVE  LoadInv(cf)'
  BY BaseKept, OwnersKept, NestedKept, LeasesKept, StackedKept, RowsKept DEF LoadInv

\* A step that changes nothing.
LEMMA LoadRests ==
  ASSUME NEW cf, Install(cf)!Shape, UNCHANGED Install(cf)!vars
  PROVE  /\ LoadBase(cf) => LoadBase(cf)'
         /\ LoadInv(cf) => LoadInv(cf)'
  <1>1. /\ bound' = bound /\ foreign' = foreign /\ group' = group /\ manifest' = manifest /\ rows' = rows
        /\ leases' = leases /\ leaving' = leaving /\ kept' = kept /\ load' = load /\ loads' = loads
    BY DEF Install!vars
  <1>2. \A u : Busy(cf, u)' <=> Busy(cf, u) BY <1>1 DEF Busy
  <1>3. \A u : /\ Changes(u)' = Changes(u) /\ Steps(u)' = Steps(u)
    BY <1>1 DEF Changes, Steps
  <1>4. \A u : Rank(cf, u)' = Rank(cf, u) BY <1>2 DEF Rank
  <1>5. \A u, i : /\ Attr(u, i)' = Attr(u, i) /\ Old(u, i)' = Old(u, i) /\ Value(u, i)' = Value(u, i)
    BY <1>1 DEF Attr, Old, Value
  <1>6. \A u, a : Holds(u, a)' <=> Holds(u, a) BY <1>3, <1>5 DEF Holds
  <1>7. \A u, i : Opens(u, i)' <=> Opens(u, i) BY <1>3, <1>5 DEF Opens
  <1>8. ASSUME LoadBase(cf) PROVE LoadBase(cf)'
    <2>0. LoadTyped(cf) /\ GroupsFit(cf) /\ Leased(cf) /\ AppliedOwned(cf) /\ ThirdStays
      BY ONLY <1>8 DEF LoadBase
    <2>1. LoadTyped(cf)' BY <2>0, <1>1 DEF LoadTyped
    <2>2. GroupsFit(cf)' BY <2>0, <1>1, <1>2, <1>3, <1>5 DEF GroupsFit
    <2>3. Leased(cf)' BY <2>0, <1>1 DEF Leased
    <2>4. AppliedOwned(cf)' BY <2>0, <1>1 DEF AppliedOwned
    <2>5. ThirdStays' BY <2>0, <1>1 DEF ThirdStays
    <2> QED BY ONLY <2>1, <2>2, <2>3, <2>4, <2>5 DEF LoadBase
  <1>9. ASSUME OwnersFit(cf) PROVE OwnersFit(cf)' BY <1>9, <1>1 DEF OwnersFit
  <1>10. ASSUME Nested(cf) PROVE Nested(cf)' BY <1>10, <1>1, <1>2 DEF Nested
  <1>11. ASSUME LeasesFit(cf) PROVE LeasesFit(cf)' BY <1>11, <1>1 DEF LeasesFit, Live
  <1>12. ASSUME Install(cf)!Shape, Stacked(cf) PROVE Stacked(cf)'
    BY <1>1, <1>4, <1>12, StackedRests
  <1>13. ASSUME RowsFollow(cf) PROVE RowsFollow(cf)'
    <2> QED BY <1>1, <1>2, <1>5, <1>6, <1>7, <1>13 DEF RowsFollow, Serves
  <1> QED BY <1>8, <1>9, <1>10, <1>11, <1>12, <1>13 DEF LoadInv

LEMMA LoadTypes ==
  ASSUME NEW cf, Install(cf)!Shape, LoadBase(cf)
  PROVE  Install(cf)!TypeOK /\ Install(cf)!ThirdPartyKept /\ Install(cf)!OwnedIsLeased
         /\ Install(cf)!AppliedIsThere
  <1> USE DEF LoadBase
  <1>0. Install(cf)!U = UnitsOf(cf) /\ \A f : Install(cf)!Range(f) = Range(f)
    BY DEF Install!U, Install!Range, UnitsOf, Range
  <1>1. ASSUME NEW s \in Seq(Layers(cf)), NEW l \in Range(s)
        PROVE  l \in {Install(cf)!Layer("native", 0), Install(cf)!Layer("third", 0)}
                     \cup [by : UnitsOf(cf), gen : 1..cf.MaxLoads]
    <2>1. l \in Layers(cf)
      <3>1. PICK i \in DOMAIN s : l = s[i] BY DEF Range
      <3>2. i \in 1..Len(s) BY LenProperties
      <3> QED BY <3>1, <3>2, ElementOfSeq
    <2> QED BY <2>1 DEF Layers, Wrap, Install!Layer
  <1>2. \A a \in cf.Attrs : \A l \in Range(bound[a]) \cup Range(rows[a]) :
           l \in {Install(cf)!Layer("native", 0), Install(cf)!Layer("third", 0)}
                 \cup [by : UnitsOf(cf), gen : 1..cf.MaxLoads]
    BY <1>1 DEF LoadTyped
  <1>3. \A u \in UnitsOf(cf) : group[u].owners \subseteq cf.Owners /\ Len(group[u].changes) <= Len(cf.Binds[u])
    <2> SUFFICES ASSUME NEW u \in UnitsOf(cf)
                 PROVE  group[u].owners \subseteq cf.Owners /\ Len(group[u].changes) <= Len(cf.Binds[u])
      OBVIOUS
    <2>1. group[u].owners \in SUBSET cf.Owners /\ Len(Changes(u)) \in Nat /\ Steps(u) = 1..Len(Changes(u))
      BY GroupIs
    <2>2. Len(cf.Binds[u]) \in Nat BY BindsAre
    <2>3. \A i \in Steps(u) : i <= Len(cf.Binds[u]) BY DEF GroupsFit
    <2>4. Len(Changes(u)) <= Len(cf.Binds[u])
      <3>1. CASE Len(Changes(u)) = 0 BY <2>2, <3>1
      <3>2. CASE Len(Changes(u)) # 0
        BY <2>1, <3>2, <2>3
      <3> QED BY <3>1, <3>2
    <2> QED BY <2>1, <2>4 DEF Changes
  <1>4. Install(cf)!TypeOK
    BY <1>0, <1>2, <1>3 DEF LoadTyped, Install!TypeOK
  <1>5. Install(cf)!ThirdPartyKept BY <1>0 DEF ThirdStays, Install!ThirdPartyKept, Install!Layer, Wrap
  <1>6. Install(cf)!OwnedIsLeased
    <2> SUFFICES ASSUME NEW o \in cf.Owners, NEW u \in UnitsOf(cf), o \in group[u].owners
                 PROVE  [unit |-> u, gen |-> group[u].gen] \in Range(leases[o])
      BY <1>0 DEF Install!OwnedIsLeased
    <2>1. PICK p \in 1..Len(leases[o]) : leases[o][p] = [unit |-> u, gen |-> group[u].gen] BY DEF Leased
    <2>2. LoadTyped(cf) OBVIOUS
    <2>3. leases[o] \in Seq(Lease(cf)) BY <2>2, LeasesAre
    <2>4. DOMAIN leases[o] = 1..Len(leases[o]) BY ONLY <2>3, LenProperties
    <2> QED BY ONLY <2>1, <2>4 DEF Range
  <1>7. Install(cf)!AppliedIsThere BY <1>0 DEF AppliedOwned, Install!AppliedIsThere
  <1> QED BY <1>4, <1>5, <1>6, <1>7

LEMMA LoadImplies ==
  ASSUME NEW cf, Install(cf)!Shape, LoadInv(cf)
  PROVE  Install(cf)!AllOrNothing /\ Install(cf)!RoutesFollow /\ Install(cf)!KeptHolds
  <1> USE DEF LoadInv, LoadBase
  <1>0. Install(cf)!U = UnitsOf(cf) /\ Install(cf)!NoLoad = Idle /\ \A f : Install(cf)!Range(f) = Range(f)
    BY DEF Install!U, Install!Range, Install!NoLoad, UnitsOf, Range, Idle
  <1>1. load = Idle => \A u : ~Busy(cf, u)
    BY DEF Idle, Busy
  <1>2. Install(cf)!AllOrNothing
    <2> SUFFICES ASSUME load = Idle, NEW u \in UnitsOf(cf), NEW a \in cf.Attrs, NEW gen \in 1..cf.MaxLoads
                 PROVE  Wrap(u, gen) \in Range(bound[a]) <=> group[u].gen = gen /\ a \in Range(cf.Binds[u])
      <3>1. \A u, gen : Install(cf)!Layer(u, gen) = Wrap(u, gen) BY DEF Install!Layer, Wrap
      <3> QED BY <1>0, <3>1 DEF Install!AllOrNothing
    <2>1. Wrap(u, gen) \in Range(bound[a]) <=> Holds(u, a) /\ gen = group[u].gen
      BY DEF Stacked, BoundShows
    <2>2. group[u].gen = gen => group[u] # Unpublished
      BY DEF Unpublished
    <2>3. ASSUME group[u] # Unpublished PROVE Holds(u, a) <=> a \in Range(cf.Binds[u])
      <3>1. Len(Changes(u)) = Len(cf.Binds[u]) BY <1>1, <2>3 DEF GroupsFit
      <3>2. Steps(u) = 1..Len(cf.Binds[u]) BY <3>1 DEF Steps, Changes
      <3>3. \A i \in Steps(u) : Attr(u, i) = cf.Binds[u][i] BY DEF GroupsFit
      <3>4. Range(cf.Binds[u]) = {cf.Binds[u][i] : i \in 1..Len(cf.Binds[u])} BY BindsAre
      <3> QED BY <3>2, <3>3, <3>4 DEF Holds
    <2> QED BY <2>1, <2>2, <2>3
  <1>3. Install(cf)!RoutesFollow
    <2> SUFFICES ASSUME load = Idle, leaving = {}, NEW a \in cf.Attrs,
                        bound[a] # <<>>, bound[a][1].by \in UnitsOf(cf)
                 PROVE  rows[a] = bound[a]
      BY <1>0 DEF Install!RoutesFollow, Install!Ours, Install!Missing
    <2>1. CASE kept # {}
      BY <1>1, <2>1 DEF RowsFollow, Serves
    <2>2. CASE kept = {}
      <3>1. \A o \in cf.Owners : leases[o] = <<>>
        <4>1. load.owner \notin cf.Owners
          BY UnitsAre DEF Idle
        <4> QED BY <4>1, <2>2 DEF OwnersFit
      <3>2. \A u \in UnitsOf(cf) : group[u].owners = {}
        <4>1. \A o \in cf.Owners : Len(leases[o]) = 0 BY <3>1
        <4>2. ASSUME NEW o \in cf.Owners, NEW u \in UnitsOf(cf), o \in group[u].owners PROVE FALSE
          <5>1. PICK p \in 1..Len(leases[o]) : leases[o][p] = [unit |-> u, gen |-> group[u].gen]
            BY <4>2 DEF Leased
          <5> QED BY <4>1, <5>1
        <4>3. \A u \in UnitsOf(cf) : group[u].owners \in SUBSET cf.Owners BY GroupIs
        <4> QED BY <4>2, <4>3
      <3>3. \A u \in UnitsOf(cf) : ~Holds(u, a)
        BY <3>2, HeldIsPublished DEF GroupsFit
      <3>4. bound[a] \in Seq(Layers(cf)) BY DEF LoadTyped
      <3>5. 1 \in 1..Len(bound[a]) /\ DOMAIN bound[a] = 1..Len(bound[a])
        BY <3>4, LenProperties, EmptySeq
      <3>6. PICK l : l = bound[a][1] OBVIOUS
      <3>7. l \in Layers(cf) /\ l \in Range(bound[a])
        BY <3>4, <3>5, <3>6, ElementOfSeq DEF Range
      <3>8. l \in [by : UnitsOf(cf), gen : 1..cf.MaxLoads]
        BY <3>6, UnitsAre, <3>7 DEF Wrap, Layers
      <3>9. PICK x \in UnitsOf(cf), g \in 1..cf.MaxLoads : l = Wrap(x, g)
        BY <3>8 DEF Wrap
      <3>10. Holds(x, a) BY <3>7, <3>9 DEF Stacked, BoundShows
      <3> QED BY <3>3, <3>10
    <2> QED BY <2>1, <2>2
  <1>4. Install(cf)!KeptHolds BY <1>0 DEF OwnersFit, Install!KeptHolds
  <1> QED BY <1>2, <1>3, <1>4

-----------------------------------------------------------------------------
(* The group: in every scenario its component keeps its invariant, whatever *)
(* the records of constants are.                                           *)

\* One load after the other, and nobody else binding.
InTurn(cf) == ~cf.Overlap /\ cf.Third = {}

GroupInv ==
    /\ scenario = "claims" => WakeInv(Claims)
    /\ scenario = "switched" => WakeInv(Switched)
    /\ scenario = "locked" => TxnInv(Locked) /\ (Locked.Audits = {} => LockedInv(Locked))
    /\ scenario = "audited" => TxnInv(Audited) /\ (Audited.Audits = {} => LockedInv(Audited))
    /\ scenario = "arming" => ArmInv(Arms)
    /\ scenario = "loads" => LoadBase(Loads) /\ (InTurn(Loads) => LoadInv(Loads))
    /\ scenario = "overlaps" => LoadBase(Overlaps) /\ (InTurn(Overlaps) => LoadInv(Overlaps))

LEMMA GroupStarts == Init => GroupInv
  <1> SUFFICES ASSUME Init PROVE GroupInv OBVIOUS
  <1>1. scenario = "claims" => Wk(Claims)!Init BY DEF Init
  <1>2. scenario = "switched" => Wk(Switched)!Init BY DEF Init
  <1>3. scenario = "locked" => Txn(Locked)!Init BY DEF Init
  <1>4. scenario = "audited" => Txn(Audited)!Init BY DEF Init
  <1>5. scenario = "arming" => Arming(Arms)!Init BY DEF Init
  <1>6. scenario = "loads" => LoadInv(Loads) BY LoadStarts, Instances DEF Init, Instances
  <1>7. scenario = "overlaps" => LoadInv(Overlaps) BY LoadStarts, Instances DEF Init, Instances
  <1>8. scenario = "loads" => LoadBase(Loads) BY <1>6 DEF LoadInv
  <1>9. scenario = "overlaps" => LoadBase(Overlaps) BY <1>7 DEF LoadInv
  <1> QED
    BY <1>1, <1>2, <1>3, <1>4, <1>5, <1>6, <1>7, <1>8, <1>9, Instances, WakeStarts, TxnInit, ArmInit
    DEF GroupInv, Instances

\* What the scenario at hand lets its component do.
LEMMA GroupMoves ==
  ASSUME [Next]_vars
  PROVE  /\ scenario' = scenario
         /\ scenario = "claims" => [Wk(Claims)!Next]_(Wk(Claims)!vars)
         /\ scenario = "switched" => [Wk(Switched)!Next]_(Wk(Switched)!vars)
         /\ scenario = "locked" => [Txn(Locked)!Next]_(Txn(Locked)!vars)
         /\ scenario = "audited" => [Txn(Audited)!Next]_(Txn(Audited)!vars)
         /\ scenario = "arming" => [Arming(Arms)!Next]_(Arming(Arms)!vars)
         /\ scenario = "loads" => [Install(Loads)!Next]_(Install(Loads)!vars)
         /\ scenario = "overlaps" => [Install(Overlaps)!Next]_(Install(Overlaps)!vars)
  <1>1. CASE Next BY <1>1 DEF Next
  <1>2. CASE UNCHANGED vars
    BY <1>2 DEF vars, WorkerVars, Wk!vars, Wk!bounds, TxnVars, Txn!vars, ArmVars, Arming!vars,
       LoadVars, Install!vars
  <1> QED BY <1>1, <1>2

LEMMA LoadInductive ==
  ASSUME NEW cf, Install(cf)!Shape, [Install(cf)!Next]_(Install(cf)!vars)
  PROVE  /\ LoadBase(cf) => LoadBase(cf)'
         /\ LoadInv(cf) /\ InTurn(cf) => LoadInv(cf)'
  BY BaseKept, LoadKept, LoadRests DEF InTurn

LEMMA GroupInductive == GroupInv /\ [Next]_vars => GroupInv'
  <1> SUFFICES ASSUME GroupInv, [Next]_vars PROVE GroupInv' OBVIOUS
  <1>1. scenario = "claims" => WakeInv(Claims)'
    BY GroupMoves, WakeInductive, Instances DEF GroupInv, Instances
  <1>2. scenario = "switched" => WakeInv(Switched)'
    BY GroupMoves, WakeInductive, Instances DEF GroupInv, Instances
  <1>3. scenario = "locked" => TxnInv(Locked)' /\ (Locked.Audits = {} => LockedInv(Locked)')
    BY GroupMoves, TxnInductive, LockedInductive, Instances DEF GroupInv, Instances
  <1>4. scenario = "audited" => TxnInv(Audited)' /\ (Audited.Audits = {} => LockedInv(Audited)')
    BY GroupMoves, TxnInductive, LockedInductive, Instances DEF GroupInv, Instances
  <1>5. scenario = "arming" => ArmInv(Arms)'
    BY GroupMoves, ArmInductive, Instances DEF GroupInv, Instances
  <1>6. scenario = "loads" => LoadBase(Loads)' /\ (InTurn(Loads) => LoadInv(Loads)')
    BY GroupMoves, LoadInductive, Instances DEF GroupInv, Instances
  <1>7. scenario = "overlaps" => LoadBase(Overlaps)' /\ (InTurn(Overlaps) => LoadInv(Overlaps)')
    BY GroupMoves, LoadInductive, Instances DEF GroupInv, Instances
  <1>8. scenario' = scenario BY GroupMoves
  <1>9. InTurn(Loads)' = InTurn(Loads) /\ InTurn(Overlaps)' = InTurn(Overlaps) BY DEF InTurn
  <1> QED BY <1>1, <1>2, <1>3, <1>4, <1>5, <1>6, <1>7, <1>8, <1>9 DEF GroupInv

LEMMA GroupHolds == Spec => []GroupInv
  BY GroupStarts, GroupInductive, PTL DEF Spec

\* Whatever answers, streams and ledger calls fail, whenever the gateway dies
\* and however self-wake is switched, the worker starts at most one turn for a
\* batch, never posts a batch of the App's, counts a run once at most, and
\* never claims a report recorded in shadow mode.
THEOREM TheWorkerWakesOnce == Spec => []WakesOnce
  <1>1. GroupInv => WakesOnce BY WakeImplies DEF GroupInv, WakesOnce
  <1> QED BY <1>1, GroupHolds, PTL

\* A blown fuse lets the worker claim nothing: the gate read before admit is
\* still what it was, since only the worker itself blows the fuse.
THEOREM TheFuseHolds == Spec => FusedAdmitsNothing
  <1>1. GroupInv /\ [Next]_vars => [scenario = "claims" => Wk(Claims)!FusedStep]_vars
    BY GroupMoves, FuseKept DEF GroupInv
  <1> QED BY <1>1, GroupHolds, PTL DEF Spec, FusedAdmitsNothing

\* What a locked operation answered is in the file although other threads
\* write and commit on its connection; and where no unlocked writer is at
\* work, the file never holds one write of an operation without the other.
THEOREM LedgerIsAtomic == Spec => []LedgerAtomic
  <1>1. GroupInv => LedgerAtomic BY TxnImplies DEF GroupInv, LedgerAtomic
  <1> QED BY <1>1, GroupHolds, PTL

\* No worker outlives its load, whatever order loads, unloads, connects and
\* posted arms come in, for any number of copies of the module.
THEOREM NoWorkerOutlivesItsLoad == Spec => []NoZombieWorker
  <1>1. GroupInv => NoZombieWorker BY DEF GroupInv, ArmInv, NoZombieWorker
  <1> QED BY <1>1, GroupHolds, PTL

\* Managers that load one after the other leave no unit half applied, whatever
\* units there are, whatever they bind in common and wherever a load fails: an
\* applied unit is there with all of its layers, owned and leased, and the
\* routes serve what is bound. Where loads overlap and third parties bind over
\* ours, what they bound stays in the path (install and Transaction).
THEOREM LoadsStayWhole ==
  ASSUME ~Loads.Overlap, Loads.Third = {}
  PROVE  Spec => []LoadsAreWhole
  <1>1. GroupInv => LoadsAreWhole
    <2> SUFFICES ASSUME GroupInv PROVE LoadsAreWhole OBVIOUS
    <2>1. Install(Loads)!Shape /\ Install(Overlaps)!Shape BY Instances DEF Instances
    <2>2. scenario = "loads" => LoadBase(Loads) /\ LoadInv(Loads) BY DEF GroupInv, InTurn
    <2>3. scenario = "overlaps" => LoadBase(Overlaps) BY DEF GroupInv
    <2> QED BY <2>1, <2>2, <2>3, LoadTypes, LoadImplies DEF LoadsAreWhole
  <1> QED BY <1>1, GroupHolds, PTL

=============================================================================
