---------------------------- MODULE SelfWakeArm ----------------------------
(***************************************************************************)
(* Arming the self-wake worker (compat.py, self_wake.py): the unit is      *)
(* loaded and unloaded from loader threads, the worker runs as a task of   *)
(* the gateway's loop, and an arm travels between them as a posted call    *)
(* that carries the module and generation of its load. Every namespace the *)
(* plugin is loaded into has a module, and so a worker, of its own.        *)
(***************************************************************************)
EXTENDS Naturals, Sequences

CONSTANTS
    Mods,     \* copies of self_wake, one per loader namespace
    MaxGen,   \* bound on the generation
    MaxLinks  \* bound on the connects

Shape == Mods # {} /\ {MaxGen, MaxLinks} \subseteq Nat

VARIABLES
    current,   \* state["selfwake"]: module and generation
    status,    \* the unit's status in the manifest
    stamp,     \* its liveness field
    task,      \* task[m]: the sweep task of module m
    posted,    \* arms on their way to the loop, in order
    connected, \* the app platform is connected
    links

vars == <<current, status, stamp, task, posted, connected, links>>

\* Types; a load, which costs two generations, posts one arm per loop.
TypeOK ==
    /\ current \in [mod : Mods, gen : 0..MaxGen]
    /\ status \in {"none", "applied", "unloaded"}
    /\ stamp \in {"none", "armed", "skipped", "dead", "stopped"}
    /\ task \in [Mods -> {"none", "running", "dead"}]
    /\ posted \in Seq([mod : Mods, gen : 1..MaxGen]) /\ 2 * Len(posted) <= current.gen + 1
    /\ connected \in BOOLEAN /\ links \in 0..MaxLinks

Init ==
    /\ current = [mod |-> CHOOSE m \in Mods : TRUE, gen |-> 0] /\ status = "none" /\ stamp = "none"
    /\ task = [m \in Mods |-> "none"] /\ posted = <<>> /\ connected = FALSE /\ links = 0

\* Mutant: whoever calls is armed.
Stale_Never(p) == FALSE

\* The identity guard: an arm of a load that is not the current one.
Stale(p) == p # current

\* _selfwake_arm_guarded, on the loop.
Arm(p) ==
    IF Stale(p) \/ status # "applied"
    THEN /\ stamp' = IF status = "none" THEN stamp ELSE "skipped"
         /\ UNCHANGED task
    ELSE stamp' = "armed" /\ task' = [task EXCEPT ![p.mod] = "running"]

\* Mutant: only a notification arms.
Scan_Never(p) == posted

\* _selfwake_scan_rearm: post an arm to the loop of every live adapter.
Scan(p) == IF connected THEN Append(posted, p) ELSE posted

\* A fresh install of the unit, and the scan at the end of the load.
Load(m) ==
    LET p == [mod |-> m, gen |-> current.gen + 1] IN
    /\ status # "applied" /\ current.gen < MaxGen - 1
    /\ current' = p /\ status' = "applied" /\ posted' = Scan(p)
    /\ stamp' = "none" /\ UNCHANGED <<task, connected, links>>

\* reset(): the worker of the module is stopped and dropped.
Reset(m) == [task EXCEPT ![m] = "none"]

\* The cleanup of the unit, then its new entry in the manifest.
Unload ==
    /\ status = "applied" /\ status' = "unloaded" /\ stamp' = "none"
    /\ current' = [current EXCEPT !.gen = @ + 1] /\ task' = Reset(current.mod)
    /\ UNCHANGED <<posted, connected, links>>

\* The platform connects on the loop and arms at once.
Connect ==
    /\ ~connected /\ links < MaxLinks /\ links' = links + 1 /\ connected' = TRUE
    /\ IF current.gen = 0 THEN UNCHANGED <<stamp, task>> ELSE Arm(current)
    /\ UNCHANGED <<current, status, posted>>

\* arm_stop.
Disconnect ==
    /\ connected /\ connected' = FALSE /\ task' = Reset(current.mod)
    /\ stamp' = IF status = "none" THEN stamp ELSE "stopped"
    /\ UNCHANGED <<current, status, posted, links>>

Runs ==
    /\ posted # <<>> /\ posted' = Tail(posted) /\ Arm(Head(posted))
    /\ UNCHANGED <<current, status, connected, links>>

\* The sweep task ends with an exception.
Dies(m) ==
    /\ task[m] = "running" /\ task' = [task EXCEPT ![m] = "dead"] /\ stamp' = "dead"
    /\ UNCHANGED <<current, status, posted, connected, links>>

Next ==
    \/ Unload \/ Connect \/ Disconnect \/ Runs
    \/ \E m \in Mods : Load(m) \/ Dies(m)

Spec == Init /\ [][Next]_vars
\* The loop runs what is posted to it.
FairSpec == Spec /\ WF_vars(Runs)

-----------------------------------------------------------------------------
\* No worker outlives its load: only the module of the applied unit has a
\* task, so a late arm never resurrects a replaced worker and workers never
\* stack.
NoZombieWorker == \A m \in Mods : task[m] = "running" => m = current.mod /\ status = "applied"

=============================================================================
