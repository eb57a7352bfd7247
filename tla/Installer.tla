----------------------------- MODULE Installer -----------------------------
(***************************************************************************)
(* install() and Transaction of compat.py: the units are installed in the  *)
(* order of UNITS, each a group of bindings shared by the plugin managers  *)
(* that own it. The loader may mark a load abandoned at any moment, unload *)
(* a manager by running its leases newest first, or register it again; a   *)
(* third party may bind over ours. install holds the state's lock from the *)
(* first unit to the last, so releases wait for it. A value is the         *)
(* sequence of layers a call goes through: a wrapper keeps what it wraps.  *)
(* A row of the router holds the value it was last given.                  *)
(***************************************************************************)
EXTENDS Naturals, Sequences, Functions

CONSTANTS
    Owners,   \* plugin managers
    Units,    \* the sequence of units
    Attrs,    \* attributes the units bind, each served by one route
    Native,   \* the attributes the gateway itself has
    Binds,    \* Binds[u]: the attributes unit u sets, in order
    Broken,   \* units this gateway build is incompatible with
    Third,    \* attributes a third party binds over
    MaxLoads, \* bound on the loads
    Overlap   \* whether a manager registers again before it has unwound

Shape ==
    /\ MaxLoads \in Nat /\ Overlap \in BOOLEAN /\ Native \cup Third \subseteq Attrs
    /\ Units \in Seq(Range(Units)) /\ IsInjective(Units)
    /\ \A u \in Range(Units) : Binds[u] \in Seq(Attrs)
    /\ Broken \subseteq Range(Units)
    /\ "none" \notin Owners /\ {"native", "third"} \cap Range(Units) = {}

VARIABLES
    bound,     \* bound[a]: the attribute's value now
    foreign,   \* attributes a third party has bound over
    group,     \* group[u]: the published group of the unit
    manifest,  \* manifest[u]: its status
    rows,      \* rows[a]: the handler the router serves
    leases,    \* leases[o]: release callbacks the loader holds, oldest first
    leaving,   \* managers the loader is unloading
    kept,      \* managers whose last load ended well and was not unloaded
    load,      \* the load in progress
    loads

vars == <<bound, foreign, group, manifest, rows, leases, leaving, kept, load, loads>>

U == Range(Units)
NoLoad == [owner |-> "none", at |-> 0, step |-> 0, abandoned |-> FALSE]
NoGroup == [gen |-> 0, owners |-> {}, changes |-> <<>>]
Missing == <<>>
Layer(by, gen) == [by |-> by, gen |-> gen]
Ours(v) == v # Missing /\ v[1].by \in U

TypeOK ==
    /\ \A a \in Attrs : \A l \in Range(bound[a]) \cup Range(rows[a]) :
           l \in {Layer("native", 0), Layer("third", 0)} \cup [by : U, gen : 1..MaxLoads]
    /\ \A u \in U : /\ group[u].owners \subseteq Owners
                    /\ Len(group[u].changes) <= Len(Binds[u])
                    /\ manifest[u] \in {"none", "applied", "skipped", "unloaded"}
    /\ leaving \cup kept \subseteq Owners

Init ==
    /\ bound = [a \in Attrs |-> IF a \in Native THEN <<Layer("native", 0)>> ELSE Missing]
    /\ rows = bound /\ foreign = {}
    /\ group = [u \in U |-> NoGroup] /\ manifest = [u \in U |-> "none"]
    /\ leases = [o \in Owners |-> <<>>] /\ leaving = {} /\ kept = {}
    /\ load = NoLoad /\ loads = 0

-----------------------------------------------------------------------------
(* Transaction                                                             *)

\* One change is undone only while its own value is still bound.
Undone(b, c) == IF b[c.attr] = c.value THEN [b EXCEPT ![c.attr] = c.old] ELSE b

\* restore: the newest change first, so an attribute bound twice gets back
\* what it had before the first.
Restored(changes) ==
    LET undo[n \in 0..Len(changes)] ==
            IF n = Len(changes) THEN bound ELSE Undone(undo[n + 1], changes[n + 1])
    IN  undo[0]

\* Mutant: the group is not compared with the published one.
LastOf_Any(u, gen, o) == group[u].gen # gen \/ group[u].owners \ {o} = {}

\* The owner leaves the group of its lease and nobody else holds it.
LastOf(u, gen, o) == group[u].gen = gen /\ group[u].owners \ {o} = {}

\* release(): the manifest says gone of a unit nobody holds any more, and
\* staying of one that others keep.
Release(u, gen, o, gone, staying) ==
    IF LastOf(u, gen, o)
    THEN /\ bound' = Restored(group[u].changes)
         /\ group' = [group EXCEPT ![u] = NoGroup] /\ manifest' = [manifest EXCEPT ![u] = gone]
    ELSE /\ group' = IF group[u].gen = gen THEN [group EXCEPT ![u].owners = @ \ {o}] ELSE group
         /\ manifest' = [manifest EXCEPT ![u] = staying] /\ UNCHANGED bound

-----------------------------------------------------------------------------
(* A load                                                                  *)

Begin(o) ==
    /\ load = NoLoad /\ loads < MaxLoads /\ (o \in leaving => Overlap)
    /\ load' = [owner |-> o, at |-> 1, step |-> 0, abandoned |-> FALSE] /\ loads' = loads + 1
    /\ kept' = kept \ {o}
    /\ UNCHANGED <<bound, foreign, group, manifest, rows, leases, leaving>>

InUnit == load.at \in 1..Len(Units)
Unit == Units[load.at]
NextUnit == [load EXCEPT !.at = @ + 1, !.step = 0]

\* The unit is this manager's already.
Skip ==
    /\ InUnit /\ load.step = 0 /\ load.owner \in group[Unit].owners /\ load' = NextUnit
    /\ UNCHANGED <<bound, foreign, group, manifest, rows, leases, leaving, kept, loads>>

\* The abandonment flag, before the lease and before every binding.
Refused == load.abandoned

Fresh(u) == group[u] = NoGroup

\* The group is published and the unload lease taken; then come the bindings. An
\* abandoned load gets no lease.
Enter ==
    LET o == load.owner
        gen == IF group[Unit] = NoGroup THEN loads ELSE group[Unit].gen
    IN
    /\ InUnit /\ load.step = 0 /\ o \notin group[Unit].owners /\ ~Refused
    /\ group' = [group EXCEPT ![Unit].gen = gen, ![Unit].owners = @ \cup {o}]
    /\ leases' = IF load.abandoned THEN leases
                 ELSE [leases EXCEPT ![o] = Append(@, [unit |-> Unit, gen |-> gen])]
    /\ load' = IF Fresh(Unit) THEN [load EXCEPT !.step = 1] ELSE NextUnit
    /\ UNCHANGED <<bound, foreign, manifest, rows, leaving, kept, loads>>

\* Transaction.set.
Bind ==
    LET a == Binds[Unit][load.step]
        v == <<Layer(Unit, group[Unit].gen)>> \o bound[a]
    IN
    /\ InUnit /\ load.step \in 1..Len(Binds[Unit]) /\ ~Refused
    /\ bound' = [bound EXCEPT ![a] = v]
    /\ group' = [group EXCEPT ![Unit].changes = Append(@, [attr |-> a, old |-> bound[a], value |-> v])]
    /\ load' = [load EXCEPT !.step = @ + 1]
    /\ UNCHANGED <<foreign, manifest, rows, leases, leaving, kept, loads>>

\* _require, _signature and _fingerprint against the reviewed sources.
Incompatible(u) == u \in Broken

Applied ==
    /\ InUnit /\ load.step > Len(Binds[Unit]) /\ ~Incompatible(Unit)
    /\ manifest' = [manifest EXCEPT ![Unit] = "applied"] /\ load' = NextUnit
    /\ UNCHANGED <<bound, foreign, group, rows, leases, leaving, kept, loads>>

\* Abandoned, or incompatible at some point: the owner is released at once.
Fail ==
    /\ InUnit
    /\ \/ Refused /\ load.step <= Len(Binds[Unit]) /\ (load.step = 0 => load.owner \notin group[Unit].owners)
       \/ load.step > 0 /\ Incompatible(Unit)
    /\ Release(Unit, group[Unit].gen, load.owner, "skipped", "skipped")
    /\ load' = NextUnit
    /\ UNCHANGED <<foreign, rows, leases, leaving, kept, loads>>

\* _sync_routes: rows whose handler or table entry is ours follow the table;
\* rows the table has and the router lacks are added.
Synced == [a \in Attrs |-> IF bound[a] # Missing /\ (Ours(bound[a]) \/ Ours(rows[a])) THEN bound[a] ELSE rows[a]]

\* The load ends; the live adapters' routers are synchronised unless it was
\* abandoned.
End ==
    /\ load.at > Len(Units) /\ load' = NoLoad
    /\ rows' = IF load.abandoned THEN rows ELSE Synced
    /\ kept' = IF load.abandoned THEN kept ELSE kept \cup {load.owner}
    /\ UNCHANGED <<bound, foreign, group, manifest, leases, leaving, loads>>

-----------------------------------------------------------------------------
(* The loader and third parties                                            *)

\* The deadline passes: the load is marked and its leases are swept.
Abandon ==
    /\ load # NoLoad /\ ~load.abandoned /\ load' = [load EXCEPT !.abandoned = TRUE]
    /\ leaving' = leaving \cup {load.owner}
    /\ UNCHANGED <<bound, foreign, group, manifest, rows, leases, kept, loads>>

Unload(o) ==
    /\ load = NoLoad /\ leases[o] # <<>> /\ o \notin leaving
    /\ leaving' = leaving \cup {o} /\ kept' = kept \ {o}
    /\ UNCHANGED <<bound, foreign, group, manifest, rows, leases, load, loads>>

\* One lease, the newest first.
Lets(o) ==
    LET n == Len(leases[o])
        l == leases[o][n]
    IN
    /\ load = NoLoad /\ o \in leaving /\ leases[o] # <<>>
    /\ Release(l.unit, l.gen, o, "unloaded", manifest[l.unit])
    /\ leases' = [leases EXCEPT ![o] = SubSeq(@, 1, n - 1)]
    /\ UNCHANGED <<foreign, rows, leaving, kept, load, loads>>

Left(o) ==
    /\ load.owner # o /\ o \in leaving /\ leases[o] = <<>> /\ leaving' = leaving \ {o}
    /\ UNCHANGED <<bound, foreign, group, manifest, rows, leases, kept, load, loads>>

ThirdParty(a) ==
    /\ a \in Third \ foreign /\ bound[a] # Missing
    /\ bound' = [bound EXCEPT ![a] = <<Layer("third", 0)>> \o @] /\ foreign' = foreign \cup {a}
    /\ UNCHANGED <<group, manifest, rows, leases, leaving, kept, load, loads>>

Next ==
    \/ \E o \in Owners : Begin(o) \/ Unload(o) \/ Lets(o) \/ Left(o)
    \/ Skip \/ Enter \/ Bind \/ Applied \/ Fail \/ End \/ Abandon
    \/ \E a \in Attrs : ThirdParty(a)

Spec == Init /\ [][Next]_vars

-----------------------------------------------------------------------------
\* Between loads a call of an attribute goes through the layer of a unit
\* exactly when the unit's group is published, unless a third party sits on
\* it: no unit is half applied, and a unit that went leaves nothing behind.
AllOrNothing ==
    load = NoLoad =>
        \A u \in U, a \in Attrs \ Third : \A gen \in 1..MaxLoads :
            Layer(u, gen) \in Range(bound[a]) <=> group[u].gen = gen /\ a \in Range(Binds[u])

\* What a third party bound over ours stays in the path of a call for good.
ThirdPartyKept == \A a \in foreign : Layer("third", 0) \in Range(bound[a])

\* A manager that owns a unit has a lease on that very group.
OwnedIsLeased == \A o \in Owners, u \in U : o \in group[u].owners => [unit |-> u, gen |-> group[u].gen] \in Range(leases[o])

\* A unit the manifest calls applied is there, held by somebody.
AppliedIsThere == \A u \in U : manifest[u] = "applied" => group[u].owners # {}

\* Once nobody is leaving, the router serves what is bound wherever that is
\* ours, also on routers frozen before the load.
RoutesFollow == load = NoLoad /\ leaving = {} => \A a \in Attrs : Ours(bound[a]) => rows[a] = bound[a]

\* A unit the manifest calls skipped is not in force.
SkippedIsAbsent == load = NoLoad => \A u \in U : manifest[u] = "skipped" => group[u] = NoGroup

\* A manager whose load ended well owns every compatible unit until it is
\* unloaded.
KeptHolds == load = NoLoad => \A o \in kept, u \in U \ Broken : o \in group[u].owners
=============================================================================
