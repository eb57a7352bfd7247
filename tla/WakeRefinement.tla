--------------------------- MODULE WakeRefinement ---------------------------
(* The ledger with its door implements WakeOnce: the phase of a report is   *)
(* read off its consumption row and the state of the batch that holds it.   *)
EXTENDS WakeLedger

phaseOf == [k \in Keys |->
    CASE cons[k].state = "none" -> "free"
      [] cons[k].state = "ignored" -> "ignored"
      [] OTHER -> IF batch[cons[k].batch].state \in ClosedStates
                  THEN "closed" ELSE "held"]

wokenOf == [k \in Keys |->
    IF cons[k].state = "consumed" THEN fired[cons[k].batch] ELSE 0]

Once == INSTANCE WakeOnce WITH phase <- phaseOf, woken <- wokenOf

\* Seen through the mapping, every step of the ledger, the door, the clients,
\* retention and a crash is a step of WakeOnce or none: what admit, release,
\* report, gate_dispatch and _settle do together is one wake per claim. It is
\* stated for a host without a live Bot Chat lane.
ImplementsWakeOnce == Once!Spec
=============================================================================
