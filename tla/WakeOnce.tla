------------------------------ MODULE WakeOnce ------------------------------
(***************************************************************************)
(* What the auto-wake promises about ONE report, without batches, quota,   *)
(* handlers or crashes: a report is free until somebody claims it, a claim *)
(* is given back only if no turn was started for it, and a claim starts at *)
(* most one turn. A claim whose outcome is known is closed; only a closed  *)
(* claim may be forgotten (the 90-day retention).                          *)
(***************************************************************************)
EXTENDS Naturals

CONSTANT Keys

VARIABLES
    phase,   \* phase[k]: free, ignored, held or closed
    woken    \* woken[k]: turns started under the present claim of k

vars == <<phase, woken>>


Init ==
    /\ phase = [k \in Keys |-> "free"]
    /\ woken = [k \in Keys |-> 0]

Move(A, p) == phase' = [k \in Keys |-> IF k \in A THEN p ELSE phase[k]]
Clear(A) == woken' = [k \in Keys |-> IF k \in A THEN 0 ELSE woken[k]]

\* One decision claims some free reports and ignores others for good.
Claim(A, I) ==
    /\ \A k \in A \cup I : phase[k] = "free"
    /\ phase' = [k \in Keys |-> IF k \in I THEN "ignored"
                                ELSE IF k \in A THEN "held" ELSE phase[k]]
    /\ UNCHANGED woken

GiveBack(A) ==
    /\ \A k \in A : phase[k] = "held" /\ woken[k] = 0
    /\ Move(A, "free")
    /\ UNCHANGED woken

\* A turn starts for the reports of one claim, also when the claim was closed
\* as uncertain before the slow handler got so far.
Wake(A) ==
    /\ \A k \in A : phase[k] \in {"held", "closed"} /\ woken[k] = 0
    /\ woken' = [k \in Keys |-> IF k \in A THEN 1 ELSE woken[k]]
    /\ UNCHANGED phase

Close(A) ==
    /\ \A k \in A : phase[k] = "held"
    /\ Move(A, "closed")
    /\ UNCHANGED woken

Forget(A) ==
    /\ \A k \in A : phase[k] = "closed"
    /\ Move(A, "free")
    /\ Clear(A)

Next ==
    \E A, I \in SUBSET Keys :
        Claim(A, I) \/ GiveBack(A) \/ Wake(A) \/ Close(A) \/ Forget(A)

Spec == Init /\ [][Next]_vars
=============================================================================
