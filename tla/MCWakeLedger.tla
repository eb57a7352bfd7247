---------------------------- MODULE MCWakeLedger ----------------------------
(* Small instances of WakeLedger for TLC.                                   *)
EXTENDS WakeRefinement, TLC

CONSTANTS k1, k2, k3, s1, s2, b1, b2, b3, d1, d2

\* One session: every report is its.
OneSession == [k \in Keys |-> s1]
\* Two sessions share the profile: k3 is the other session's.
TwoSessions == [k \in Keys |-> IF k = k3 THEN s2 ELSE s1]
\* Every report has a text of its own, or k1 and k2 repeat the same text.
OwnSource == [k \in Keys |-> k]
SharedSource == [k \in Keys |-> IF k = k3 THEN "other text" ELSE "same text"]

\* Ids are interchangeable; so are keys of one session with their own texts.
BatchSymmetry == Permutations(Batches)
AllSymmetry == Permutations(Batches) \cup Permutations(Doors) \cup Permutations(Keys)
=============================================================================
