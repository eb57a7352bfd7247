---------------------------- MODULE MCCronBridge ----------------------------
(* Small instances of CronBridge for TLC.                                   *)
EXTENDS CronBridge, TLC

CONSTANTS r1, c1, c2, s1, s2, d1, d2

DrainerSymmetry == Permutations(Drainers) \cup Permutations(Contents)
=============================================================================
