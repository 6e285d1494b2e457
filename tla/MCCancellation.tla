---------------------------- MODULE MCCancellation ----------------------------
(* Instances of Cancellation for TLC.                                      *)
EXTENDS Cancellation, TLC

CONSTANTS s1, s2, w1, t1

OneSub == {s1}
TwoSubs == {s1, s2}
OneWorker == {w1}
OneTab == {t1}
MCEvents == 1 .. MaxEvents
None == {}
Symmetry == Permutations(TwoSubs)
===============================================================================
