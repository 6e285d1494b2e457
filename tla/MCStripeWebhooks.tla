--------------------------- MODULE MCStripeWebhooks ---------------------------
(* Instances of StripeWebhooks for TLC.                                    *)
EXTENDS StripeWebhooks, TLC

CONSTANTS s1, s2, w1, w2

OneSub == {s1}
TwoSubs == {s1, s2}
OneWorker == {w1}
TwoWorkers == {w1, w2}
Symmetry == Permutations(TwoWorkers) \cup Permutations(TwoSubs)
MCEvents == 1 .. MaxEvents
None == {}
===============================================================================
