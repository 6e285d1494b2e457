----------------------------- MODULE MCGuestIdentity -----------------------------
(* GuestIdentity for TLC: two guests who want one nickname, the first with *)
(* two tabs.                                                               *)
EXTENDS GuestIdentity

CONSTANTS g1, g2, t1, t2, t3, n1

MCBrowsers == {g1, g2}
MCTabs == {t1, t2, t3}
MCBrowserOf == [t \in MCTabs |-> IF t = t3 THEN g2 ELSE g1]
MCNicks == {n1}
===============================================================================
