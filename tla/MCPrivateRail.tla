----------------------------- MODULE MCPrivateRail -----------------------------
(* PrivateRail for TLC: the tab of a, a partner b and a bot c.             *)
EXTENDS PrivateRail, TLC

CONSTANTS a, b, c, a1

MCUsers == {a, b, c}
MCSockets == {a1}
MCOwner == a1 :> a
OnlyC == {c}
OnlyA == {a}
===============================================================================
