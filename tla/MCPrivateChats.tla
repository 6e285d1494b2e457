----------------------------- MODULE MCPrivateChats -----------------------------
(* Instances of PrivateChats for TLC: a and b with one socket each, c a    *)
(* user without a socket.                                                  *)
EXTENDS PrivateChats, TLC

CONSTANTS a, b, c, a1, b1

TwoUsers == {a, b}
ThreeUsers == {a, b, c}
OneEach == {a1, b1}
OwnerOneEach == (a1 :> a) @@ (b1 :> b)
OnlyC == {c}
Nobody == {}
===============================================================================
