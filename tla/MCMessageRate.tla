----------------------------- MODULE MCMessageRate -----------------------------
(* Two sockets of one user, and a limit they can exceed by half.           *)
EXTENDS MessageRate

CONSTANTS t1, t2

MCSockets == {t1, t2}
===============================================================================
