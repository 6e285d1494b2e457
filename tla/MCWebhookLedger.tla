---------------------------- MODULE MCWebhookLedger ----------------------------
(* Instances of WebhookLedger for TLC.                                     *)
EXTENDS WebhookLedger

CONSTANTS e1, e2, e3, w1, w2

MCEvents == {e1, e2, e3}
OnlyE1 == {e1}
MCHandled == {e1, e2}
MCWorkers == {w1, w2}
===============================================================================
