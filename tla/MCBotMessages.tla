----------------------------- MODULE MCBotMessages -----------------------------
(* BotMessages for TLC: two bots, a topic with a message of its own and an *)
(* empty one, so that a draw may find nothing.                             *)
EXTENDS BotMessages

CONSTANTS b1, b2, m1, t1, t2, p1, p2

MCBots == {b1, b2}
MCMessages == {m1}
MCTopics == {t1, t2}
MCTopicOf == [m \in {m1} |-> t1]
MCProcesses == {p1, p2}
===============================================================================
