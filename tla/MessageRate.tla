------------------------------ MODULE MessageRate ------------------------------
(***************************************************************************)
(* The messages of one identity through all of its sockets: the counter    *)
(* they share in Django's cache, the socket that is closed when it runs    *)
(* over, and the presence marker that the closing takes from the sockets   *)
(* that stay.  A consumer handles one frame at a time.                     *)
(*                                                                         *)
(* The cache is external.  add() is one command (SET NX with a timeout);   *)
(* aincr() of Django's cache API is a get and a set: another socket may    *)
(* write between the two, and the set gives the key the cache's own        *)
(* timeout instead of the window.  A message to a private group the socket *)
(* has not joined is refused before it is counted and changes nothing.     *)
(***************************************************************************)
EXTENDS Naturals, FiniteSets, Combinatorics

CONSTANTS Sockets,   \* the websocket connections of the identity
          Limit,     \* CHAT_MESSAGE_RATE_LIMIT
          MaxSent    \* bound on the messages sent

ASSUME RateAssumption ==
  Limit \in Nat \ {0} /\ MaxSent \in Nat /\ IsFiniteSet(Sockets)

Absent == 0  \* no counter: a counter is at least 1

VARIABLES
  rate,    \* CHAT_MESSAGE_RATE_CACHE_KEY
  ttl,     \* the timeout it was last written with
  at,      \* the step of each consumer
  shut,    \* the sockets close() was called on: what is queued is still handled
  got,     \* the value each consumer has read of the counter
  marked,  \* the presence marker
  sent,    \* messages handled so far
  passed,  \* ghost: messages let through since the counter was created
  since    \* ghost: messages counted since no counter was left, stored or read

vars == <<rate, ttl, at, shut, got, marked, sent, passed, since>>

RateTypeOK ==
  /\ rate \in Nat
  /\ ttl \in {"none", "window", "default"}
  /\ at \in [Sockets -> {"off", "idle", "get", "set", "leaving"}]
  /\ shut \subseteq {s \in Sockets : at[s] \in {"idle", "get", "set"}}
  /\ got \in [Sockets -> Nat]
  /\ \A s \in Sockets : at[s] = "set" <=> got[s] # Absent
  /\ rate = Absent => ttl = "none" /\ passed = 0
  /\ marked \in BOOLEAN
  /\ sent \in 0 .. MaxSent /\ passed \in Nat /\ since \in Nat

RateInit ==
  /\ rate = Absent /\ ttl = "none"
  /\ at = [s \in Sockets |-> "off"] /\ shut = {}
  /\ got = [s \in Sockets |-> Absent]
  /\ marked = FALSE
  /\ sent = 0 /\ passed = 0 /\ since = 0
-------------------------------------------------------------------------------
\* Mutant: the message that reaches the limit does not pass it yet.
OverByOne(count) == count > Limit + 1

Over(count) == count > Limit

\* What follows the count: close() with CHAT_MESSAGE_RATE_LIMIT_CLOSE_CODE, or
\* the text is looked at and broadcast.
Judged(s, count) == shut' = IF Over(count) THEN shut \cup {s} ELSE shut

\* The ghosts after a write of the counter by a message of that count.
Written(count, step) ==
  /\ passed' = passed + (IF Over(count) THEN 0 ELSE 1)
  /\ since' = since + step

Moves(s, step, value) ==
  /\ at' = [at EXCEPT ![s] = step]
  /\ got' = [got EXCEPT ![s] = value]
-------------------------------------------------------------------------------
\* connect(): accepted and marked online.
Opens(s) ==
  /\ at[s] = "off"
  /\ at' = [at EXCEPT ![s] = "idle"]
  /\ marked' = TRUE
  /\ UNCHANGED <<rate, ttl, shut, got, sent, passed, since>>

\* Mutant: the marker is left to connect().
HeartbeatUnmarked(s) == at[s] = "idle" /\ UNCHANGED vars

\* handle_heartbeat
Heartbeat(s) ==
  /\ at[s] = "idle"
  /\ marked' = TRUE
  /\ UNCHANGED <<rate, ttl, at, shut, got, sent, passed, since>>

\* handle_send_message without a group: close(401).
SendsNowhere(s) ==
  /\ at[s] = "idle"
  /\ shut' = shut \cup {s}
  /\ UNCHANGED <<rate, ttl, at, got, marked, sent, passed, since>>

\* handle_send_message up to the add() of _count_message_in_window.  It counts
\* before the text is looked at: a blank one costs as much.
Sends(s) ==
  /\ at[s] = "idle" /\ sent < MaxSent
  /\ sent' = sent + 1
  /\ IF rate = Absent
     THEN /\ rate' = 1 /\ ttl' = "window"
          /\ Judged(s, 1) /\ Written(1, 1)
          /\ UNCHANGED <<at, got>>
     ELSE /\ Moves(s, "get", Absent)
          /\ UNCHANGED <<rate, ttl, shut, passed, since>>
  /\ UNCHANGED marked

\* aincr(), the get.  ValueError: the key has expired, the message goes uncounted.
Gets(s) ==
  /\ at[s] = "get"
  /\ IF rate = Absent
     THEN Moves(s, "idle", Absent) /\ Judged(s, 1)
     ELSE Moves(s, "set", rate) /\ UNCHANGED shut
  /\ UNCHANGED <<rate, ttl, marked, sent, passed, since>>

\* Mutant: a message adds two to the counter.
SetsTwice(s) ==
  /\ at[s] = "set"
  /\ rate' = got[s] + 2 /\ ttl' = "default"
  /\ Moves(s, "idle", Absent)
  /\ Judged(s, got[s] + 2) /\ Written(got[s] + 2, 1)
  /\ UNCHANGED <<marked, sent>>

\* Mutant: the key is written without a timeout, as a bare INCR would.
SetsForever(s) ==
  /\ at[s] = "set"
  /\ rate' = got[s] + 1 /\ ttl' = "none"
  /\ Moves(s, "idle", Absent)
  /\ Judged(s, got[s] + 1) /\ Written(got[s] + 1, 1)
  /\ UNCHANGED <<marked, sent>>

\* aincr(), the set: the key is there again if it has expired meanwhile.
Sets(s) ==
  /\ at[s] = "set"
  /\ rate' = got[s] + 1 /\ ttl' = "default"
  /\ Moves(s, "idle", Absent)
  /\ Judged(s, got[s] + 1) /\ Written(got[s] + 1, 1)
  /\ UNCHANGED <<marked, sent>>
-------------------------------------------------------------------------------
\* disconnect(), up to the groups: the browser leaves, or close() is answered.
Leaves(s) ==
  /\ at[s] = "idle"
  /\ at' = [at EXCEPT ![s] = "leaving"]
  /\ shut' = shut \ {s}
  /\ UNCHANGED <<rate, ttl, got, marked, sent, passed, since>>

\* cleanup_user_presence: the marker goes, whoever else may have the identity.
Gone(s) ==
  /\ at[s] = "leaving"
  /\ at' = [at EXCEPT ![s] = "off"]
  /\ marked' = FALSE
  /\ UNCHANGED <<rate, ttl, shut, got, sent, passed, since>>

Forgotten(pending) == IF pending = {} THEN 0 ELSE since

\* The server process dies: no disconnect() runs.
Dies(s) ==
  /\ at[s] # "off"
  /\ Moves(s, "off", Absent)
  /\ shut' = shut \ {s}
  /\ since' = IF rate = Absent THEN Forgotten({r \in Sockets \ {s} : at[r] = "set"}) ELSE since
  /\ UNCHANGED <<rate, ttl, marked, sent, passed>>

\* The timeout of the counter, the window or the cache's.
RateExpires ==
  /\ rate # Absent /\ ttl # "none"
  /\ rate' = Absent /\ ttl' = "none" /\ passed' = 0
  /\ since' = Forgotten({s \in Sockets : at[s] = "set"})
  /\ UNCHANGED <<at, shut, got, marked, sent>>

\* ONLINE_USER_TTL, longer than the heartbeat interval of a live socket.
MarkerExpires ==
  /\ marked
  /\ \A s \in Sockets : at[s] = "off"
  /\ marked' = FALSE
  /\ UNCHANGED <<rate, ttl, at, shut, got, sent, passed, since>>

RateNext ==
  \/ \E s \in Sockets :
       \/ Opens(s) \/ Heartbeat(s) \/ SendsNowhere(s) \/ Sends(s) \/ Gets(s) \/ Sets(s)
       \/ Leaves(s) \/ Gone(s) \/ Dies(s)
  \/ RateExpires \/ MarkerExpires

\* Handlers end, browsers beat, the socket of a close() ends, timeouts come.
RateFairness ==
  /\ \A s \in Sockets :
       /\ WF_vars(Heartbeat(s)) /\ WF_vars(Gets(s)) /\ WF_vars(Sets(s))
       /\ WF_vars(s \in shut /\ Leaves(s)) /\ WF_vars(Gone(s))
  /\ WF_vars(RateExpires) /\ WF_vars(MarkerExpires)

RateSafety == RateInit /\ [][RateNext]_vars

RateSpec == RateSafety /\ RateFairness
-------------------------------------------------------------------------------
(* No socket is closed for messages that were not sent: the counter, and   *)
(* what a consumer is about to write over it, never exceeds the messages   *)
(* counted since there was neither, however stale the value it builds on   *)
(* and however often the key expired under it.                             *)
CountedWereSent ==
  /\ rate <= since
  /\ \A s \in Sockets : got[s] <= since

(* The limit is coarse by as much as the sockets can lose of each other's  *)
(* increments, and no more: while the counter lives, n sockets get at most *)
(* choose(Limit + n - 1, n) messages through; one socket gets Limit.       *)
LetThrough ==
  LET n == Cardinality(Sockets) IN n # 0 => passed <= choose(Limit + n - 1, n)

(* The counter of a user who stops sending goes: no ban is for ever, not   *)
(* even when the key was written again after it had expired.               *)
LimitLifts == rate # Absent ~> rate = Absent

(* A user with an open socket is seen online again after another socket of *)
(* theirs, closed for its rate or by the user, took the marker away; a     *)
(* user without one is seen offline, also after a server died.             *)
MarkerFollows ==
  /\ \A s \in Sockets :
       at[s] = "idle" /\ s \notin shut ~> marked \/ at[s] \in {"off", "leaving"} \/ s \in shut
  /\ (\A s \in Sockets : at[s] = "off") ~> (~ marked \/ \E s \in Sockets : at[s] # "off")
===============================================================================
