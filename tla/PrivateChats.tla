------------------------------ MODULE PrivateChats ------------------------------
(***************************************************************************)
(* Private chats of ChatConsumer: who is joined to which channel-layer     *)
(* group, what each consumer remembers of its chats, and what Redis keeps  *)
(* to restore them.  A socket is one consumer; it handles one event at a   *)
(* time, so its own state is stable across an await, while Redis and the   *)
(* other consumers move on.  Messages wait in the socket's channel until   *)
(* it is ready for them.  private.chat.participant.online is only passed   *)
(* on to the browser and changes nothing here; chat messages are likewise  *)
(* left out.                                                               *)
(***************************************************************************)
EXTENDS Naturals, Sequences, FiniteSets

CONSTANTS Users,        \* user ids, guests and accounts alike
          Bots,         \* the users that are bots: no socket, always available
          Sockets,      \* websocket connections
          Owner,        \* the user of each socket
          Capped,       \* the users resolve_private_chat_access puts a ceiling on
          Limit,        \* FREE_PRIVATE_CHAT_LIMIT
          NoGroup,      \* no private group
          NoUser,       \* no target
          Capacity      \* events a channel holds; the layer drops what exceeds it

ASSUME ChatsAssumption ==
  /\ Bots \subseteq Users
  /\ Capped \subseteq Users
  /\ Owner \in [Sockets -> Users \ Bots]
  /\ NoUser \notin Users
  /\ NoGroup \notin Users \X Users
  /\ Limit \in Nat
  /\ Capacity \in Nat

VARIABLES
  conn,        \* the stage of each socket's life, or of the handler it runs
  registered,  \* has it joined the notification group of its user?
  chats,       \* consumer.private_chats
  closed,      \* consumer.closed_private_chats
  groups,      \* the private groups it is joined to
  inbox,       \* events waiting in its channel
  asking,      \* the target of the invite its handler is at work on
  stored,      \* the hash of private chats of each user, in Redis
  online       \* the users with a presence marker in Redis

socketVars == <<conn, registered, chats, closed, groups, inbox, asking>>
chatVars == <<socketVars, stored, online>>

Groups == Users \X Users
Rail == [Users -> Groups \cup {NoGroup}]
EmptyRail == [u \in Users |-> NoGroup]
Notice == [type : {"invite", "offline"}, user : Users, group : Groups]

ChatTypeOK ==
  /\ conn \in [Sockets -> {"off", "opening", "idle", "inviting", "joined", "leaving"}]
  /\ registered \in [Sockets -> BOOLEAN]
  /\ chats \in [Sockets -> Rail]
  /\ closed \in [Sockets -> SUBSET Users]
  /\ groups \in [Sockets -> SUBSET Groups]
  /\ inbox \in [Sockets -> Seq(Notice)]
  /\ asking \in [Sockets -> Users \cup {NoUser}]
  /\ \A s \in Sockets : conn[s] \in {"inviting", "joined"} => asking[s] \in Users
  /\ stored \in [Users -> Rail]
  /\ online \in SUBSET Users

ChatInit ==
  /\ conn = [s \in Sockets |-> "off"]
  /\ registered = [s \in Sockets |-> FALSE]
  /\ chats = [s \in Sockets |-> EmptyRail]
  /\ closed = [s \in Sockets |-> {}]
  /\ groups = [s \in Sockets |-> {}]
  /\ inbox = [s \in Sockets |-> <<>>]
  /\ asking = [s \in Sockets |-> NoUser]
  /\ stored = [u \in Users |-> EmptyRail]
  /\ online = {}
-------------------------------------------------------------------------------
\* get_private_group_name: the order of the two users is part of the name.
GroupName(a, b) == <<a, b>>

\* The sockets in the notification group of u.
Listening(u) == {s \in Sockets : Owner[s] = u /\ registered[s]}

Queued(s, notice) ==
  IF Len(inbox[s]) < Capacity THEN Append(inbox[s], notice) ELSE inbox[s]

Notify(receivers, notice) ==
  inbox' = [s \in Sockets |-> IF s \in receivers THEN Queued(s, notice) ELSE inbox[s]]

\* get_open_private_chats
Open(s) == {t \in Users : chats[s][t] # NoGroup /\ t \notin closed[s]}

\* What connect() and invites do with a chat: join, save, remember, reopen.
Keep(s, t, g) ==
  /\ groups' = [groups EXCEPT ![s] = @ \cup {g}]
  /\ stored' = [stored EXCEPT ![Owner[s]][t] = g]
  /\ chats' = [chats EXCEPT ![s][t] = g]
  /\ closed' = [closed EXCEPT ![s] = @ \ {t}]
-------------------------------------------------------------------------------
\* connect(): the socket is accepted and its user marked online.
Opens(s) ==
  /\ conn[s] = "off"
  /\ conn' = [conn EXCEPT ![s] = "opening"]
  /\ online' = online \cup {Owner[s]}
  /\ UNCHANGED <<registered, chats, closed, groups, inbox, asking, stored>>

\* restore_user_private_chat_groups; the nickname of a dropped user has expired.
Restores(s) ==
  /\ conn[s] = "opening"
  /\ \E dropped \in SUBSET {t \in Users : stored[Owner[s]][t] # NoGroup} :
       LET rail == [t \in Users |-> IF t \in dropped THEN NoGroup ELSE stored[Owner[s]][t]]
       IN /\ stored' = [stored EXCEPT ![Owner[s]] = rail]
          /\ chats' = [chats EXCEPT ![s] = rail]
          /\ groups' = [groups EXCEPT ![s] = {rail[t] : t \in Users} \ {NoGroup}]
  /\ conn' = [conn EXCEPT ![s] = "idle"]
  /\ UNCHANGED <<registered, closed, inbox, asking, online>>

\* Mutant: any group may be asked for, as if CLIENT_ALLOWED_GROUPS were not there.
RegistersAny(s) ==
  /\ conn[s] = "idle"
  /\ \E g \in Groups : groups' = [groups EXCEPT ![s] = @ \cup {g}]
  /\ registered' = [registered EXCEPT ![s] = TRUE]
  /\ UNCHANGED <<conn, chats, closed, inbox, asking, stored, online>>

\* handle_register_group for the one group clients may ask for; the browser
\* sends it first thing, private groups are refused.
Registers(s) ==
  /\ conn[s] = "idle"
  /\ registered' = [registered EXCEPT ![s] = TRUE]
  /\ UNCHANGED <<conn, chats, closed, groups, inbox, asking, stored, online>>

\* handle_heartbeat
Heartbeat(s) ==
  /\ conn[s] = "idle"
  /\ online' = online \cup {Owner[s]}
  /\ UNCHANGED <<socketVars, stored>>
-------------------------------------------------------------------------------
InviteGroup(s, t) ==
  IF chats[s][t] # NoGroup THEN chats[s][t] ELSE GroupName(Owner[s], t)

\* handle_private_invite up to the presence check.  Refused requests change nothing.
InviteChecks(s, t) ==
  /\ conn[s] = "idle"
  /\ t # Owner[s]
  /\ t \notin Open(s)
  /\ Owner[s] \in Capped => Cardinality(Open(s)) < Limit
  /\ IF t \in online \cup Bots
     THEN /\ conn' = [conn EXCEPT ![s] = "inviting"]
          /\ asking' = [asking EXCEPT ![s] = t]
          /\ UNCHANGED inbox
     ELSE /\ Notify(Listening(Owner[s]),
                    [type |-> "offline", user |-> t, group |-> InviteGroup(s, t)])
          /\ UNCHANGED <<conn, asking>>
  /\ UNCHANGED <<registered, chats, closed, groups, stored, online>>

\* The chat is kept on this side; a bot is not told.
InviteJoins(s) ==
  /\ conn[s] = "inviting"
  /\ Keep(s, asking[s], InviteGroup(s, asking[s]))
  /\ IF asking[s] \in Bots
     THEN conn' = [conn EXCEPT ![s] = "idle"] /\ asking' = [asking EXCEPT ![s] = NoUser]
     ELSE conn' = [conn EXCEPT ![s] = "joined"] /\ UNCHANGED asking
  /\ UNCHANGED <<registered, inbox, online>>

\* The other user is told.
InviteTells(s) ==
  /\ conn[s] = "joined"
  /\ Notify(Listening(asking[s]),
            [type |-> "invite", user |-> Owner[s], group |-> chats[s][asking[s]]])
  /\ conn' = [conn EXCEPT ![s] = "idle"]
  /\ asking' = [asking EXCEPT ![s] = NoUser]
  /\ UNCHANGED <<registered, chats, closed, groups, stored, online>>

\* Mutant: the hash is left alone.
ClosesHere(s, t) ==
  /\ conn[s] = "idle"
  /\ chats[s][t] # NoGroup
  /\ closed' = [closed EXCEPT ![s] = @ \cup {t}]
  /\ UNCHANGED <<conn, registered, chats, groups, inbox, asking, stored, online>>

\* handle_close_private_chat
Closes(s, t) ==
  /\ conn[s] = "idle"
  /\ chats[s][t] # NoGroup
  /\ closed' = [closed EXCEPT ![s] = @ \cup {t}]
  /\ stored' = [stored EXCEPT ![Owner[s]][t] = NoGroup]
  /\ UNCHANGED <<conn, registered, chats, groups, inbox, asking, online>>
-------------------------------------------------------------------------------
\* Mutants of chat_invite and of when it runs.
InvitedUnjoined(s) ==
  /\ conn[s] = "idle" /\ inbox[s] # <<>> /\ Head(inbox[s]).type = "invite"
  /\ chats' = [chats EXCEPT ![s][Head(inbox[s]).user] = Head(inbox[s]).group]
  /\ stored' = [stored EXCEPT ![Owner[s]][Head(inbox[s]).user] = Head(inbox[s]).group]
  /\ closed' = [closed EXCEPT ![s] = @ \ {Head(inbox[s]).user}]
  /\ inbox' = [inbox EXCEPT ![s] = Tail(@)]
  /\ UNCHANGED <<conn, registered, groups, asking, online>>

InvitedMeanwhile(s) ==
  /\ conn[s] \in {"idle", "inviting"} /\ inbox[s] # <<>> /\ Head(inbox[s]).type = "invite"
  /\ Keep(s, Head(inbox[s]).user, Head(inbox[s]).group)
  /\ inbox' = [inbox EXCEPT ![s] = Tail(@)]
  /\ UNCHANGED <<conn, registered, asking, online>>

\* chat_invite: no ceiling applies to being invited.
Invited(s) ==
  /\ conn[s] = "idle" /\ inbox[s] # <<>> /\ Head(inbox[s]).type = "invite"
  /\ Keep(s, Head(inbox[s]).user, Head(inbox[s]).group)
  /\ inbox' = [inbox EXCEPT ![s] = Tail(@)]
  /\ UNCHANGED <<conn, registered, asking, online>>

\* user_offline: the chat leaves the rail, the group stays joined.
PartnerOffline(s) ==
  /\ conn[s] = "idle" /\ inbox[s] # <<>> /\ Head(inbox[s]).type = "offline"
  /\ chats' = [chats EXCEPT ![s][Head(inbox[s]).user] = NoGroup]
  /\ inbox' = [inbox EXCEPT ![s] = Tail(@)]
  /\ UNCHANGED <<conn, registered, closed, groups, asking, stored, online>>
-------------------------------------------------------------------------------
\* What a socket leaves behind of itself.
Vanishes(s) ==
  /\ registered' = [registered EXCEPT ![s] = FALSE]
  /\ groups' = [groups EXCEPT ![s] = {}]
  /\ asking' = [asking EXCEPT ![s] = NoUser]

\* The sockets told by broadcast_private_chat_user_offline.
OfflineTold(s) == {r \in Sockets : registered[r] /\ chats[s][Owner[r]] # NoGroup}

\* disconnect(), up to the groups: partners in the rail are told, closed or not.
Leaves(s) ==
  /\ conn[s] = "idle"
  /\ conn' = [conn EXCEPT ![s] = "leaving"]
  /\ inbox' = [r \in Sockets |->
                 IF r = s THEN <<>>
                 ELSE IF r \in OfflineTold(s)
                 THEN Queued(r, [type |-> "offline", user |-> Owner[s],
                                 group |-> chats[s][Owner[r]]])
                 ELSE inbox[r]]
  /\ Vanishes(s)
  /\ UNCHANGED <<chats, closed, stored, online>>

\* cleanup_user_presence
Gone(s) ==
  /\ conn[s] = "leaving"
  /\ conn' = [conn EXCEPT ![s] = "off"]
  /\ chats' = [chats EXCEPT ![s] = EmptyRail]
  /\ closed' = [closed EXCEPT ![s] = {}]
  /\ online' = online \ {Owner[s]}
  /\ UNCHANGED <<registered, groups, inbox, asking, stored>>

\* The server process dies: no disconnect() runs.
Dies(s) ==
  /\ conn[s] # "off"
  /\ conn' = [conn EXCEPT ![s] = "off"]
  /\ chats' = [chats EXCEPT ![s] = EmptyRail]
  /\ closed' = [closed EXCEPT ![s] = {}]
  /\ inbox' = [inbox EXCEPT ![s] = <<>>]
  /\ Vanishes(s)
  /\ UNCHANGED <<stored, online>>

\* ONLINE_USER_TTL, longer than the heartbeat interval of a live socket.
MarkerExpires(u) ==
  /\ u \in online
  /\ \A s \in Sockets : Owner[s] = u => conn[s] = "off"
  /\ online' = online \ {u}
  /\ UNCHANGED <<socketVars, stored>>

\* PRIVATE_CHATS_TTL, refreshed by nothing but connect() and new chats.
ChatsExpire(u) ==
  /\ stored[u] # EmptyRail
  /\ stored' = [stored EXCEPT ![u] = EmptyRail]
  /\ UNCHANGED <<socketVars, online>>

ChatNext ==
  \/ \E s \in Sockets :
       \/ Opens(s) \/ Restores(s) \/ Registers(s) \/ Heartbeat(s)
       \/ \E t \in Users : InviteChecks(s, t) \/ Closes(s, t)
       \/ InviteJoins(s) \/ InviteTells(s)
       \/ Invited(s) \/ PartnerOffline(s)
       \/ Leaves(s) \/ Gone(s) \/ Dies(s)
  \/ \E u \in Users : MarkerExpires(u) \/ ChatsExpire(u)

ChatSpec == ChatInit /\ [][ChatNext]_chatVars
-------------------------------------------------------------------------------
Pair(a, b) == {GroupName(a, b), GroupName(b, a)}

(* Nobody but its two participants is ever joined to a private group: no   *)
(* order of invites, reconnects and restored hashes lets a third one in,   *)
(* and no hash, rail or waiting invite names a group of somebody else.     *)
PrivateGroupsArePrivate ==
  /\ \A s \in Sockets : \A g \in groups[s] : Owner[s] \in {g[1], g[2]}
  /\ \A u, t \in Users : stored[u][t] \in Pair(u, t) \cup {NoGroup}
  /\ \A s \in Sockets, t \in Users : chats[s][t] \in Pair(Owner[s], t) \cup {NoGroup}
  /\ \A s \in Sockets : \A i \in DOMAIN inbox[s] :
       inbox[s][i].group \in Pair(Owner[s], inbox[s][i].user)

(* Every chat on the rail of a connected socket is one it is joined to:    *)
(* what the partner says there arrives, even after the chat was closed     *)
(* (handle_close_private_chat keeps the subscription for that).            *)
RailIsJoined ==
  \A s \in Sockets, t \in Users :
    conn[s] # "leaving" /\ chats[s][t] # NoGroup => chats[s][t] \in groups[s]

(* A chat closed on the only socket of a user is not in the hash, so "a    *)
(* reconnect does not silently restore a chat the user closed", and a      *)
(* reopened chat is never left behind as closed.                           *)
ClosedNotStored ==
  \A s \in Sockets : (\A r \in Sockets \ {s} : Owner[r] # Owner[s]) =>
    \A t \in closed[s] : stored[Owner[s]][t] = NoGroup

(* From the ceiling check to the join a capped socket has a free slot:     *)
(* nothing that arrives while the handler waits for Redis takes it.        *)
CeilingAtInvite ==
  \A s \in Sockets :
    conn[s] = "inviting" /\ Owner[s] \in Capped =>
      asking[s] \notin Open(s) /\ Cardinality(Open(s)) < Limit

(* "Reopening a closed chat has to land back in the original group":       *)
(* handle_private_invite never joins a second group of the same two users  *)
(* while both are connected and the socket is still in one.                *)
ReopenKeepsGroup ==
  \A s, r \in Sockets :
    conn[s] = "inviting" /\ asking[s] \in closed[s] /\ Owner[r] = asking[s] /\ conn[r] = "idle" =>
      LET joined == groups[s] \cap Pair(Owner[s], asking[s])
      IN joined # {} => InviteGroup(s, asking[s]) \in joined
===============================================================================
