-------------------------- MODULE PrivateChats_proofs --------------------------
(***************************************************************************)
(* What PrivateChats and PrivateRail guarantee, for any users, sockets,    *)
(* ceiling, channel capacity and frames under way.                         *)
(*                                                                         *)
(* The consumers (ChatSpec).  Beside the properties themselves the         *)
(* induction needs two facts: a consumer starts with nothing (Fresh), and  *)
(* a chat just joined is still on the rail when the partner is told (Kept).*)
(*                                                                         *)
(* The tab (RailSpec).  Its invariant RailIInv adds to that of the         *)
(* consumers what page, consumer and the two streams know of one another:  *)
(* whose names are in the frames (Belonging, Heard), how a page begins     *)
(* (PageBegins), what the user dropped (Dropped) and what is counted       *)
(* (Known).  That nobody writes into the void needs room in the channel    *)
(* (Roomy) and one more invariant, Answered: a row of a chat that was not  *)
(* joined has an answer on its way.                                        *)
(***************************************************************************)
EXTENDS PrivateRail, TLAPS, SequenceTheorems, WellFoundedInduction, FiniteSetTheorems

Fresh ==
  \A s \in Sockets :
    conn[s] \in {"off", "opening"} => chats[s] = EmptyRail /\ closed[s] = {}

Kept == \A s \in Sockets : conn[s] = "joined" => chats[s][asking[s]] # NoGroup

ChatsIInv ==
  /\ ChatTypeOK
  /\ Fresh
  /\ Kept
  /\ PrivateGroupsArePrivate
  /\ RailIsJoined
  /\ ClosedNotStored
  /\ CeilingAtInvite
-------------------------------------------------------------------------------
\* The empty rail, the group of two users and the chat an invite is about.
LEMMA RailFacts ==
  /\ EmptyRail \in Rail
  /\ \A u \in Users : EmptyRail[u] = NoGroup
  /\ \A a, b \in Users : /\ GroupName(a, b) \in Groups
                         /\ Pair(a, b) \subseteq Groups
                         /\ Pair(a, b) = Pair(b, a)
                         /\ NoGroup \notin Pair(a, b)
                         /\ \A g \in Pair(a, b) : g[1] \in {a, b} /\ a \in {g[1], g[2]}
  BY ChatsAssumption DEF EmptyRail, Rail, Groups, GroupName, Pair

\* Owners are users.
LEMMA Owners == ASSUME NEW s \in Sockets PROVE Owner[s] \in Users
  BY ChatsAssumption

\* The group of an invite is a group of the two users.
LEMMA InviteGroupPair ==
  ASSUME ChatTypeOK, PrivateGroupsArePrivate, NEW s \in Sockets, NEW t \in Users
  PROVE  InviteGroup(s, t) \in Pair(Owner[s], t) /\ InviteGroup(s, t) \in Groups
  BY RailFacts, Owners DEF InviteGroup, PrivateGroupsArePrivate, Pair

\* A queued notice is a notice waiting already or the new one.
LEMMA QueuedNotice ==
  ASSUME NEW s \in Sockets, inbox[s] \in Seq(Notice), NEW notice \in Notice
  PROVE  /\ Queued(s, notice) \in Seq(Notice)
         /\ \A i \in DOMAIN Queued(s, notice) :
              \/ Queued(s, notice)[i] = notice
              \/ i \in DOMAIN inbox[s] /\ Queued(s, notice)[i] = inbox[s][i]
  BY DEF Queued

\* What Notify leaves in every channel: what was there, and the notice at most.
LEMMA Notified ==
  ASSUME ChatTypeOK, NEW receivers, NEW notice \in Notice, Notify(receivers, notice)
  PROVE  /\ inbox' \in [Sockets -> Seq(Notice)]
         /\ \A r \in Sockets : \A i \in DOMAIN inbox'[r] :
              \/ r \in receivers /\ inbox'[r][i] = notice
              \/ i \in DOMAIN inbox[r] /\ inbox'[r][i] = inbox[r][i]
  <1>1. ASSUME NEW r \in Sockets
        PROVE /\ inbox'[r] \in Seq(Notice)
              /\ \A i \in DOMAIN inbox'[r] :
                   \/ r \in receivers /\ inbox'[r][i] = notice
                   \/ i \in DOMAIN inbox[r] /\ inbox'[r][i] = inbox[r][i]
    <2>1. inbox[r] \in Seq(Notice)
      BY DEF ChatTypeOK
    <2>2. CASE r \in receivers
      BY <2>1, <2>2, QueuedNotice DEF Notify
    <2>3. CASE r \notin receivers
      BY <2>1, <2>3 DEF Notify
    <2>4. QED BY <2>2, <2>3
  <1>2. QED BY <1>1 DEF Notify

\* The head of a waiting channel, and what is left of it.
LEMMA HeadNotice ==
  ASSUME NEW s \in Sockets, inbox[s] \in Seq(Notice), inbox[s] # <<>>
  PROVE  /\ Head(inbox[s]) \in Notice
         /\ 1 \in DOMAIN inbox[s] /\ Head(inbox[s]) = inbox[s][1]
         /\ Tail(inbox[s]) \in Seq(Notice)
         /\ \A i \in DOMAIN Tail(inbox[s]) :
              i + 1 \in DOMAIN inbox[s] /\ Tail(inbox[s])[i] = inbox[s][i + 1]
  OBVIOUS
-------------------------------------------------------------------------------
\* Init establishes every part of the invariant.
LEMMA ChatsInit == ChatInit => ChatsIInv
  <1> SUFFICES ASSUME ChatInit PROVE ChatsIInv
    OBVIOUS
  <1> USE DEF ChatInit
  <1>1. ChatTypeOK
    BY RailFacts DEF ChatTypeOK
  <1>2. Fresh /\ Kept
    BY DEF Fresh, Kept
  <1>3. PrivateGroupsArePrivate
    BY RailFacts, Owners DEF PrivateGroupsArePrivate
  <1>4. RailIsJoined
    BY RailFacts DEF RailIsJoined
  <1>5. ClosedNotStored
    BY DEF ClosedNotStored
  <1>6. CeilingAtInvite
    BY DEF CeilingAtInvite
  <1>7. QED BY <1>1, <1>2, <1>3, <1>4, <1>5, <1>6 DEF ChatsIInv

\* What an invite sends is a notice.
LEMMA NoticesSent ==
  ASSUME ChatsIInv, NEW s \in Sockets
  PROVE  /\ \A t \in Users :
              [type |-> "offline", user |-> t, group |-> InviteGroup(s, t)] \in Notice
         /\ conn[s] = "joined" =>
              [type |-> "invite", user |-> Owner[s], group |-> chats[s][asking[s]]] \in Notice
         /\ \A t \in Users : chats[s][t] # NoGroup =>
              [type |-> "offline", user |-> Owner[s], group |-> chats[s][t]] \in Notice
  <1> USE DEF ChatsIInv
  <1>1. \A t \in Users : InviteGroup(s, t) \in Groups
    BY InviteGroupPair
  <1>2. \A t \in Users : chats[s][t] # NoGroup => chats[s][t] \in Groups
    BY DEF ChatTypeOK, Rail
  <1>3. conn[s] = "joined" => asking[s] \in Users /\ chats[s][asking[s]] \in Groups
    BY <1>2 DEF ChatTypeOK, Kept
  <1>4. QED BY <1>1, <1>2, <1>3, Owners DEF Notice

\* What a disconnect leaves in every channel.
LEMMA LeavesNotices ==
  ASSUME ChatsIInv, NEW s \in Sockets, Leaves(s)
  PROVE  /\ inbox' \in [Sockets -> Seq(Notice)]
         /\ \A r \in Sockets : \A i \in DOMAIN inbox'[r] :
              \/ /\ chats[s][Owner[r]] # NoGroup
                 /\ inbox'[r][i] = [type |-> "offline", user |-> Owner[s],
                                    group |-> chats[s][Owner[r]]]
              \/ i \in DOMAIN inbox[r] /\ inbox'[r][i] = inbox[r][i]
  <1>1. ASSUME NEW r \in Sockets
        PROVE /\ inbox'[r] \in Seq(Notice)
              /\ \A i \in DOMAIN inbox'[r] :
                   \/ /\ chats[s][Owner[r]] # NoGroup
                      /\ inbox'[r][i] = [type |-> "offline", user |-> Owner[s],
                                         group |-> chats[s][Owner[r]]]
                   \/ i \in DOMAIN inbox[r] /\ inbox'[r][i] = inbox[r][i]
    <2> DEFINE notice == [type |-> "offline", user |-> Owner[s], group |-> chats[s][Owner[r]]]
    <2>1. inbox[r] \in Seq(Notice)
      BY DEF ChatsIInv, ChatTypeOK
    <2>2. CASE r = s
      BY <2>2 DEF Leaves
    <2>3. CASE r # s /\ r \in OfflineTold(s)
      <3>1. inbox'[r] = Queued(r, notice)
        BY <2>3 DEF Leaves
      <3>2. chats[s][Owner[r]] # NoGroup
        BY <2>3 DEF OfflineTold
      <3>3. notice \in Notice
        BY <3>2, NoticesSent, Owners
      <3> HIDE DEF notice
      <3>4. /\ inbox'[r] \in Seq(Notice)
            /\ \A i \in DOMAIN inbox'[r] :
                 \/ inbox'[r][i] = notice
                 \/ i \in DOMAIN inbox[r] /\ inbox'[r][i] = inbox[r][i]
        BY <2>1, <3>1, <3>3, QueuedNotice
      <3>5. QED BY <3>2, <3>4 DEF notice
    <2>4. CASE r # s /\ r \notin OfflineTold(s)
      BY <2>1, <2>4 DEF Leaves
    <2>5. QED BY <2>2, <2>3, <2>4
  <1>2. inbox' = [r \in Sockets |-> inbox'[r]]
    BY DEF Leaves
  <1>3. QED BY <1>1, <1>2

\* Every action keeps the types.
LEMMA ChatsTypesStep ==
  ASSUME ChatsIInv, ChatNext PROVE ChatTypeOK'
  <1> USE DEF ChatsIInv
  <1>1. ASSUME NEW s \in Sockets, Opens(s) PROVE ChatTypeOK'
    BY <1>1, Owners DEF Opens, ChatTypeOK
  <1>2. ASSUME NEW s \in Sockets, Restores(s) PROVE ChatTypeOK'
    <2>1. PICK dropped \in SUBSET {t \in Users : stored[Owner[s]][t] # NoGroup} :
            LET restored == [t \in Users |-> IF t \in dropped THEN NoGroup ELSE stored[Owner[s]][t]]
            IN /\ stored' = [stored EXCEPT ![Owner[s]] = restored]
               /\ chats' = [chats EXCEPT ![s] = restored]
               /\ groups' = [groups EXCEPT ![s] = {restored[t] : t \in Users} \ {NoGroup}]
      BY <1>2 DEF Restores
    <2> DEFINE restored == [t \in Users |-> IF t \in dropped THEN NoGroup ELSE stored[Owner[s]][t]]
    <2>2. restored \in Rail /\ {restored[t] : t \in Users} \ {NoGroup} \subseteq Groups
      BY Owners DEF ChatTypeOK, Rail
    <2> HIDE DEF restored
    <2>3. stored' \in [Users -> Rail] /\ chats' \in [Sockets -> Rail]
          /\ groups' \in [Sockets -> SUBSET Groups]
      BY <2>1, <2>2, Owners DEF ChatTypeOK, restored
    <2>4. QED BY <1>2, <2>3 DEF Restores, ChatTypeOK
  <1>3. ASSUME NEW s \in Sockets, Registers(s) PROVE ChatTypeOK'
    BY <1>3 DEF Registers, ChatTypeOK
  <1>4. ASSUME NEW s \in Sockets, Heartbeat(s) PROVE ChatTypeOK'
    BY <1>4, Owners DEF Heartbeat, socketVars, ChatTypeOK
  <1>5. ASSUME NEW s \in Sockets, NEW t \in Users, InviteChecks(s, t) PROVE ChatTypeOK'
    <2>1. inbox' \in [Sockets -> Seq(Notice)]
      <3>1. CASE t \in online \cup Bots
        BY <1>5, <3>1 DEF InviteChecks, ChatTypeOK
      <3>2. CASE t \notin online \cup Bots
        BY <1>5, <3>2, NoticesSent, Notified DEF InviteChecks
      <3>3. QED BY <3>1, <3>2
    <2>2. QED BY <1>5, <2>1 DEF InviteChecks, ChatTypeOK
  <1>6. ASSUME NEW s \in Sockets, NEW t \in Users, Closes(s, t) PROVE ChatTypeOK'
    BY <1>6, Owners DEF Closes, ChatTypeOK, Rail
  <1>7. ASSUME NEW s \in Sockets, InviteJoins(s) PROVE ChatTypeOK'
    <2>1. asking[s] \in Users
      BY <1>7 DEF InviteJoins, ChatTypeOK
    <2>2. InviteGroup(s, asking[s]) \in Groups
      BY <2>1, InviteGroupPair
    <2>3. QED BY <1>7, <2>1, <2>2, Owners DEF InviteJoins, Keep, ChatTypeOK, Rail
  <1>8. ASSUME NEW s \in Sockets, InviteTells(s) PROVE ChatTypeOK'
    <2>1. inbox' \in [Sockets -> Seq(Notice)]
      BY <1>8, NoticesSent, Notified DEF InviteTells
    <2>2. QED BY <1>8, <2>1 DEF InviteTells, ChatTypeOK
  <1>9. ASSUME NEW s \in Sockets, Invited(s) PROVE ChatTypeOK'
    <2>1. /\ Head(inbox[s]).user \in Users /\ Head(inbox[s]).group \in Groups
          /\ Tail(inbox[s]) \in Seq(Notice)
      BY <1>9, HeadNotice DEF Invited, ChatTypeOK, Notice
    <2>2. QED BY <1>9, <2>1, Owners DEF Invited, Keep, ChatTypeOK, Rail
  <1>10. ASSUME NEW s \in Sockets, PartnerOffline(s) PROVE ChatTypeOK'
    <2>1. Head(inbox[s]).user \in Users /\ Tail(inbox[s]) \in Seq(Notice)
      BY <1>10, HeadNotice DEF PartnerOffline, ChatTypeOK, Notice
    <2>2. QED BY <1>10, <2>1 DEF PartnerOffline, ChatTypeOK, Rail
  <1>11. ASSUME NEW s \in Sockets, Leaves(s) PROVE ChatTypeOK'
    <2>1. inbox' \in [Sockets -> Seq(Notice)]
      BY <1>11, LeavesNotices
    <2>2. QED BY <1>11, <2>1 DEF Leaves, Vanishes, ChatTypeOK
  <1>12. ASSUME NEW s \in Sockets, Gone(s) PROVE ChatTypeOK'
    BY <1>12, RailFacts DEF Gone, ChatTypeOK
  <1>13. ASSUME NEW s \in Sockets, Dies(s) PROVE ChatTypeOK'
    BY <1>13, RailFacts DEF Dies, Vanishes, ChatTypeOK
  <1>14. ASSUME NEW u \in Users, MarkerExpires(u) PROVE ChatTypeOK'
    BY <1>14 DEF MarkerExpires, socketVars, ChatTypeOK
  <1>15. ASSUME NEW u \in Users, ChatsExpire(u) PROVE ChatTypeOK'
    BY <1>15, RailFacts DEF ChatsExpire, socketVars, ChatTypeOK
  <1>16. QED BY <1>1, <1>2, <1>3, <1>4, <1>5, <1>6, <1>7, <1>8, <1>9, <1>10, <1>11,
                <1>12, <1>13, <1>14, <1>15 DEF ChatNext
\* What a restored rail is: the hash without the dropped chats, all joined.
LEMMA Restored ==
  ASSUME ChatTypeOK, NEW s \in Sockets, Restores(s)
  PROVE  /\ stored' \in [Users -> Rail]
         /\ \A u, t \in Users : stored'[u][t] \in {stored[u][t], NoGroup}
         /\ \A t \in Users : /\ chats'[s][t] = stored'[Owner[s]][t]
                             /\ chats'[s][t] # NoGroup => chats'[s][t] \in groups'[s]
         /\ \A g \in groups'[s] : \E t \in Users : g = stored[Owner[s]][t] /\ g # NoGroup
         /\ \A r \in Sockets \ {s} : chats'[r] = chats[r] /\ groups'[r] = groups[r]
  <1>1. PICK dropped \in SUBSET {t \in Users : stored[Owner[s]][t] # NoGroup} :
          LET restored == [t \in Users |-> IF t \in dropped THEN NoGroup ELSE stored[Owner[s]][t]]
          IN /\ stored' = [stored EXCEPT ![Owner[s]] = restored]
             /\ chats' = [chats EXCEPT ![s] = restored]
             /\ groups' = [groups EXCEPT ![s] = {restored[t] : t \in Users} \ {NoGroup}]
    BY DEF Restores
  <1> DEFINE restored == [t \in Users |-> IF t \in dropped THEN NoGroup ELSE stored[Owner[s]][t]]
  <1>2. /\ restored \in Rail
        /\ \A t \in Users : restored[t] \in {stored[Owner[s]][t], NoGroup}
    BY Owners DEF ChatTypeOK, Rail
  <1>3. /\ stored' = [stored EXCEPT ![Owner[s]] = restored]
        /\ chats' = [chats EXCEPT ![s] = restored]
        /\ groups' = [groups EXCEPT ![s] = {restored[t] : t \in Users} \ {NoGroup}]
    BY <1>1
  <1> HIDE DEF restored
  <1>4. stored'[Owner[s]] = restored /\ chats'[s] = restored
        /\ groups'[s] = {restored[t] : t \in Users} \ {NoGroup}
    BY <1>3, Owners DEF ChatTypeOK
  <1>5. stored' \in [Users -> Rail]
    BY <1>2, <1>3, Owners DEF ChatTypeOK
  <1>6. \A u, t \in Users : stored'[u][t] \in {stored[u][t], NoGroup}
    BY <1>2, <1>3, <1>4 DEF ChatTypeOK
  <1>7. \A r \in Sockets \ {s} : chats'[r] = chats[r] /\ groups'[r] = groups[r]
    BY <1>3 DEF ChatTypeOK
  <1>8. QED BY <1>2, <1>4, <1>5, <1>6, <1>7

\* What keeping a chat changes.
LEMMA KeepFields ==
  ASSUME ChatTypeOK, NEW s \in Sockets, NEW t \in Users, NEW g, Keep(s, t, g)
  PROVE  /\ chats'[s][t] = g /\ \A u \in Users \ {t} : chats'[s][u] = chats[s][u]
         /\ groups'[s] = groups[s] \cup {g}
         /\ closed'[s] = closed[s] \ {t}
         /\ \A u, v \in Users :
              stored'[u][v] = IF u = Owner[s] /\ v = t THEN g ELSE stored[u][v]
         /\ \A r \in Sockets \ {s} : /\ chats'[r] = chats[r] /\ groups'[r] = groups[r]
                                     /\ closed'[r] = closed[r]
  BY Owners DEF Keep, ChatTypeOK, Rail

\* An invite being handled is about a user, and its chat is on the rail when told.
LEMMA AskingUser ==
  ASSUME ChatsIInv, NEW s \in Sockets
  PROVE  /\ conn[s] \in {"inviting", "joined"} => asking[s] \in Users
         /\ conn[s] = "joined" =>
              /\ chats[s][asking[s]] # NoGroup
              /\ chats[s][asking[s]] \in Pair(asking[s], Owner[s])
  BY RailFacts, Owners DEF ChatsIInv, ChatTypeOK, Kept, PrivateGroupsArePrivate

\* The event a handler takes from its channel.
LEMMA HeadPair ==
  ASSUME ChatsIInv, NEW s \in Sockets, inbox[s] # <<>>
  PROVE  /\ Head(inbox[s]).user \in Users
         /\ Head(inbox[s]).group \in Pair(Owner[s], Head(inbox[s]).user)
  BY HeadNotice DEF ChatsIInv, ChatTypeOK, PrivateGroupsArePrivate, Notice
-------------------------------------------------------------------------------
\* A consumer starts with nothing.
LEMMA FreshStep ==
  ASSUME ChatsIInv, ChatNext PROVE Fresh'
  <1> USE DEF ChatsIInv, Fresh
  <1>1. ASSUME NEW s \in Sockets, Opens(s) \/ Registers(s) \/ Heartbeat(s) PROVE Fresh'
    BY <1>1 DEF Opens, Registers, Heartbeat, socketVars, ChatTypeOK
  <1>2. ASSUME NEW s \in Sockets, Restores(s) PROVE Fresh'
    BY <1>2, Restored DEF Restores, ChatTypeOK
  <1>3. ASSUME NEW s \in Sockets, NEW t \in Users, InviteChecks(s, t) PROVE Fresh'
    BY <1>3 DEF InviteChecks, ChatTypeOK
  <1>4. ASSUME NEW s \in Sockets, NEW t \in Users, Closes(s, t) PROVE Fresh'
    BY <1>4 DEF Closes, ChatTypeOK
  <1>5. ASSUME NEW s \in Sockets, InviteJoins(s) PROVE Fresh'
    BY <1>5 DEF InviteJoins, Keep, ChatTypeOK
  <1>6. ASSUME NEW s \in Sockets, InviteTells(s) PROVE Fresh'
    BY <1>6 DEF InviteTells, ChatTypeOK
  <1>7. ASSUME NEW s \in Sockets, Invited(s) PROVE Fresh'
    BY <1>7 DEF Invited, Keep, ChatTypeOK
  <1>8. ASSUME NEW s \in Sockets, PartnerOffline(s) PROVE Fresh'
    BY <1>8 DEF PartnerOffline, ChatTypeOK
  <1>9. ASSUME NEW s \in Sockets, Leaves(s) \/ Gone(s) \/ Dies(s) PROVE Fresh'
    BY <1>9 DEF Leaves, Gone, Dies, Vanishes, ChatTypeOK
  <1>10. ASSUME NEW u \in Users, MarkerExpires(u) \/ ChatsExpire(u) PROVE Fresh'
    BY <1>10 DEF MarkerExpires, ChatsExpire, socketVars
  <1>11. QED BY <1>1, <1>2, <1>3, <1>4, <1>5, <1>6, <1>7, <1>8, <1>9, <1>10
             DEF ChatNext

\* A joined chat stays on the rail until the partner is told.
LEMMA KeptStep ==
  ASSUME ChatsIInv, ChatNext PROVE Kept'
  <1> USE DEF ChatsIInv, Kept
  <1>1. ASSUME NEW s \in Sockets, Opens(s) \/ Registers(s) \/ Heartbeat(s) PROVE Kept'
    BY <1>1 DEF Opens, Registers, Heartbeat, socketVars, ChatTypeOK
  <1>2. ASSUME NEW s \in Sockets, Restores(s) PROVE Kept'
    BY <1>2, Restored DEF Restores, ChatTypeOK
  <1>3. ASSUME NEW s \in Sockets, NEW t \in Users, InviteChecks(s, t) PROVE Kept'
    BY <1>3 DEF InviteChecks, ChatTypeOK
  <1>4. ASSUME NEW s \in Sockets, NEW t \in Users, Closes(s, t) PROVE Kept'
    BY <1>4 DEF Closes, ChatTypeOK
  <1>5. ASSUME NEW s \in Sockets, InviteJoins(s) PROVE Kept'
    <2>1. asking[s] \in Users
      BY <1>5, AskingUser DEF InviteJoins
    <2>2. InviteGroup(s, asking[s]) # NoGroup
      BY <2>1, InviteGroupPair, RailFacts, Owners
    <2>3. chats'[s][asking[s]] # NoGroup /\ \A r \in Sockets \ {s} : chats'[r] = chats[r]
      BY <1>5, <2>1, <2>2, KeepFields DEF InviteJoins
    <2>4. /\ \A r \in Sockets \ {s} : conn'[r] = conn[r] /\ asking'[r] = asking[r]
          /\ conn'[s] = "joined" => asking'[s] = asking[s]
      BY <1>5 DEF InviteJoins, ChatTypeOK
    <2>5. QED BY <2>3, <2>4
  <1>6. ASSUME NEW s \in Sockets, InviteTells(s) PROVE Kept'
    BY <1>6 DEF InviteTells, ChatTypeOK
  <1>7. ASSUME NEW s \in Sockets, Invited(s) PROVE Kept'
    BY <1>7 DEF Invited, Keep, ChatTypeOK
  <1>8. ASSUME NEW s \in Sockets, PartnerOffline(s) PROVE Kept'
    BY <1>8 DEF PartnerOffline, ChatTypeOK
  <1>9. ASSUME NEW s \in Sockets, Leaves(s) \/ Gone(s) \/ Dies(s) PROVE Kept'
    BY <1>9 DEF Leaves, Gone, Dies, Vanishes, ChatTypeOK
  <1>10. ASSUME NEW u \in Users, MarkerExpires(u) \/ ChatsExpire(u) PROVE Kept'
    BY <1>10 DEF MarkerExpires, ChatsExpire, socketVars
  <1>11. QED BY <1>1, <1>2, <1>3, <1>4, <1>5, <1>6, <1>7, <1>8, <1>9, <1>10
             DEF ChatNext
-------------------------------------------------------------------------------
\* No action joins, keeps or announces a group of somebody else.
LEMMA PrivateStep ==
  ASSUME ChatsIInv, ChatNext PROVE PrivateGroupsArePrivate'
  <1> DEFINE OwnGroups == \A s \in Sockets : \A g \in groups[s] : Owner[s] \in {g[1], g[2]}
             OwnHash == \A u, t \in Users : stored[u][t] \in Pair(u, t) \cup {NoGroup}
             OwnRail == \A s \in Sockets, t \in Users :
                          chats[s][t] \in Pair(Owner[s], t) \cup {NoGroup}
             OwnNews == \A s \in Sockets : \A i \in DOMAIN inbox[s] :
                          inbox[s][i].group \in Pair(Owner[s], inbox[s][i].user)
  <1>0. OwnGroups /\ OwnHash /\ OwnRail /\ OwnNews
    BY DEF ChatsIInv, PrivateGroupsArePrivate
  <1> SUFFICES OwnGroups' /\ OwnHash' /\ OwnRail' /\ OwnNews'
    BY DEF PrivateGroupsArePrivate
  <1> USE DEF ChatsIInv
  <1>1. ASSUME NEW s \in Sockets, Opens(s) \/ Registers(s) \/ Heartbeat(s)
        PROVE  OwnGroups' /\ OwnHash' /\ OwnRail' /\ OwnNews'
    BY <1>0, <1>1 DEF Opens, Registers, Heartbeat, socketVars
  <1>2. ASSUME NEW s \in Sockets, Restores(s)
        PROVE  OwnGroups' /\ OwnHash' /\ OwnRail' /\ OwnNews'
    <2>1. OwnHash'
      BY <1>0, <1>2, Restored
    <2>2. OwnRail'
      BY <1>0, <1>2, <2>1, Restored, Owners
    <2>3. \A g \in groups'[s] : Owner[s] \in {g[1], g[2]}
      BY <1>0, <1>2, Restored, RailFacts, Owners
    <2>4. OwnGroups'
      BY <1>0, <1>2, <2>3, Restored
    <2>5. QED BY <1>0, <1>2, <2>1, <2>2, <2>4 DEF Restores
  <1>3. ASSUME NEW s \in Sockets, NEW t \in Users, InviteChecks(s, t)
        PROVE  OwnGroups' /\ OwnHash' /\ OwnRail' /\ OwnNews'
    <2>1. OwnGroups' /\ OwnHash' /\ OwnRail'
      BY <1>0, <1>3 DEF InviteChecks
    <2>2. CASE t \in online \cup Bots
      BY <1>0, <1>3, <2>1, <2>2 DEF InviteChecks
    <2>3. CASE t \notin online \cup Bots
      <3> DEFINE notice == [type |-> "offline", user |-> t, group |-> InviteGroup(s, t)]
      <3>1. notice \in Notice /\ Notify(Listening(Owner[s]), notice)
        BY <1>3, <2>3, NoticesSent DEF InviteChecks
      <3>2. notice.group \in Pair(Owner[s], notice.user)
        BY InviteGroupPair
      <3> HIDE DEF notice
      <3>3. ASSUME NEW r \in Sockets, NEW i \in DOMAIN inbox'[r]
            PROVE  inbox'[r][i].group \in Pair(Owner[r], inbox'[r][i].user)
        BY <1>0, <3>1, <3>2, Notified DEF Listening
      <3>4. QED BY <2>1, <3>3
    <2>4. QED BY <2>2, <2>3
  <1>4. ASSUME NEW s \in Sockets, NEW t \in Users, Closes(s, t)
        PROVE  OwnGroups' /\ OwnHash' /\ OwnRail' /\ OwnNews'
    BY <1>0, <1>4, Owners DEF Closes, ChatTypeOK, Rail
  <1>5. ASSUME NEW s \in Sockets, NEW t \in Users, NEW g \in Pair(Owner[s], t), Keep(s, t, g)
        PROVE  OwnGroups' /\ OwnHash' /\ OwnRail'
    BY <1>0, <1>5, KeepFields, RailFacts, Owners
  <1>6. ASSUME NEW s \in Sockets, InviteJoins(s)
        PROVE  OwnGroups' /\ OwnHash' /\ OwnRail' /\ OwnNews'
    <2>1. asking[s] \in Users
      BY <1>6, AskingUser DEF InviteJoins
    <2>2. InviteGroup(s, asking[s]) \in Pair(Owner[s], asking[s])
      BY <2>1, InviteGroupPair
    <2>3. OwnGroups' /\ OwnHash' /\ OwnRail'
      BY <1>5, <1>6, <2>1, <2>2 DEF InviteJoins
    <2>4. QED BY <1>0, <1>6, <2>3 DEF InviteJoins
  <1>7. ASSUME NEW s \in Sockets, InviteTells(s)
        PROVE  OwnGroups' /\ OwnHash' /\ OwnRail' /\ OwnNews'
    <2> DEFINE notice == [type |-> "invite", user |-> Owner[s], group |-> chats[s][asking[s]]]
    <2>1. notice \in Notice /\ Notify(Listening(asking[s]), notice)
      BY <1>7, NoticesSent DEF InviteTells
    <2>2. notice.group \in Pair(asking[s], notice.user)
      BY <1>7, AskingUser DEF InviteTells
    <2> HIDE DEF notice
    <2>3. ASSUME NEW r \in Sockets, NEW i \in DOMAIN inbox'[r]
          PROVE  inbox'[r][i].group \in Pair(Owner[r], inbox'[r][i].user)
      BY <1>0, <2>1, <2>2, Notified DEF Listening
    <2>4. QED BY <1>0, <1>7, <2>3 DEF InviteTells
  <1>8. ASSUME NEW s \in Sockets, Invited(s) \/ PartnerOffline(s)
        PROVE  OwnNews'
    <2>1. inbox[s] # <<>> /\ inbox' = [inbox EXCEPT ![s] = Tail(@)]
      BY <1>8 DEF Invited, PartnerOffline
    <2>2. inbox[s] \in Seq(Notice) /\ inbox'[s] = Tail(inbox[s])
      BY <2>1 DEF ChatTypeOK
    <2>3. \A i \in DOMAIN inbox'[s] :
            inbox'[s][i].group \in Pair(Owner[s], inbox'[s][i].user)
      BY <1>0, <2>1, <2>2, HeadNotice
    <2>4. \A r \in Sockets \ {s} : inbox'[r] = inbox[r]
      BY <2>1 DEF ChatTypeOK
    <2>5. QED BY <1>0, <2>3, <2>4
  <1>9. ASSUME NEW s \in Sockets, Invited(s)
        PROVE  OwnGroups' /\ OwnHash' /\ OwnRail' /\ OwnNews'
    <2>1. OwnGroups' /\ OwnHash' /\ OwnRail'
      BY <1>5, <1>9, HeadPair DEF Invited
    <2>2. QED BY <1>8, <1>9, <2>1
  <1>10. ASSUME NEW s \in Sockets, PartnerOffline(s)
         PROVE  OwnGroups' /\ OwnHash' /\ OwnRail' /\ OwnNews'
    <2>1. OwnGroups' /\ OwnHash' /\ OwnRail'
      BY <1>0, <1>10 DEF PartnerOffline, ChatTypeOK, Rail
    <2>2. QED BY <1>8, <1>10, <2>1
  <1>11. ASSUME NEW s \in Sockets, Leaves(s)
         PROVE  OwnGroups' /\ OwnHash' /\ OwnRail' /\ OwnNews'
    <2>1. OwnGroups' /\ OwnHash' /\ OwnRail'
      BY <1>0, <1>11 DEF Leaves, Vanishes, ChatTypeOK
    <2>2. ASSUME NEW r \in Sockets, NEW i \in DOMAIN inbox'[r]
          PROVE  inbox'[r][i].group \in Pair(Owner[r], inbox'[r][i].user)
      <3>1. CASE i \in DOMAIN inbox[r] /\ inbox'[r][i] = inbox[r][i]
        BY <1>0, <3>1
      <3>2. CASE /\ chats[s][Owner[r]] # NoGroup
                 /\ inbox'[r][i] = [type |-> "offline", user |-> Owner[s],
                                    group |-> chats[s][Owner[r]]]
        <4>1. chats[s][Owner[r]] \in Pair(Owner[r], Owner[s])
          BY <1>0, <3>2, RailFacts, Owners
        <4>2. QED BY <3>2, <4>1
      <3>3. QED BY <1>11, <3>1, <3>2, LeavesNotices
    <2>3. QED BY <2>1, <2>2
  <1>12. ASSUME NEW s \in Sockets, Gone(s) \/ Dies(s)
         PROVE  OwnGroups' /\ OwnHash' /\ OwnRail' /\ OwnNews'
    <2>1. \A r \in Sockets : /\ chats'[r] \in {chats[r], EmptyRail}
                             /\ groups'[r] \in {groups[r], {}}
                             /\ inbox'[r] \in {inbox[r], <<>>}
      BY <1>12 DEF Gone, Dies, Vanishes, ChatTypeOK
    <2>2. OwnGroups' /\ OwnNews'
      BY <1>0, <2>1
    <2>3. OwnHash'
      BY <1>0, <1>12 DEF Gone, Dies
    <2>4. OwnRail'
      BY <1>0, <2>1, RailFacts
    <2>5. QED BY <2>2, <2>3, <2>4
  <1>13. ASSUME NEW u \in Users, MarkerExpires(u) \/ ChatsExpire(u)
         PROVE  OwnGroups' /\ OwnHash' /\ OwnRail' /\ OwnNews'
    BY <1>0, <1>13, RailFacts DEF MarkerExpires, ChatsExpire, socketVars, ChatTypeOK
  <1>14. QED BY <1>1, <1>2, <1>3, <1>4, <1>6, <1>7, <1>9, <1>10, <1>11, <1>12, <1>13
             DEF ChatNext
-------------------------------------------------------------------------------
\* What is put on the rail is joined, and only a leaving socket drops its groups.
LEMMA RailStep ==
  ASSUME ChatsIInv, ChatNext PROVE RailIsJoined'
  <1> USE DEF ChatsIInv, RailIsJoined
  <1>1. ASSUME NEW s \in Sockets, Opens(s) PROVE RailIsJoined'
    BY <1>1, RailFacts DEF Opens, Fresh, ChatTypeOK
  <1>2. ASSUME NEW s \in Sockets, Restores(s) PROVE RailIsJoined'
    <2>1. \A t \in Users : chats'[s][t] # NoGroup => chats'[s][t] \in groups'[s]
      BY <1>2, Restored
    <2>2. \A r \in Sockets \ {s} : /\ chats'[r] = chats[r] /\ groups'[r] = groups[r]
                                   /\ conn'[r] = conn[r]
      BY <1>2, Restored DEF Restores, ChatTypeOK
    <2>3. QED BY <2>1, <2>2
  <1>3. ASSUME NEW s \in Sockets, Registers(s) \/ Heartbeat(s) PROVE RailIsJoined'
    BY <1>3 DEF Registers, Heartbeat, socketVars
  <1>4. ASSUME NEW s \in Sockets, NEW t \in Users, InviteChecks(s, t) PROVE RailIsJoined'
    BY <1>4 DEF InviteChecks, ChatTypeOK
  <1>5. ASSUME NEW s \in Sockets, NEW t \in Users, Closes(s, t) PROVE RailIsJoined'
    BY <1>5 DEF Closes
  <1>6. ASSUME NEW s \in Sockets, NEW t \in Users, NEW g, Keep(s, t, g), conn[s] # "leaving",
               \A r \in Sockets \ {s} : conn'[r] = conn[r]
        PROVE  RailIsJoined'
    <2>1. \A u \in Users : chats'[s][u] # NoGroup => chats'[s][u] \in groups'[s]
      BY <1>6, KeepFields
    <2>2. \A r \in Sockets \ {s} : chats'[r] = chats[r] /\ groups'[r] = groups[r]
      BY <1>6, KeepFields
    <2>3. QED BY <1>6, <2>1, <2>2
  <1>7. ASSUME NEW s \in Sockets, InviteJoins(s) PROVE RailIsJoined'
    <2>1. asking[s] \in Users
      BY <1>7, AskingUser DEF InviteJoins
    <2>2. conn[s] # "leaving" /\ \A r \in Sockets \ {s} : conn'[r] = conn[r]
      BY <1>7 DEF InviteJoins, ChatTypeOK
    <2>3. QED BY <1>6, <1>7, <2>1, <2>2 DEF InviteJoins
  <1>8. ASSUME NEW s \in Sockets, InviteTells(s) PROVE RailIsJoined'
    BY <1>8 DEF InviteTells, ChatTypeOK
  <1>9. ASSUME NEW s \in Sockets, Invited(s) PROVE RailIsJoined'
    BY <1>6, <1>9, HeadPair DEF Invited
  <1>10. ASSUME NEW s \in Sockets, PartnerOffline(s) PROVE RailIsJoined'
    BY <1>10 DEF PartnerOffline, ChatTypeOK, Rail
  <1>11. ASSUME NEW s \in Sockets, Leaves(s) PROVE RailIsJoined'
    BY <1>11 DEF Leaves, Vanishes, ChatTypeOK
  <1>12. ASSUME NEW s \in Sockets, Gone(s) PROVE RailIsJoined'
    BY <1>12, RailFacts DEF Gone, ChatTypeOK
  <1>13. ASSUME NEW s \in Sockets, Dies(s) PROVE RailIsJoined'
    BY <1>13, RailFacts DEF Dies, Vanishes, ChatTypeOK
  <1>14. ASSUME NEW u \in Users, MarkerExpires(u) \/ ChatsExpire(u) PROVE RailIsJoined'
    BY <1>14 DEF MarkerExpires, ChatsExpire, socketVars
  <1>15. QED BY <1>1, <1>2, <1>3, <1>4, <1>5, <1>7, <1>8, <1>9, <1>10, <1>11, <1>12,
                <1>13, <1>14 DEF ChatNext
-------------------------------------------------------------------------------
\* s is the only socket of its user.
Alone(s) == \A r \in Sockets \ {s} : Owner[r] # Owner[s]

\* Closing takes a chat out of the hash; whatever puts it back also reopens it.
LEMMA ClosedStep ==
  ASSUME ChatsIInv, ChatNext PROVE ClosedNotStored'
  <1>t. \A q \in Sockets : closed'[q] \subseteq Users
    BY ChatsTypesStep DEF ChatTypeOK
  <1> SUFFICES ASSUME NEW q \in Sockets, Alone(q), NEW v \in Users, v \in closed'[q]
               PROVE  stored'[Owner[q]][v] = NoGroup
    BY <1>t DEF ClosedNotStored, Alone
  <1> USE DEF ChatsIInv
  <1>0. v \in closed[q] => stored[Owner[q]][v] = NoGroup
    BY DEF ClosedNotStored, Alone
  <1>1. ASSUME NEW s \in Sockets, Opens(s) \/ Registers(s) \/ Heartbeat(s)
        PROVE  stored'[Owner[q]][v] = NoGroup
    BY <1>0, <1>1 DEF Opens, Registers, Heartbeat, socketVars
  <1>2. ASSUME NEW s \in Sockets, Restores(s) PROVE stored'[Owner[q]][v] = NoGroup
    <2>1. stored'[Owner[q]][v] \in {stored[Owner[q]][v], NoGroup}
      BY <1>2, Restored, Owners
    <2>2. QED BY <1>0, <1>2, <2>1 DEF Restores
  <1>3. ASSUME NEW s \in Sockets, NEW t \in Users, InviteChecks(s, t)
        PROVE  stored'[Owner[q]][v] = NoGroup
    BY <1>0, <1>3 DEF InviteChecks
  <1>4. ASSUME NEW s \in Sockets, NEW t \in Users, Closes(s, t)
        PROVE  stored'[Owner[q]][v] = NoGroup
    BY <1>0, <1>4, Owners DEF Closes, ChatTypeOK, Rail
  <1>5. ASSUME NEW s \in Sockets, NEW t \in Users, NEW g, Keep(s, t, g)
        PROVE  stored'[Owner[q]][v] = NoGroup
    <2>1. CASE s = q
      <3>1. v # t /\ v \in closed[q]
        BY <1>5, <2>1, KeepFields
      <3>2. QED BY <1>0, <1>5, <3>1, KeepFields, Owners
    <2>2. CASE s # q
      <3>1. Owner[s] # Owner[q] /\ v \in closed[q]
        BY <1>5, <2>2, KeepFields DEF Alone
      <3>2. QED BY <1>0, <1>5, <3>1, KeepFields, Owners
    <2>3. QED BY <2>1, <2>2
  <1>6. ASSUME NEW s \in Sockets, InviteJoins(s) PROVE stored'[Owner[q]][v] = NoGroup
    BY <1>5, <1>6, AskingUser DEF InviteJoins
  <1>7. ASSUME NEW s \in Sockets, InviteTells(s) PROVE stored'[Owner[q]][v] = NoGroup
    BY <1>0, <1>7 DEF InviteTells
  <1>8. ASSUME NEW s \in Sockets, Invited(s) PROVE stored'[Owner[q]][v] = NoGroup
    BY <1>5, <1>8, HeadPair DEF Invited
  <1>9. ASSUME NEW s \in Sockets, PartnerOffline(s) \/ Leaves(s)
        PROVE  stored'[Owner[q]][v] = NoGroup
    BY <1>0, <1>9 DEF PartnerOffline, Leaves
  <1>10. ASSUME NEW s \in Sockets, Gone(s) \/ Dies(s) PROVE stored'[Owner[q]][v] = NoGroup
    BY <1>0, <1>10 DEF Gone, Dies, Vanishes, ChatTypeOK
  <1>11. ASSUME NEW u \in Users, MarkerExpires(u) PROVE stored'[Owner[q]][v] = NoGroup
    BY <1>0, <1>11 DEF MarkerExpires, socketVars
  <1>12. ASSUME NEW u \in Users, ChatsExpire(u) PROVE stored'[Owner[q]][v] = NoGroup
    BY <1>0, <1>12, RailFacts, Owners DEF ChatsExpire, socketVars, ChatTypeOK
  <1>13. QED BY <1>1, <1>2, <1>3, <1>4, <1>6, <1>7, <1>8, <1>9, <1>10, <1>11, <1>12
             DEF ChatNext
-------------------------------------------------------------------------------
\* The open chats of a socket whose rail and closed chats stand still.
LEMMA SameOpen ==
  ASSUME NEW s \in Sockets, chats'[s] = chats[s], closed'[s] = closed[s]
  PROVE  Open(s)' = Open(s)
  BY DEF Open

\* While an invite waits for its check, nothing of its socket moves.
LEMMA CeilingStep ==
  ASSUME ChatsIInv, ChatNext PROVE CeilingAtInvite'
  <1> SUFFICES ASSUME NEW q \in Sockets, conn'[q] = "inviting", Owner[q] \in Capped
               PROVE  asking'[q] \notin Open(q)' /\ Cardinality(Open(q)') < Limit
    BY DEF CeilingAtInvite
  <1> USE DEF ChatsIInv
  <1>0. CASE /\ conn[q] = "inviting" /\ asking'[q] = asking[q]
             /\ chats'[q] = chats[q] /\ closed'[q] = closed[q]
    BY <1>0, SameOpen DEF CeilingAtInvite
  <1> DEFINE Still == /\ conn[q] = "inviting" /\ asking'[q] = asking[q]
                      /\ chats'[q] = chats[q] /\ closed'[q] = closed[q]
  <1>1. ASSUME NEW s \in Sockets, Opens(s) \/ Registers(s) \/ Heartbeat(s) PROVE Still
    BY <1>1 DEF Opens, Registers, Heartbeat, socketVars, ChatTypeOK
  <1>2. ASSUME NEW s \in Sockets, Restores(s) PROVE Still
    BY <1>2, Restored DEF Restores, ChatTypeOK
  <1>3. ASSUME NEW s \in Sockets, NEW t \in Users, InviteChecks(s, t)
        PROVE  asking'[q] \notin Open(q)' /\ Cardinality(Open(q)') < Limit
    <2>1. chats'[q] = chats[q] /\ closed'[q] = closed[q]
      BY <1>3 DEF InviteChecks
    <2>2. CASE q = s
      <3>1. asking'[q] = t
        BY <1>3, <2>2 DEF InviteChecks, ChatTypeOK
      <3>2. t \notin Open(q) /\ Cardinality(Open(q)) < Limit
        BY <1>3, <2>2 DEF InviteChecks
      <3>3. QED BY <2>1, <3>1, <3>2, SameOpen
    <2>3. CASE q # s
      <3>1. Still
        BY <1>3, <2>1, <2>3 DEF InviteChecks, ChatTypeOK
      <3>2. QED BY <1>0, <3>1
    <2>4. QED BY <2>2, <2>3
  <1>4. ASSUME NEW s \in Sockets, NEW t \in Users, Closes(s, t) PROVE Still
    BY <1>4 DEF Closes, ChatTypeOK
  <1>5. ASSUME NEW s \in Sockets, InviteJoins(s) PROVE Still
    BY <1>5 DEF InviteJoins, Keep, ChatTypeOK
  <1>6. ASSUME NEW s \in Sockets, InviteTells(s) PROVE Still
    BY <1>6 DEF InviteTells, ChatTypeOK
  <1>7. ASSUME NEW s \in Sockets, Invited(s) PROVE Still
    BY <1>7 DEF Invited, Keep, ChatTypeOK
  <1>8. ASSUME NEW s \in Sockets, PartnerOffline(s) PROVE Still
    BY <1>8 DEF PartnerOffline, ChatTypeOK
  <1>9. ASSUME NEW s \in Sockets, Leaves(s) \/ Gone(s) \/ Dies(s) PROVE Still
    BY <1>9 DEF Leaves, Gone, Dies, Vanishes, ChatTypeOK
  <1>10. ASSUME NEW u \in Users, MarkerExpires(u) \/ ChatsExpire(u) PROVE Still
    BY <1>10 DEF MarkerExpires, ChatsExpire, socketVars
  <1>11. QED BY <1>0, <1>1, <1>2, <1>3, <1>4, <1>5, <1>6, <1>7, <1>8, <1>9, <1>10
             DEF ChatNext
-------------------------------------------------------------------------------
\* A step that touches none of the variables keeps the invariant.
LEMMA ChatsStutter == ASSUME ChatsIInv, UNCHANGED chatVars PROVE ChatsIInv'
  <1> USE DEF ChatsIInv, chatVars, socketVars
  <1>1. ChatTypeOK'
    BY DEF ChatTypeOK
  <1>2. Fresh' /\ Kept' /\ RailIsJoined' /\ ClosedNotStored'
    BY DEF Fresh, Kept, RailIsJoined, ClosedNotStored
  <1>3. PrivateGroupsArePrivate'
    BY DEF PrivateGroupsArePrivate
  <1>4. CeilingAtInvite'
    BY SameOpen DEF CeilingAtInvite
  <1>5. QED BY <1>1, <1>2, <1>3, <1>4

(* The inductive invariant of the private chats holds for any users,       *)
(* sockets, ceiling and capacity of ChatConsumer's channels.               *)
THEOREM ChatsInvariant == ChatSpec => []ChatsIInv
  <1>1. ChatInit => ChatsIInv
    BY ChatsInit
  <1>2. ChatsIInv /\ [ChatNext]_chatVars => ChatsIInv'
    <2> SUFFICES ASSUME ChatsIInv, [ChatNext]_chatVars PROVE ChatsIInv'
      OBVIOUS
    <2>1. CASE ChatNext
      BY <2>1, ChatsTypesStep, FreshStep, KeptStep, PrivateStep, RailStep, ClosedStep,
         CeilingStep DEF ChatsIInv
    <2>2. CASE UNCHANGED chatVars
      BY <2>2, ChatsStutter
    <2>3. QED BY <2>1, <2>2
  <1>3. QED BY <1>1, <1>2, PTL DEF ChatSpec

\* Every variable of the private chats keeps its type.
THEOREM ChatTypes == ChatSpec => []ChatTypeOK
  <1>1. ChatsIInv => ChatTypeOK
    BY DEF ChatsIInv
  <1>2. QED BY <1>1, ChatsInvariant, PTL

(* Only the two participants of a private chat are ever joined to its      *)
(* group: connect, chat_invite and handle_private_invite never join, keep  *)
(* or announce the group of anybody else.                                  *)
THEOREM PrivateGroupsStayPrivate == ChatSpec => []PrivateGroupsArePrivate
  <1>1. ChatsIInv => PrivateGroupsArePrivate
    BY DEF ChatsIInv
  <1>2. QED BY <1>1, ChatsInvariant, PTL

\* A connected socket is joined to the group of every chat in private_chats.
THEOREM RailStaysJoined == ChatSpec => []RailIsJoined
  <1>1. ChatsIInv => RailIsJoined
    BY DEF ChatsIInv
  <1>2. QED BY <1>1, ChatsInvariant, PTL

\* What handle_close_private_chat closes is not restored by a reconnect.
THEOREM ClosedIsNotRestored == ChatSpec => []ClosedNotStored
  <1>1. ChatsIInv => ClosedNotStored
    BY DEF ChatsIInv
  <1>2. QED BY <1>1, ChatsInvariant, PTL

\* The ceiling handle_private_invite checked still has room when it joins.
THEOREM CeilingHolds == ChatSpec => []CeilingAtInvite
  <1>1. ChatsIInv => CeilingAtInvite
    BY DEF ChatsIInv
  <1>2. QED BY <1>1, ChatsInvariant, PTL
-------------------------------------------------------------------------------
(* The tab: page, consumer and the frames between them.                    *)

\* The consumer hears what is said between the two users.
Joined(u) == groups[Tab] \cap Ours(u) # {}

\* A frame of the user that is still on its way to the consumer.
Asked(type, u) == [type |-> type, user |-> u]

InviteWaits(u) == Asked("invite", u) \in Range(toServer)
CloseWaits(u) == Asked("close", u) \in Range(toServer)

\* The last word of the user about u, of those under way, is to open the chat.
Requested(u) ==
  \E i \in DOMAIN toServer :
    /\ toServer[i] = Asked("invite", u)
    /\ \A j \in DOMAIN toServer : j > i => toServer[j] # Asked("close", u)

\* A group of the two users, and a rail of such groups.
Chatted(u, g) == u \in Partners /\ g \in Ours(u)
Own(r) == \A u \in Users : r[u] # NoGroup => Chatted(u, r[u])

\* Whatever names a group names one of the user and the partner it is about.
Belonging ==
  /\ \A i \in DOMAIN rail : Chatted(rail[i].user, rail[i].group)
  /\ Own(mapping)
  /\ chats[Tab][me] = NoGroup /\ stored[me][me] = NoGroup
  /\ \A n \in Range(inbox[Tab]) : n.user \in Partners
  /\ \A q \in Range(toServer) : q.type # "register" => q.user \in Partners
  /\ IF conn[Tab] \in {"inviting", "joined"} THEN asking[Tab] \in Partners ELSE asking[Tab] = NoUser
  /\ \A f \in Range(toBrowser) :
       IF f.type = "restored" THEN Own(f.chats)
       ELSE f.user \in Partners /\ (f.type # "denied" => Chatted(f.user, f.group))

\* Frames about a chat come from groups the consumer is in.
Heard ==
  Up => \A f \in Range(toBrowser) :
    /\ f.type \in {"invite", "online", "message"} => f.group \in groups[Tab]
    /\ f.type = "restored" => \A u \in Users : f.chats[u] # NoGroup => f.chats[u] \in groups[Tab]

\* A page before its user can have done anything.
Blank ==
  /\ rail = <<>> /\ mapping = EmptyRail /\ crossed = {}
  /\ \A q \in Range(toServer) : q.type = "register"

\* The frame of the restored rail is on its way, before any other.
Restoring == \E f \in Range(toBrowser) : f.type = "restored"
RestoredFirst == \A i \in DOMAIN toBrowser : toBrowser[i].type = "restored" => i = 1

\* A page has nothing before it is up, nor until its rail has been restored.
PageBegins ==
  /\ ~ Up => Blank /\ toServer = <<>> /\ toBrowser = <<>> /\ silent = {}
  /\ conn[Tab] \in {"off", "opening", "leaving"} => ~ registered[Tab]
  /\ conn[Tab] = "opening" => Blank /\ toBrowser = <<>>
  /\ RestoredFirst
  /\ Restoring => Blank /\ conn[Tab] = "idle"
  /\ \A f \in Range(toBrowser) : f.type = "invite" => f.user \in silent
  /\ \A u \in Partners : InviteWaits(u) => registered[Tab]

\* A chat the user dropped is out of the hash, or will be.
Dropped ==
  \A u \in dismissed :
    /\ ~ Shows(u)
    /\ stored[me][u] # NoGroup => CloseWaits(u)
    /\ conn[Tab] = "inviting" /\ asking[Tab] = u => CloseWaits(u)
    /\ ~ Requested(u)
    /\ \A f \in Range(toBrowser) : f.type = "restored" => f.chats[u] = NoGroup

\* The consumer counts the chat with u, or will, for all the user has said.
Counting(u) == Requested(u) \/ (~ CloseWaits(u) /\ (u \in Open(Tab) \/ asking[Tab] = u))

\* The frame f tells the page of the chat with u.
Arriving(u, f) ==
  \/ f.type = "restored" /\ f.chats[u] # NoGroup
  \/ f.type = "invite" /\ f.user = u

\* What is counted the page has, or is told of.
Known ==
  Up => \A u \in Users \ crossed :
    Counting(u) => \/ mapping[u] # NoGroup /\ (Shows(u) \/ u \in silent)
                   \/ \E f \in Range(toBrowser) : Arriving(u, f)

\* The invariant of the page, and that of the tab.
PageIInv ==
  /\ RailTypeOK
  /\ Belonging
  /\ Heard
  /\ PageBegins
  /\ Dropped
  /\ Known

RailIInv == ChatsIInv /\ PageIInv

\* The frame or notice f answers a request to chat with u that was not granted.
Refused(u, f) ==
  \/ f.type = "denied" /\ f.user = u
  \/ f.type = "offline" /\ f.group = GroupName(me, u)

\* A request to chat with u, or what answers it, is under way.
Due(u) ==
  \/ InviteWaits(u)
  \/ conn[Tab] = "inviting" /\ asking[Tab] = u
  \/ \E f \in Range(toBrowser) \cup Range(inbox[Tab]) : Refused(u, f)

\* At most one row, and none, is of u.
OneRow(rows, u) == \A i, j \in DOMAIN rows : rows[i].user = u /\ rows[j].user = u => i = j
NoRow(rows, u) == \A i \in DOMAIN rows : rows[i].user # u

\* A chat with u the consumer has not joined is a request of the page's own: one
\* row, under the name the page gave it, and writable only until the answer.
AnsweredFor(u) ==
  ~ Joined(u) =>
    /\ mapping[u] \in {NoGroup, GroupName(me, u)}
    /\ OneRow(rail, u)
    /\ \A i \in DOMAIN rail : rail[i].user = u =>
         rail[i].group = GroupName(me, u) /\ mapping[u] # NoGroup /\ (rail[i].live => Due(u))

Answered == Up => \A u \in Partners : AnsweredFor(u)

\* The layer drops nothing of the tab's.
Roomy == Len(inbox[Tab]) < Capacity

\* The elements of a sequence that grew, shrank or lost an element.
LEMMA SeqFacts ==
  ASSUME NEW T, NEW s \in Seq(T)
  PROVE  /\ DOMAIN s = 1 .. Len(s) /\ Len(s) \in Nat
         /\ \A i \in DOMAIN s : s[i] \in T
         /\ \A e \in T : /\ Append(s, e) \in Seq(T) /\ DOMAIN Append(s, e) = 1 .. Len(s) + 1
                         /\ \A i \in DOMAIN s : Append(s, e)[i] = s[i]
                         /\ Append(s, e)[Len(s) + 1] = e
         /\ s # <<>> => /\ Tail(s) \in Seq(T) /\ DOMAIN Tail(s) = 1 .. Len(s) - 1
                        /\ \A i \in DOMAIN Tail(s) : Tail(s)[i] = s[i + 1]
                        /\ Head(s) = s[1] /\ 1 \in DOMAIN s /\ Head(s) \in T
OBVIOUS

\* What is left when one element goes, and what of it was where.
LEMMA RemoveFacts ==
  ASSUME NEW T, NEW s \in Seq(T), NEW i \in DOMAIN s
  PROVE  /\ RemoveAt(s, i) \in Seq(T) /\ DOMAIN RemoveAt(s, i) = 1 .. Len(s) - 1
         /\ \A k \in 1 .. Len(s) - 1 : RemoveAt(s, i)[k] = s[IF k < i THEN k ELSE k + 1]
<1> DEFINE a == SubSeq(s, 1, i - 1)
           b == SubSeq(s, i + 1, Len(s))
<1>0. i \in 1 .. Len(s) /\ Len(s) \in Nat /\ \A k \in 1 .. Len(s) : s[k] \in T
  OBVIOUS
<1>1. a \in Seq(T) /\ Len(a) = i - 1 /\ \A k \in 1 .. i - 1 : a[k] = s[k]
  <2>1. \A k \in 1 .. i - 1 : s[k] \in T
    BY <1>0
  <2>2. /\ a \in Seq(T)
        /\ Len(a) = IF 1 <= i - 1 THEN i - 1 - 1 + 1 ELSE 0
        /\ \A k \in 1 .. i - 1 - 1 + 1 : a[k] = s[1 + k - 1]
    <3> HIDE DEF a
    <3> QED BY <1>0, <2>1, SubSeqProperties DEF a
  <2> HIDE DEF a
  <2> QED BY <1>0, <2>2
<1>2. b \in Seq(T) /\ Len(b) = Len(s) - i /\ \A k \in 1 .. Len(s) - i : b[k] = s[k + i]
  <2>1. \A k \in i + 1 .. Len(s) : s[k] \in T
    BY <1>0
  <2>2. /\ b \in Seq(T)
        /\ Len(b) = IF i + 1 <= Len(s) THEN Len(s) - (i + 1) + 1 ELSE 0
        /\ \A k \in 1 .. Len(s) - (i + 1) + 1 : b[k] = s[i + 1 + k - 1]
    <3> HIDE DEF b
    <3> QED BY <1>0, <2>1, SubSeqProperties DEF b
  <2> HIDE DEF b
  <2> QED BY <1>0, <2>2
<1> HIDE DEF a, b
<1>3. RemoveAt(s, i) = a \o b
  BY DEF RemoveAt, a, b
<1>4. /\ a \o b \in Seq(T) /\ Len(a \o b) = Len(a) + Len(b)
      /\ \A k \in 1 .. Len(a) + Len(b) : (a \o b)[k] = IF k <= Len(a) THEN a[k] ELSE b[k - Len(a)]
  BY <1>1, <1>2, ConcatProperties
<1>5. DOMAIN (a \o b) = 1 .. Len(s) - 1 /\ Len(a) + Len(b) = Len(s) - 1
  BY <1>0, <1>1, <1>2, <1>4
<1>6. ASSUME NEW k \in 1 .. Len(s) - 1 PROVE (a \o b)[k] = s[IF k < i THEN k ELSE k + 1]
  <2>1. CASE k < i
    BY <1>0, <1>1, <1>4, <1>5, <2>1
  <2>2. CASE ~ (k < i)
    <3>0. k \in Int /\ i \in Int /\ Len(s) \in Int /\ i <= k /\ k <= Len(s) - 1
      BY <1>0, <2>2
    <3>1. k - (i - 1) \in 1 .. Len(s) - i /\ k - (i - 1) + i = k + 1
      <4>1. k - (i - 1) + i = k + 1
        BY <3>0
      <4>2. k - (i - 1) \in Int /\ k - (i - 1) >= 1
        BY <3>0
      <4>3. k - (i - 1) <= Len(s) - i
        BY <3>0
      <4> QED BY <3>0, <4>1, <4>2, <4>3
    <3>2. (a \o b)[k] = b[k - (i - 1)]
      <4>1. Len(a) = i - 1 /\ ~ (k <= Len(a)) /\ k \in 1 .. Len(a) + Len(b)
        BY <1>1, <1>5, <3>0
      <4> QED BY <1>4, <4>1
    <3> QED BY <1>2, <2>2, <3>1, <3>2
  <2> QED BY <2>1, <2>2
<1> QED BY <1>3, <1>4, <1>5, <1>6

\* The tab, its user and their groups.
LEMMA TabFacts ==
  /\ Tab \in Sockets /\ me \in Users /\ me \notin Bots /\ me \notin Partners
  /\ IsFiniteSet(Users) /\ NoUser \notin Users /\ Partners \subseteq Users
  /\ \A u \in Users : Ours(u) = Pair(me, u) /\ Ours(u) \subseteq Groups /\ NoGroup \notin Ours(u)
                      /\ GroupName(me, u) \in Ours(u)
  /\ \A u, v \in Partners : \A g \in Ours(u) : g \in Ours(v) => u = v
<1>1. /\ Tab \in Sockets /\ me \in Users /\ me \notin Bots /\ me \notin Partners
      /\ IsFiniteSet(Users) /\ NoUser \notin Users /\ Partners \subseteq Users
  <2>1. Tab \in Sockets /\ IsFiniteSet(Users)
    BY RailAssumption DEF RailAssumption
  <2>2. Bots \subseteq Users /\ Owner \in [Sockets -> Users \ Bots] /\ NoUser \notin Users
    BY ChatsAssumption DEF ChatsAssumption
  <2>3. Owner[Tab] \in Users \ Bots
    BY <2>1, <2>2
  <2> QED BY <2>1, <2>2, <2>3 DEF me, Partners
<1>2. ASSUME NEW u \in Users
      PROVE  /\ Ours(u) = Pair(me, u) /\ Ours(u) \subseteq Groups /\ NoGroup \notin Ours(u)
             /\ GroupName(me, u) \in Ours(u)
  BY <1>1, RailFacts DEF Ours, Pair
<1>3. ASSUME NEW u \in Partners, NEW v \in Partners, NEW g \in Ours(u), g \in Ours(v) PROVE u = v
  BY <1>1, <1>3 DEF Ours, GroupName
<1> QED BY <1>1, <1>2, <1>3

\* A notice of another user of the tab's, whatever it is about.
LEMMA NoticeFromOutside ==
  ASSUME ChatsIInv, NEW notice \in Notice, notice.group \in Ours(notice.user),
         Notify(Listening(me), notice), online' \in SUBSET Users,
         UNCHANGED <<conn, registered, chats, closed, groups, asking, stored>>
  PROVE  ChatsIInv'
<1> USE DEF ChatsIInv
<1>1. /\ inbox' \in [Sockets -> Seq(Notice)]
      /\ \A r \in Sockets : \A i \in DOMAIN inbox'[r] :
           \/ r \in Listening(me) /\ inbox'[r][i] = notice
           \/ i \in DOMAIN inbox[r] /\ inbox'[r][i] = inbox[r][i]
  BY Notified
<1>2. ChatTypeOK'
  BY <1>1 DEF ChatTypeOK
<1>3. Fresh' /\ Kept' /\ RailIsJoined' /\ ClosedNotStored'
  BY DEF Fresh, Kept, RailIsJoined, ClosedNotStored
<1>4. PrivateGroupsArePrivate'
  <2>1. ASSUME NEW r \in Sockets, NEW i \in DOMAIN inbox'[r]
        PROVE  inbox'[r][i].group \in Pair(Owner[r], inbox'[r][i].user)
    <3>1. r \in Listening(me) => Owner[r] = me
      BY DEF Listening
    <3>2. notice.user \in Users
      BY DEF Notice
    <3> QED BY <1>1, <3>1, <3>2, TabFacts DEF PrivateGroupsArePrivate
  <2> QED BY <2>1 DEF PrivateGroupsArePrivate
<1>5. CeilingAtInvite'
  BY SameOpen DEF CeilingAtInvite
<1> QED BY <1>2, <1>3, <1>4, <1>5

\* Another user comes.
LEMMA OnlineFromOutside ==
  ASSUME ChatsIInv, online' \in SUBSET Users, UNCHANGED <<socketVars, stored>>
  PROVE  ChatsIInv'
<1> USE DEF ChatsIInv, socketVars
<1>1. ChatTypeOK'
  BY DEF ChatTypeOK
<1>2. Fresh' /\ Kept' /\ RailIsJoined' /\ ClosedNotStored'
  BY DEF Fresh, Kept, RailIsJoined, ClosedNotStored
<1>3. PrivateGroupsArePrivate'
  BY DEF PrivateGroupsArePrivate
<1>4. CeilingAtInvite'
  BY SameOpen DEF CeilingAtInvite
<1> QED BY <1>1, <1>2, <1>3, <1>4

\* Each step of the rail is one of the private chats, leaves them alone, or is
\* another user's.
LEMMA RailChatsStep ==
  ASSUME ChatsIInv, theirs \subseteq UNION {Ours(u) : u \in Partners}, [RailNext]_railVars
  PROVE  ChatsIInv'
<1>0. ChatNext => ChatsIInv'
  BY ChatsTypesStep, FreshStep, KeptStep, PrivateStep, RailStep, ClosedStep, CeilingStep DEF ChatsIInv
<1>1. UNCHANGED chatVars => ChatsIInv'
  BY ChatsStutter
<1>2. ASSUME PageStep PROVE ChatsIInv'
  <2>1. Loads => ChatNext
    BY TabFacts DEF Loads, ChatNext
  <2>2. PageStep => Loads \/ UNCHANGED chatVars
    BY DEF PageStep, Clicks, ClosesRow, ShowsRestored, ShowsInvite, ShowsOffline, ShowsOnline,
           ShowsDenied, ShowsMessage, Takes
  <2> QED BY <1>0, <1>1, <1>2, <2>1, <2>2
<1>3. ASSUME ConsumerStep PROVE ChatsIInv'
  <2>1. RestoresRail \/ ReadsRegister \/ JoinsInvite \/ TellsInvite \/ ClosesTab \/ GoneTab \/ DiesTab
        => ChatNext
    BY TabFacts DEF RestoresRail, ReadsRegister, JoinsInvite, TellsInvite, ClosesTab, GoneTab, DiesTab,
                    ChatNext
  <2>2. ASSUME NEW u \in Partners, ReadsInvite(u) PROVE ChatNext \/ UNCHANGED chatVars
    BY <2>2, TabFacts DEF ReadsInvite, ChatNext
  <2>3. ASSUME NEW u \in Partners, ReadsClose(u) PROVE ChatNext \/ UNCHANGED chatVars
    BY <2>3, TabFacts DEF ReadsClose, ChatNext
  <2>4. ASSUME NEW u \in Partners, InvitedBy(u) \/ ToldOffline(u) PROVE ChatNext
    BY <2>4, TabFacts DEF InvitedBy, ToldOffline, ChatNext
  <2>5. ASSUME NEW u, NEW type, NEW g, Relays(type, u, g) PROVE UNCHANGED chatVars
    BY <2>5 DEF Relays
  <2> QED BY <1>0, <1>1, <1>3, <2>1, <2>2, <2>3, <2>4, <2>5 DEF ConsumerStep
<1>4. ASSUME OthersStep PROVE ChatsIInv'
  <2>0. online \in SUBSET Users
    BY DEF ChatsIInv, ChatTypeOK
  <2>1. ASSUME NEW u \in Partners \ Bots, Comes(u) PROVE ChatsIInv'
    BY <2>0, <2>1, TabFacts, OnlineFromOutside DEF Comes
  <2>2. ASSUME NEW u \in Partners \ Bots, NEW type \in {"invite", "offline"}, NEW g \in Ours(u),
               Waits([type |-> type, user |-> u, group |-> g]), online' \in SUBSET Users
        PROVE  ChatsIInv'
    <3>1. [type |-> type, user |-> u, group |-> g] \in Notice
      BY TabFacts DEF Notice
    <3> QED BY <2>2, <3>1, NoticeFromOutside DEF Waits
  <2>3. ASSUME NEW u \in Partners \ Bots, Invites(u) PROVE ChatsIInv'
    <3>1. GroupName(u, me) \in Ours(u)
      BY DEF Ours
    <3> QED BY <2>0, <2>2, <2>3, <3>1 DEF Invites
  <2>4. ASSUME NEW u \in Partners \ Bots, Goes(u) PROVE ChatsIInv'
    BY <2>0, <2>2, <2>4 DEF Goes
  <2>5. ASSUME NEW u \in Users, Expires(u) PROVE ChatNext
    BY <2>5 DEF Expires, ChatNext
  <2> QED BY <1>0, <1>4, <2>1, <2>3, <2>4, <2>5 DEF OthersStep
<1> QED BY <1>1, <1>2, <1>3, <1>4 DEF RailNext, railVars

\* A set of naturals has a least element: the initial segments up to its
\* elements are finite, and inclusion is well-founded on finite sets.
LEMMA LeastNatural ==
  ASSUME NEW S \in SUBSET Nat, S # {}
  PROVE  \E m \in S : \A k \in S : m <= k
<1> DEFINE W == {0 .. k : k \in S}
<1>1. W \subseteq FiniteSubsetsOf(Nat) /\ W # {}
  <2>1. \A k \in Nat : IsFiniteSet(0 .. k) /\ 0 .. k \subseteq Nat
    BY FS_Interval
  <2> QED BY <2>1 DEF FiniteSubsetsOf
<1>2. \E x \in W : \A y \in W : ~ (<<y, x>> \in StrictSubsetOrdering(Nat))
  <2> HIDE DEF W
  <2> QED BY <1>1, WFMin, FS_StrictSubsetOrderingWellFounded
<1>3. PICK m \in S : \A k \in S : ~ (<<0 .. k, 0 .. m>> \in StrictSubsetOrdering(Nat))
  BY <1>2
<1>4. ASSUME NEW k \in S, k < m PROVE <<0 .. k, 0 .. m>> \in StrictSubsetOrdering(Nat)
  <2>1. m \in 0 .. m /\ m \notin 0 .. k /\ 0 .. k \subseteq 0 .. m
    BY <1>4
  <2>2. 0 .. k \in SUBSET Nat /\ 0 .. m \in SUBSET Nat
    OBVIOUS
  <2>3. 0 .. k # 0 .. m
    BY <2>1
  <2> QED BY <2>1, <2>2, <2>3 DEF StrictSubsetOrdering
<1>5. \A k \in S : ~ (k < m)
  BY <1>3, <1>4
<1>6. \A k \in S : k \in Nat
  OBVIOUS
<1> QED BY <1>5, <1>6

\* Removing by group removes one row of that group, if there is one.
LEMMA WithoutFacts ==
  ASSUME NEW rows \in Seq(RowType), NEW g
  PROVE  \/ Without(rows, g) = rows /\ \A i \in DOMAIN rows : rows[i].group # g
         \/ \E i \in DOMAIN rows : rows[i].group = g /\ Without(rows, g) = RemoveAt(rows, i)
<1> DEFINE P(i) == rows[i].group = g /\ \A j \in 1 .. i - 1 : rows[j].group # g
<1>1. CASE \A i \in DOMAIN rows : rows[i].group # g
  BY <1>1 DEF Without
<1>2. CASE \E i \in DOMAIN rows : rows[i].group = g
  <2> DEFINE S == {i \in DOMAIN rows : rows[i].group = g}
  <2>1. DOMAIN rows = 1 .. Len(rows) /\ Len(rows) \in Nat
    OBVIOUS
  <2>2. PICK m \in S : \A k \in S : m <= k
    <3>1. S \in SUBSET Nat /\ S # {}
      BY <1>2, <2>1
    <3> HIDE DEF S
    <3> QED BY <3>1, LeastNatural
  <2>3. ASSUME NEW j \in 1 .. m - 1 PROVE rows[j].group # g
    <3>1. j \in DOMAIN rows /\ ~ (m <= j)
      BY <2>1, <2>2
    <3> QED BY <2>2, <3>1
  <2>4. m \in DOMAIN rows /\ P(m)
    BY <2>2, <2>3
  <2>5. Without(rows, g) = RemoveAt(rows, CHOOSE i \in DOMAIN rows : P(i))
    BY <1>2 DEF Without
  <2> HIDE DEF P
  <2>6. PICK i \in DOMAIN rows : P(i) /\ i = CHOOSE k \in DOMAIN rows : P(k)
    BY <2>4
  <2> QED BY <2>5, <2>6 DEF P
<1> QED BY <1>1, <1>2

\* The first row of a group, if there is one.
LEMMA FirstFacts ==
  ASSUME rail \in Seq(RowType), NEW g, RowsOf(g) # {}
  PROVE  First(g) \in RowsOf(g) /\ \A j \in RowsOf(g) : First(g) <= j
<1>1. RowsOf(g) \in SUBSET Nat
  BY DEF RowsOf
<1>2. \E m \in RowsOf(g) : \A k \in RowsOf(g) : m <= k
  BY <1>1, LeastNatural
<1> QED BY <1>2 DEF First

\* Marking changes the mark of one row of the group at most.
LEMMA MarkedFacts ==
  ASSUME rail \in Seq(RowType), NEW g, NEW live \in BOOLEAN
  PROVE  /\ Marked(g, live) \in Seq(RowType) /\ DOMAIN Marked(g, live) = DOMAIN rail
         /\ \A i \in DOMAIN rail :
              /\ Marked(g, live)[i].user = rail[i].user /\ Marked(g, live)[i].group = rail[i].group
              /\ \/ Marked(g, live)[i].live = rail[i].live
                 \/ Marked(g, live)[i].live = live /\ rail[i].group = g
         /\ RowsOf(g) # {} => First(g) \in RowsOf(g) /\ Marked(g, live)[First(g)].live = live
<1>1. CASE RowsOf(g) = {}
  BY <1>1 DEF Marked
<1>2. CASE RowsOf(g) # {}
  <2>1. PICK f \in DOMAIN rail : f = First(g) /\ f \in RowsOf(g) /\ rail[f].group = g
    BY <1>2, FirstFacts DEF RowsOf
  <2>2. Marked(g, live) = [rail EXCEPT ![f].live = live]
    BY <1>2, <2>1 DEF Marked
  <2>3. rail[f] \in RowType /\ [rail[f] EXCEPT !.live = live] \in RowType
    <3>1. rail[f] \in RowType
      BY <2>1
    <3>2. PICK u \in Partners, h \in Groups, l \in BOOLEAN :
            rail[f] = [user |-> u, group |-> h, live |-> l]
      BY <3>1 DEF RowType
    <3>3. [rail[f] EXCEPT !.live = live] = [user |-> u, group |-> h, live |-> live]
      BY <3>2
    <3> QED BY <3>1, <3>3 DEF RowType
  <2>4. [rail EXCEPT ![f].live = live] = [rail EXCEPT ![f] = [rail[f] EXCEPT !.live = live]]
    OBVIOUS
  <2> DEFINE row == [rail[f] EXCEPT !.live = live]
  <2>5. row.user = rail[f].user /\ row.group = rail[f].group /\ row.live = live
    BY <2>3 DEF RowType
  <2> HIDE DEF row
  <2>6. /\ [rail EXCEPT ![f] = row] \in Seq(RowType)
        /\ DOMAIN [rail EXCEPT ![f] = row] = DOMAIN rail
        /\ \A i \in DOMAIN rail : [rail EXCEPT ![f] = row][i] = IF i = f THEN row ELSE rail[i]
    <3>1. row \in RowType
      BY <2>3 DEF row
    <3>2. f \in 1 .. Len(rail) /\ DOMAIN rail = 1 .. Len(rail)
      BY <2>1
    <3>3. DOMAIN [rail EXCEPT ![f] = row] = DOMAIN rail
      OBVIOUS
    <3> QED BY <3>1, <3>2, <3>3, ExceptSeq
  <2>7. Marked(g, live) = [rail EXCEPT ![f] = row]
    BY <2>2, <2>4 DEF row
  <2>8. \A i \in DOMAIN rail : Marked(g, live)[i] = IF i = f THEN row ELSE rail[i]
    BY <2>6, <2>7
  <2>9. Marked(g, live) \in Seq(RowType) /\ DOMAIN Marked(g, live) = DOMAIN rail
    BY <2>6, <2>7
  <2> QED BY <2>1, <2>5, <2>8, <2>9
<1> QED BY <1>1, <1>2

\* The elements of a sequence that grew or shrank.
LEMMA RangeFacts ==
  ASSUME NEW T, NEW s \in Seq(T)
  PROVE  /\ Range(s) \in SUBSET T
         /\ \A i \in DOMAIN s : s[i] \in Range(s)
         /\ \A e \in T : Range(Append(s, e)) = Range(s) \cup {e}
         /\ s # <<>> => /\ Range(s) = Range(Tail(s)) \cup {Head(s)} /\ Head(s) \in Range(s)
         /\ s = <<>> <=> Range(s) = {}
<1>1. Range(s) \in SUBSET T /\ \A i \in DOMAIN s : s[i] \in Range(s)
  BY SeqFacts DEF Range
<1>2. ASSUME NEW e \in T PROVE Range(Append(s, e)) = Range(s) \cup {e}
  <2>1. \A x \in Range(Append(s, e)) : x \in Range(s) \cup {e}
    BY DEF Range
  <2>2. e \in Range(Append(s, e))
    <3>1. Len(s) + 1 \in DOMAIN Append(s, e) /\ Append(s, e)[Len(s) + 1] = e
      BY SeqFacts
    <3> QED BY <3>1 DEF Range
  <2>3. \A x \in Range(s) : x \in Range(Append(s, e))
    <3> SUFFICES ASSUME NEW i \in DOMAIN s PROVE s[i] \in Range(Append(s, e))
      BY DEF Range
    <3>1. i \in DOMAIN Append(s, e) /\ Append(s, e)[i] = s[i]
      BY SeqFacts
    <3> QED BY <3>1 DEF Range
  <2> QED BY <2>1, <2>2, <2>3
<1>3. ASSUME s # <<>> PROVE Range(s) = Range(Tail(s)) \cup {Head(s)} /\ Head(s) \in Range(s)
  <2>1. Head(s) = s[1] /\ 1 \in DOMAIN s
    BY <1>3, SeqFacts
  <2>2. \A x \in Range(Tail(s)) : x \in Range(s)
    <3> SUFFICES ASSUME NEW i \in DOMAIN Tail(s) PROVE Tail(s)[i] \in Range(s)
      BY DEF Range
    <3>1. i + 1 \in DOMAIN s /\ Tail(s)[i] = s[i + 1]
      BY <1>3, SeqFacts
    <3> QED BY <3>1 DEF Range
  <2>3. \A x \in Range(s) : x \in Range(Tail(s)) \cup {Head(s)}
    <3> SUFFICES ASSUME NEW i \in DOMAIN s, i # 1 PROVE s[i] \in Range(Tail(s))
      BY <2>1 DEF Range
    <3>1. i - 1 \in DOMAIN Tail(s) /\ Tail(s)[i - 1] = s[i]
      BY <1>3, SeqFacts
    <3> QED BY <3>1 DEF Range
  <2> QED BY <2>1, <2>2, <2>3 DEF Range
<1>4. s = <<>> <=> Range(s) = {}
  BY SeqFacts DEF Range
<1> QED BY <1>1, <1>2, <1>3, <1>4

\* What a request adds to those under way.
LEMMA RequestMade ==
  ASSUME toServer \in Seq(Request), NEW u \in Users, NEW type \in {"register", "invite", "close"},
         Sends(type, u)
  PROVE  /\ toServer' \in Seq(Request) /\ Range(toServer)' = Range(toServer) \cup {Asked(type, u)}
         /\ \A v : /\ InviteWaits(v)' <=> InviteWaits(v) \/ (type = "invite" /\ v = u)
                   /\ CloseWaits(v)' <=> CloseWaits(v) \/ (type = "close" /\ v = u)
                   /\ Requested(v)' <=>
                        \/ type = "invite" /\ v = u
                        \/ Requested(v) /\ ~ (type = "close" /\ v = u)
<1>1. Asked(type, u) \in Request /\ toServer' = Append(toServer, Asked(type, u))
  BY DEF Asked, Request, Sends
<1>2. toServer' \in Seq(Request) /\ Range(toServer)' = Range(toServer) \cup {Asked(type, u)}
  <2>1. Range(toServer') = Range(toServer) \cup {Asked(type, u)} /\ toServer' \in Seq(Request)
    BY <1>1, RangeFacts, SeqFacts
  <2> QED BY <2>1 DEF Range
<1>3. \A v, t : Asked(t, v) = Asked(type, u) <=> t = type /\ v = u
  BY DEF Asked
<1>4. ASSUME NEW v
      PROVE  /\ InviteWaits(v)' <=> InviteWaits(v) \/ (type = "invite" /\ v = u)
             /\ CloseWaits(v)' <=> CloseWaits(v) \/ (type = "close" /\ v = u)
  <2>1. /\ InviteWaits(v)' <=> Asked("invite", v) \in Range(toServer)'
        /\ CloseWaits(v)' <=> Asked("close", v) \in Range(toServer)'
    BY DEF InviteWaits, CloseWaits
  <2> QED BY <1>2, <1>3, <2>1 DEF InviteWaits, CloseWaits
<1>5. ASSUME NEW v
      PROVE  Requested(v)' <=> \/ type = "invite" /\ v = u
                               \/ Requested(v) /\ ~ (type = "close" /\ v = u)
  <2> DEFINE n == Len(toServer)
             x == Asked(type, u)
  <2>1. /\ n \in Nat /\ DOMAIN toServer = 1 .. n /\ DOMAIN toServer' = 1 .. n + 1
        /\ \A i \in 1 .. n : toServer'[i] = toServer[i]
        /\ toServer'[n + 1] = x
    BY <1>1, SeqFacts
  <2>2. /\ Requested(v) <=> \E i \in 1 .. n : /\ toServer[i] = Asked("invite", v)
                                             /\ \A j \in 1 .. n : j > i => toServer[j] # Asked("close", v)
        /\ Requested(v)' <=> \E i \in 1 .. n + 1 :
                               /\ toServer'[i] = Asked("invite", v)
                               /\ \A j \in 1 .. n + 1 : j > i => toServer'[j] # Asked("close", v)
    BY <2>1 DEF Requested, Asked
  <2> HIDE DEF n, x
  <2>3. ASSUME type = "invite", v = u PROVE Requested(v)'
    <3>1. toServer'[n + 1] = Asked("invite", v) /\ \A j \in 1 .. n + 1 : ~ (j > n + 1)
      BY <2>1, <2>3 DEF x
    <3> QED BY <2>1, <2>2, <3>1
  <2>4. ASSUME Requested(v), ~ (type = "close" /\ v = u) PROVE Requested(v)'
    <3>1. PICK i \in 1 .. n : /\ toServer[i] = Asked("invite", v)
                              /\ \A j \in 1 .. n : j > i => toServer[j] # Asked("close", v)
      BY <2>2, <2>4
    <3>2. toServer'[n + 1] # Asked("close", v)
      BY <1>3, <2>1, <2>4 DEF x
    <3>3. i \in 1 .. n + 1 /\ toServer'[i] = Asked("invite", v)
      BY <2>1, <3>1
    <3>4. \A j \in 1 .. n + 1 : j \in 1 .. n \/ j = n + 1
      BY <2>1
    <3>5. \A j \in 1 .. n + 1 : j > i => toServer'[j] # Asked("close", v)
      BY <2>1, <3>1, <3>2, <3>4
    <3> QED BY <2>2, <3>3, <3>5
  <2>5. ASSUME Requested(v)', ~ (type = "invite" /\ v = u) PROVE Requested(v) /\ ~ (type = "close" /\ v = u)
    <3>1. PICK i \in 1 .. n + 1 : /\ toServer'[i] = Asked("invite", v)
                                  /\ \A j \in 1 .. n + 1 : j > i => toServer'[j] # Asked("close", v)
      BY <2>2, <2>5
    <3>2. i # n + 1
      BY <1>3, <2>1, <2>5, <3>1 DEF x
    <3>3. i \in 1 .. n /\ n + 1 \in 1 .. n + 1 /\ n + 1 > i
      BY <2>1, <3>1, <3>2
    <3>4. \A j \in 1 .. n : j > i => toServer[j] # Asked("close", v)
      BY <2>1, <3>1
    <3>5. Asked(type, u) # Asked("close", v)
      BY <2>1, <3>1, <3>3 DEF x
    <3> QED BY <1>3, <2>1, <2>2, <3>1, <3>3, <3>4, <3>5
  <2> QED BY <2>3, <2>4, <2>5
<1> QED BY <1>2, <1>4, <1>5

\* What is left of the requests when one is read.
LEMMA RequestRead ==
  ASSUME toServer \in Seq(Request), NEW u \in Users, NEW type \in {"register", "invite", "close"},
         Reads(type, u)
  PROVE  /\ toServer' \in Seq(Request) /\ Range(toServer) = Range(toServer)' \cup {Asked(type, u)}
         /\ \A v : /\ InviteWaits(v) <=> InviteWaits(v)' \/ (type = "invite" /\ v = u)
                   /\ CloseWaits(v) <=> CloseWaits(v)' \/ (type = "close" /\ v = u)
                   /\ Requested(v) <=>
                        \/ Requested(v)'
                        \/ type = "invite" /\ v = u /\ ~ CloseWaits(v)'
<1>1. /\ toServer # <<>> /\ Head(toServer) = Asked(type, u) /\ toServer' = Tail(toServer)
  BY DEF Asked, Reads
<1>2. toServer' \in Seq(Request) /\ Range(toServer) = Range(toServer)' \cup {Asked(type, u)}
  <2>1. Range(toServer) = Range(toServer') \cup {Asked(type, u)} /\ toServer' \in Seq(Request)
    BY <1>1, RangeFacts, SeqFacts
  <2> QED BY <2>1 DEF Range
<1>3. \A v, t : Asked(t, v) = Asked(type, u) <=> t = type /\ v = u
  BY DEF Asked
<1>4. ASSUME NEW v
      PROVE  /\ InviteWaits(v) <=> InviteWaits(v)' \/ (type = "invite" /\ v = u)
             /\ CloseWaits(v) <=> CloseWaits(v)' \/ (type = "close" /\ v = u)
  <2>1. /\ InviteWaits(v)' <=> Asked("invite", v) \in Range(toServer)'
        /\ CloseWaits(v)' <=> Asked("close", v) \in Range(toServer)'
    BY DEF InviteWaits, CloseWaits
  <2> QED BY <1>2, <1>3, <2>1 DEF InviteWaits, CloseWaits
<1>5. ASSUME NEW v
      PROVE  Requested(v) <=> \/ Requested(v)'
                              \/ type = "invite" /\ v = u /\ ~ CloseWaits(v)'
  <2> DEFINE n == Len(toServer)
  <2>1. /\ n \in Nat /\ n >= 1 /\ DOMAIN toServer = 1 .. n /\ DOMAIN toServer' = 1 .. n - 1
        /\ \A i \in 1 .. n - 1 : toServer'[i] = toServer[i + 1]
        /\ toServer[1] = Asked(type, u)
    BY <1>1, SeqFacts
  <2>2. /\ Requested(v) <=> \E i \in 1 .. n : /\ toServer[i] = Asked("invite", v)
                                             /\ \A j \in 1 .. n : j > i => toServer[j] # Asked("close", v)
        /\ Requested(v)' <=> \E i \in 1 .. n - 1 :
                               /\ toServer'[i] = Asked("invite", v)
                               /\ \A j \in 1 .. n - 1 : j > i => toServer'[j] # Asked("close", v)
    BY <2>1 DEF Requested, Asked
  <2>3. CloseWaits(v)' <=> \E j \in 1 .. n - 1 : toServer'[j] = Asked("close", v)
    <3>1. CloseWaits(v)' <=> \E j \in DOMAIN toServer' : toServer'[j] = Asked("close", v)
      BY DEF CloseWaits, Range, Asked
    <3> QED BY <2>1, <3>1
  <2> HIDE DEF n
  <2>4. ASSUME Requested(v)' PROVE Requested(v)
    <3>1. PICK i \in 1 .. n - 1 : /\ toServer'[i] = Asked("invite", v)
                                  /\ \A j \in 1 .. n - 1 : j > i => toServer'[j] # Asked("close", v)
      BY <2>2, <2>4
    <3>2. i + 1 \in 1 .. n /\ toServer[i + 1] = Asked("invite", v)
      BY <2>1, <3>1
    <3>3. ASSUME NEW j \in 1 .. n, j > i + 1 PROVE toServer[j] # Asked("close", v)
      <4>1. j - 1 \in 1 .. n - 1 /\ j - 1 > i /\ (j - 1) + 1 = j
        BY <2>1, <3>1, <3>3
      <4> QED BY <2>1, <3>1, <4>1
    <3> QED BY <2>2, <3>2, <3>3
  <2>5. ASSUME type = "invite", v = u, ~ CloseWaits(v)' PROVE Requested(v)
    <3>1. 1 \in 1 .. n /\ toServer[1] = Asked("invite", v)
      BY <2>1, <2>5
    <3>2. ASSUME NEW j \in 1 .. n, j > 1 PROVE toServer[j] # Asked("close", v)
      <4>1. j - 1 \in 1 .. n - 1 /\ (j - 1) + 1 = j
        BY <2>1, <3>2
      <4> QED BY <2>1, <2>3, <2>5, <4>1
    <3> QED BY <2>2, <3>1, <3>2
  <2>6. ASSUME Requested(v) PROVE Requested(v)' \/ (type = "invite" /\ v = u /\ ~ CloseWaits(v)')
    <3>1. PICK i \in 1 .. n : /\ toServer[i] = Asked("invite", v)
                              /\ \A j \in 1 .. n : j > i => toServer[j] # Asked("close", v)
      BY <2>2, <2>6
    <3>2. CASE i = 1
      <4>1. type = "invite" /\ v = u
        BY <1>3, <2>1, <3>1, <3>2
      <4>2. ASSUME NEW j \in 1 .. n - 1 PROVE toServer'[j] # Asked("close", v)
        <5>1. j + 1 \in 1 .. n /\ j + 1 > 1
          BY <2>1
        <5> QED BY <2>1, <3>1, <3>2, <5>1
      <4> QED BY <2>3, <4>1, <4>2
    <3>3. CASE i # 1
      <4>1. i - 1 \in 1 .. n - 1 /\ (i - 1) + 1 = i
        BY <2>1, <3>1, <3>3
      <4>2. ASSUME NEW j \in 1 .. n - 1, j > i - 1 PROVE toServer'[j] # Asked("close", v)
        <5>1. j + 1 \in 1 .. n /\ j + 1 > i
          BY <2>1, <3>1, <4>2
        <5> QED BY <2>1, <3>1, <5>1
      <4>3. toServer'[i - 1] = Asked("invite", v)
        BY <2>1, <3>1, <4>1
      <4> QED BY <2>2, <4>1, <4>2, <4>3
    <3> QED BY <3>2, <3>3
  <2> QED BY <2>4, <2>5, <2>6
<1> QED BY <1>2, <1>4, <1>5

\* Requests that stand still.
LEMMA RequestsSame ==
  ASSUME toServer' = toServer
  PROVE  /\ Range(toServer)' = Range(toServer)
         /\ \A v : /\ InviteWaits(v)' <=> InviteWaits(v)
                   /\ CloseWaits(v)' <=> CloseWaits(v)
                   /\ Requested(v)' <=> Requested(v)
BY DEF Range, InviteWaits, CloseWaits, Requested, Asked

\* No request is under way, or only that of a new page.
LEMMA RequestsFew ==
  /\ toServer = <<>> => Range(toServer) = {} /\ \A v : ~ InviteWaits(v) /\ ~ CloseWaits(v) /\ ~ Requested(v)
  /\ (\A q \in Range(toServer) : q.type = "register") =>
       \A v : ~ InviteWaits(v) /\ ~ CloseWaits(v) /\ ~ Requested(v)
<1>1. ASSUME NEW v, Requested(v) PROVE InviteWaits(v)
  BY <1>1 DEF Requested, InviteWaits, Range
<1>2. (\A q \in Range(toServer) : q.type = "register") => \A v : ~ InviteWaits(v) /\ ~ CloseWaits(v)
  BY DEF InviteWaits, CloseWaits, Asked
<1>3. toServer = <<>> => Range(toServer) = {}
  BY DEF Range
<1> QED BY <1>1, <1>2, <1>3

\* A frame on its way, and one taken.
LEMMA FrameFacts ==
  ASSUME toBrowser \in Seq(Frame \cup RestoredFrame)
  PROVE  /\ \A f \in Range(toBrowser) : /\ f \in Frame \cup RestoredFrame
                                        /\ f.type = "restored" <=> f \in RestoredFrame
                                        /\ f.type # "restored" <=> f \in Frame
         /\ \A f \in Frame \cup RestoredFrame :
              Tells(f) => /\ toBrowser' \in Seq(Frame \cup RestoredFrame)
                          /\ Range(toBrowser)' = Range(toBrowser) \cup {f}
         /\ \A type : Takes(type) => /\ toBrowser' \in Seq(Frame \cup RestoredFrame)
                                     /\ Range(toBrowser) = Range(toBrowser)' \cup {Head(toBrowser)}
                                     /\ Head(toBrowser).type = type /\ Head(toBrowser) \in Range(toBrowser)
<1> DEFINE F == Frame \cup RestoredFrame
<1>1. \A f \in Range(toBrowser) : /\ f \in F
                                  /\ f.type = "restored" <=> f \in RestoredFrame
                                  /\ f.type # "restored" <=> f \in Frame
  <2>1. Range(toBrowser) \in SUBSET F
    BY RangeFacts
  <2>2. \A f \in Frame : f.type # "restored"
    BY DEF Frame
  <2>3. \A f \in RestoredFrame : f.type = "restored"
    BY DEF RestoredFrame
  <2> QED BY <2>1, <2>2, <2>3
<1>2. ASSUME NEW f \in F, Tells(f)
      PROVE  toBrowser' \in Seq(F) /\ Range(toBrowser)' = Range(toBrowser) \cup {f}
  <2>1. Range(toBrowser') = Range(toBrowser) \cup {f} /\ toBrowser' \in Seq(F)
    BY <1>2, RangeFacts, SeqFacts DEF Tells
  <2> QED BY <2>1 DEF Range
<1>3. ASSUME NEW type, Takes(type)
      PROVE  /\ toBrowser' \in Seq(F)
             /\ Range(toBrowser) = Range(toBrowser)' \cup {Head(toBrowser)}
             /\ Head(toBrowser).type = type /\ Head(toBrowser) \in Range(toBrowser)
  <2>1. /\ Range(toBrowser) = Range(toBrowser') \cup {Head(toBrowser)} /\ toBrowser' \in Seq(F)
        /\ Head(toBrowser).type = type /\ Head(toBrowser) \in Range(toBrowser)
    BY <1>3, RangeFacts, SeqFacts DEF Takes
  <2> QED BY <2>1 DEF Range
<1> QED BY <1>1, <1>2, <1>3

\* Every row was there, and was live if it is.
Thinned(rows, from) ==
  /\ \A j \in DOMAIN rows : \E i \in DOMAIN from :
       /\ rows[j].user = from[i].user /\ rows[j].group = from[i].group
       /\ rows[j].live => from[i].live
  /\ \A u : OneRow(from, u) => OneRow(rows, u)

\* Removing a row thins the rail.
LEMMA RemoveThins ==
  ASSUME NEW rows \in Seq(RowType), NEW i \in DOMAIN rows
  PROVE  /\ RemoveAt(rows, i) \in Seq(RowType) /\ Thinned(RemoveAt(rows, i), rows)
         /\ \A j \in DOMAIN rows \ {i} : \E k \in DOMAIN RemoveAt(rows, i) : RemoveAt(rows, i)[k] = rows[j]
         /\ OneRow(rows, rows[i].user) => NoRow(RemoveAt(rows, i), rows[i].user)
<1> DEFINE r == RemoveAt(rows, i)
           n == Len(rows)
<1>1. n \in Nat /\ DOMAIN rows = 1 .. n /\ i \in 1 .. n
  OBVIOUS
<1>2. /\ r \in Seq(RowType) /\ DOMAIN r = 1 .. n - 1
      /\ \A k \in 1 .. n - 1 : r[k] = rows[IF k < i THEN k ELSE k + 1]
  BY RemoveFacts
<1> HIDE DEF r, n
<1>3. ASSUME NEW k \in 1 .. n - 1 PROVE (IF k < i THEN k ELSE k + 1) \in 1 .. n \ {i}
  BY <1>1
<1>4. \A k \in DOMAIN r : \E j \in DOMAIN rows \ {i} : r[k] = rows[j]
  BY <1>1, <1>2, <1>3
<1>5. ASSUME NEW u, OneRow(rows, u) PROVE OneRow(r, u)
  <2> SUFFICES ASSUME NEW k \in 1 .. n - 1, NEW l \in 1 .. n - 1, r[k].user = u, r[l].user = u
               PROVE  k = l
    BY <1>2 DEF OneRow
  <2>1. (IF k < i THEN k ELSE k + 1) = (IF l < i THEN l ELSE l + 1)
    BY <1>1, <1>2, <1>3, <1>5 DEF OneRow
  <2> QED BY <1>1, <2>1
<1>6. ASSUME NEW j \in DOMAIN rows \ {i} PROVE \E k \in DOMAIN r : r[k] = rows[j]
  <2>1. CASE j < i
    <3>1. j \in 1 .. n - 1
      BY <1>1, <2>1
    <3> QED BY <1>2, <2>1, <3>1
  <2>2. CASE ~ (j < i)
    <3>1. j - 1 \in 1 .. n - 1 /\ ~ (j - 1 < i) /\ (j - 1) + 1 = j
      BY <1>1, <2>2
    <3> QED BY <1>2, <3>1
  <2> QED BY <2>1, <2>2
<1>7. OneRow(rows, rows[i].user) => NoRow(r, rows[i].user)
  BY <1>4 DEF OneRow, NoRow
<1>8. Thinned(r, rows)
  BY <1>4, <1>5 DEF Thinned
<1> QED BY <1>2, <1>6, <1>7, <1>8 DEF r

\* Thinning a thinned rail, and not thinning it.
LEMMA ThinnedTwice ==
  /\ \A r, s, t : Thinned(r, s) /\ Thinned(s, t) => Thinned(r, t)
  /\ \A r : Thinned(r, r)
BY DEF Thinned

\* So does removing the first row of a group.
LEMMA WithoutThins ==
  ASSUME NEW rows \in Seq(RowType), NEW g
  PROVE  /\ Without(rows, g) \in Seq(RowType) /\ Thinned(Without(rows, g), rows)
         /\ \A j \in DOMAIN rows : rows[j].group # g =>
              \E k \in DOMAIN Without(rows, g) : Without(rows, g)[k] = rows[j]
         /\ \A u : /\ OneRow(rows, u)
                   /\ \A i \in DOMAIN rows : rows[i].group = g <=> rows[i].user = u
                   => NoRow(Without(rows, g), u)
<1> DEFINE r == Without(rows, g)
<1> HIDE DEF r
<1>1. CASE r = rows /\ \A i \in DOMAIN rows : rows[i].group # g
  <2>1. r \in Seq(RowType) /\ Thinned(r, rows)
    BY <1>1, ThinnedTwice
  <2>2. \A j \in DOMAIN rows : rows[j].group # g => \E k \in DOMAIN r : r[k] = rows[j]
    BY <1>1
  <2>3. ASSUME NEW u, \A i \in DOMAIN rows : rows[i].group = g <=> rows[i].user = u PROVE NoRow(r, u)
    BY <1>1, <2>3 DEF NoRow
  <2> QED BY <2>1, <2>2, <2>3 DEF r
<1>2. ASSUME NEW i \in DOMAIN rows, rows[i].group = g, r = RemoveAt(rows, i)
      PROVE  /\ Without(rows, g) \in Seq(RowType) /\ Thinned(Without(rows, g), rows)
             /\ \A j \in DOMAIN rows : rows[j].group # g =>
                  \E k \in DOMAIN Without(rows, g) : Without(rows, g)[k] = rows[j]
             /\ \A u : /\ OneRow(rows, u)
                       /\ \A k \in DOMAIN rows : rows[k].group = g <=> rows[k].user = u
                       => NoRow(Without(rows, g), u)
  <2>1. r \in Seq(RowType) /\ Thinned(r, rows)
    BY <1>2, RemoveThins
  <2>2. \A j \in DOMAIN rows : rows[j].group # g => \E k \in DOMAIN r : r[k] = rows[j]
    BY <1>2, RemoveThins
  <2>3. ASSUME NEW u, OneRow(rows, u), \A k \in DOMAIN rows : rows[k].group = g <=> rows[k].user = u
        PROVE  NoRow(r, u)
    <3>1. rows[i].user = u
      BY <1>2, <2>3
    <3> QED BY <1>2, <2>3, <3>1, RemoveThins
  <2> QED BY <2>1, <2>2, <2>3 DEF r
<1> QED BY <1>1, <1>2, WithoutFacts DEF r

\* Marking a row offline thins the rail; marking it online leaves it in place.
LEMMA MarkedThins ==
  ASSUME rail \in Seq(RowType), NEW g, NEW live \in BOOLEAN
  PROVE  /\ Marked(g, live) \in Seq(RowType)
         /\ ~ live => Thinned(Marked(g, live), rail)
         /\ \A u : OneRow(rail, u) => OneRow(Marked(g, live), u)
         /\ \A j \in DOMAIN rail : j \in DOMAIN Marked(g, live) /\ Marked(g, live)[j].user = rail[j].user
         /\ \A j \in DOMAIN Marked(g, live) :
              /\ j \in DOMAIN rail /\ Marked(g, live)[j].user = rail[j].user
              /\ Marked(g, live)[j].group = rail[j].group
              /\ Marked(g, live)[j].live => rail[j].live \/ (live /\ rail[j].group = g)
         /\ \A u : /\ ~ live /\ OneRow(rail, u)
                   /\ \A i \in DOMAIN rail : rail[i].group = g <=> rail[i].user = u
                   => \A i \in DOMAIN Marked(g, live) : Marked(g, live)[i].user = u => ~ Marked(g, live)[i].live
<1> DEFINE r == Marked(g, live)
<1>1. /\ r \in Seq(RowType) /\ DOMAIN r = DOMAIN rail
      /\ \A i \in DOMAIN rail : /\ r[i].user = rail[i].user /\ r[i].group = rail[i].group
                                /\ r[i].live = rail[i].live \/ (r[i].live = live /\ rail[i].group = g)
      /\ RowsOf(g) # {} => First(g) \in RowsOf(g) /\ r[First(g)].live = live
  BY MarkedFacts
<1> HIDE DEF r
<1>2. \A j \in DOMAIN rail : r[j].live => rail[j].live \/ (live /\ rail[j].group = g)
  BY <1>1
<1>3. \A u : OneRow(rail, u) => OneRow(r, u)
  BY <1>1 DEF OneRow
<1>4. ~ live => Thinned(r, rail)
  BY <1>1, <1>2, <1>3 DEF Thinned
<1>5. ASSUME NEW u, ~ live, OneRow(rail, u),
             \A i \in DOMAIN rail : rail[i].group = g <=> rail[i].user = u,
             NEW i \in DOMAIN r, r[i].user = u
      PROVE  ~ r[i].live
  <2>1. i \in RowsOf(g)
    BY <1>1, <1>5 DEF RowsOf
  <2>2. First(g) \in DOMAIN rail /\ rail[First(g)].group = g /\ r[First(g)].live = live
    BY <1>1, <2>1 DEF RowsOf
  <2>3. First(g) = i
    BY <1>1, <1>5, <2>2 DEF OneRow
  <2> QED BY <1>5, <2>2, <2>3
<1> QED BY <1>1, <1>2, <1>3, <1>4, <1>5 DEF r

\* A new row at the end.
LEMMA RowAdded ==
  ASSUME NEW rows \in Seq(RowType), NEW row \in RowType
  PROVE  /\ Append(rows, row) \in Seq(RowType)
         /\ \A j \in DOMAIN Append(rows, row) :
              (j \in DOMAIN rows /\ Append(rows, row)[j] = rows[j]) \/ Append(rows, row)[j] = row
         /\ \A j \in DOMAIN rows : j \in DOMAIN Append(rows, row) /\ Append(rows, row)[j] = rows[j]
         /\ \E j \in DOMAIN Append(rows, row) : Append(rows, row)[j] = row
         /\ \A u : OneRow(rows, u) /\ (u = row.user => NoRow(rows, u)) => OneRow(Append(rows, row), u)
<1> DEFINE n == Len(rows)
           r == Append(rows, row)
<1>1. /\ n \in Nat /\ DOMAIN rows = 1 .. n /\ r \in Seq(RowType) /\ DOMAIN r = 1 .. n + 1
      /\ \A j \in 1 .. n : r[j] = rows[j]
      /\ r[n + 1] = row
  BY SeqFacts
<1> HIDE DEF n, r
<1>2. \A j \in 1 .. n + 1 : j \in 1 .. n \/ j = n + 1
  BY <1>1
<1>3. \A j \in 1 .. n : j \in 1 .. n + 1
  BY <1>1
<1>4. n + 1 \in 1 .. n + 1
  BY <1>1
<1>5. ASSUME NEW u, OneRow(rows, u), u = row.user => NoRow(rows, u) PROVE OneRow(r, u)
  BY <1>1, <1>2, <1>5 DEF OneRow, NoRow
<1> QED BY <1>1, <1>2, <1>3, <1>4, <1>5 DEF r

\* The rows of a restored rail: one for each of its chats.
LEMMA RestoredRows ==
  ASSUME NEW missing \in SUBSET Partners, NEW order \in SetToSeqs(missing),
         NEW kept \in Rail, Own(kept), \A u \in missing : kept[u] # NoGroup,
         NEW rows, NEW s, rows = <<>> \o s, s = [i \in DOMAIN order |-> s[i]],
         \A i \in DOMAIN order : \E b \in BOOLEAN : s[i] = Row(order[i], kept[order[i]], b)
  PROVE  /\ rows \in Seq(RowType)
         /\ \A i \in DOMAIN rows : rows[i].user \in missing /\ rows[i].group = kept[rows[i].user]
         /\ \A u \in missing : \E i \in DOMAIN rows : rows[i].user = u
         /\ \A u : OneRow(rows, u)
<1> DEFINE n == Cardinality(missing)
<1>1. IsFiniteSet(missing) /\ n \in Nat
  <2>1. missing \in SUBSET Users
    BY TabFacts
  <2>2. IsFiniteSet(missing)
    BY <2>1, TabFacts, FS_Subset
  <2> QED BY <2>2, FS_CardinalityType
<1>2. order \in [1 .. n -> missing] /\ \A i, j \in 1 .. n : i # j => order[i] # order[j]
  BY DEF SetToSeqs
<1>3. order \in Surjection(1 .. n, missing)
  <2>1. order \in Injection(1 .. n, missing)
    BY <1>2 DEF Injection, IsInjective
  <2>2. Cardinality(1 .. n) = n
    BY <1>1, FS_Interval
  <2> QED BY <1>1, <2>1, <2>2, FS_Injection
<1>4. \A u \in missing : \E i \in 1 .. n : order[i] = u
  BY <1>3 DEF Surjection
<1> HIDE DEF n
<1>5. DOMAIN order = 1 .. n
  BY <1>2
<1>6. ASSUME NEW i \in 1 .. n
      PROVE  /\ s[i] \in RowType /\ s[i].user = order[i] /\ s[i].group = kept[order[i]]
             /\ order[i] \in missing
  <2>1. order[i] \in missing
    BY <1>2
  <2>2. order[i] \in Partners /\ order[i] \in Users /\ kept[order[i]] \in Groups
    BY <2>1, TabFacts DEF Own, Chatted
  <2>4. PICK b \in BOOLEAN : s[i] = [user |-> order[i], group |-> kept[order[i]], live |-> b]
    BY <1>5 DEF Row
  <2>5. s[i] \in RowType
    BY <2>2, <2>4 DEF RowType
  <2> QED BY <2>1, <2>4, <2>5
<1>7. s \in Seq(RowType) /\ DOMAIN s = 1 .. n
  <2>1. s \in [1 .. n -> RowType]
    <3>1. DOMAIN s = 1 .. n /\ s = [i \in 1 .. n |-> s[i]]
      BY <1>5
    <3> QED BY <1>6, <3>1
  <2> QED BY <1>1, <2>1
<1>8. <<>> \o s = s /\ rows = <<>> \o s
  BY <1>7, ConcatEmptySeq
<1>9. \A u : OneRow(s, u)
  BY <1>2, <1>6, <1>7 DEF OneRow
<1>10. \A u \in missing : \E i \in DOMAIN s : s[i].user = u
  BY <1>4, <1>6, <1>7
<1>11. \A i \in DOMAIN s : s[i].user \in missing /\ s[i].group = kept[s[i].user]
  BY <1>6, <1>7
<1> QED BY <1>7, <1>8, <1>9, <1>10, <1>11

\* Marking a row offline thins the rail.
LEMMA MarkedOffline ==
  ASSUME rail \in Seq(RowType), NEW g
  PROVE  /\ Thinned(Marked(g, FALSE), rail)
         /\ \A u : /\ OneRow(rail, u)
                   /\ \A i \in DOMAIN rail : rail[i].group = g <=> rail[i].user = u
                   => \A i \in DOMAIN Marked(g, FALSE) :
                        Marked(g, FALSE)[i].user = u => ~ Marked(g, FALSE)[i].live
<1>1. PICK off \in BOOLEAN : off = FALSE
  OBVIOUS
<1>2. /\ Thinned(Marked(g, off), rail)
      /\ \A u : /\ OneRow(rail, u)
                /\ \A i \in DOMAIN rail : rail[i].group = g <=> rail[i].user = u
                => \A i \in DOMAIN Marked(g, off) : Marked(g, off)[i].user = u => ~ Marked(g, off)[i].live
  BY <1>1, MarkedThins
<1> QED BY <1>1, <1>2

\* Marking a row online leaves the rows of other groups alone.
LEMMA MarkedOnline ==
  ASSUME rail \in Seq(RowType), NEW g
  PROVE  /\ \A u : OneRow(rail, u) => OneRow(Marked(g, TRUE), u)
         /\ \A j \in DOMAIN Marked(g, TRUE) :
              /\ j \in DOMAIN rail /\ Marked(g, TRUE)[j].user = rail[j].user
              /\ Marked(g, TRUE)[j].group = rail[j].group
              /\ Marked(g, TRUE)[j].live => rail[j].live \/ rail[j].group = g
<1>1. PICK on \in BOOLEAN : on = TRUE
  OBVIOUS
<1>2. /\ \A u : OneRow(rail, u) => OneRow(Marked(g, on), u)
      /\ \A j \in DOMAIN Marked(g, on) :
           /\ j \in DOMAIN rail /\ Marked(g, on)[j].user = rail[j].user
           /\ Marked(g, on)[j].group = rail[j].group
           /\ Marked(g, on)[j].live => rail[j].live \/ (on /\ rail[j].group = g)
  BY MarkedThins
<1> QED BY <1>1, <1>2

\* Frames the page has still to take, when one is taken or told.
LEMMA FramesTaken ==
  ASSUME toBrowser \in Seq(Frame \cup RestoredFrame), RestoredFirst, NEW type, Takes(type)
  PROVE  RestoredFirst' /\ ~ Restoring'
<1>1. /\ toBrowser # <<>> /\ toBrowser' = Tail(toBrowser)
  BY DEF Takes
<1>2. \A i \in DOMAIN toBrowser' : i + 1 \in DOMAIN toBrowser /\ toBrowser'[i] = toBrowser[i + 1]
                             /\ i \in Nat /\ i + 1 # 1
  BY <1>1, SeqFacts
<1>3. \A i \in DOMAIN toBrowser' : toBrowser'[i].type # "restored"
  BY <1>2 DEF RestoredFirst
<1> QED BY <1>3 DEF RestoredFirst, Restoring, Range

\* The consumer sends the page a frame, or the restored rail.
LEMMA FramesTold ==
  ASSUME toBrowser \in Seq(Frame \cup RestoredFrame), RestoredFirst, NEW f \in Frame \cup RestoredFrame,
         Tells(f), f.type # "restored" \/ toBrowser = <<>>
  PROVE  RestoredFirst' /\ (Restoring' => Restoring \/ f.type = "restored")
<1>1. toBrowser' = Append(toBrowser, f)
  BY DEF Tells
<1>2. \A i \in DOMAIN toBrowser' : \/ i \in DOMAIN toBrowser /\ toBrowser'[i] = toBrowser[i]
                                   \/ i = Len(toBrowser) + 1 /\ toBrowser'[i] = f
  BY <1>1, SeqFacts
<1>3. toBrowser = <<>> => Len(toBrowser) + 1 = 1
  OBVIOUS
<1> QED BY <1>2, <1>3 DEF RestoredFirst, Restoring, Range

\* Frames that stand still, or are gone.
LEMMA FramesSame ==
  /\ toBrowser' = toBrowser => /\ Range(toBrowser)' = Range(toBrowser)
                               /\ (RestoredFirst' <=> RestoredFirst) /\ (Restoring' <=> Restoring)
  /\ toBrowser = <<>> => Range(toBrowser) = {} /\ RestoredFirst /\ ~ Restoring
BY DEF RestoredFirst, Restoring, Range

\* A row of a group of u is a row of u.
LEMMA RowOwner ==
  ASSUME PageIInv, NEW u \in Partners, NEW g \in Ours(u), NEW i \in DOMAIN rail, rail[i].group = g
  PROVE  rail[i].user = u
BY TabFacts DEF PageIInv, Belonging, Chatted

\* What a click does to the rail: the user gets a row of the partner, unless
\* there is one.
LEMMA ClicksRows ==
  ASSUME PageIInv, NEW u \in Partners, Clicks(u)
  PROVE  /\ KnownGroup(u) \in Ours(u) /\ KnownGroup(u) \in Groups /\ KnownGroup(u) # NoGroup
         /\ mapping' \in Rail /\ mapping'[u] = KnownGroup(u)
         /\ \A v \in Users \ {u} : mapping'[v] = mapping[v]
         /\ rail' \in Seq(RowType)
         /\ \A j \in DOMAIN rail' : \/ j \in DOMAIN rail /\ rail'[j] = rail[j]
                                    \/ rail'[j] = Row(u, KnownGroup(u), TRUE)
         /\ \A j \in DOMAIN rail : j \in DOMAIN rail' /\ rail'[j] = rail[j]
         /\ Shows(u)'
         /\ \A v : OneRow(rail, v) /\ (v = u => NoRow(rail, v)) => OneRow(rail', v)
         /\ mapping[u] # NoGroup /\ RowsOf(KnownGroup(u)) # {} => rail' = rail
<1> DEFINE g == KnownGroup(u)
           row == Row(u, g, TRUE)
           more == Append(rail, row)
<1> USE DEF PageIInv
<1>1. /\ g \in Ours(u) /\ g \in Groups /\ g # NoGroup /\ u \in Users
      /\ mapping \in Rail /\ mapping' = [mapping EXCEPT ![u] = g]
      /\ rail \in Seq(RowType) /\ row \in RowType
  BY TabFacts DEF Clicks, KnownGroup, Belonging, Own, Chatted, RailTypeOK, Row, RowType
<1>2. mapping' \in Rail /\ mapping'[u] = g /\ \A v \in Users \ {u} : mapping'[v] = mapping[v]
  BY <1>1 DEF Rail
<1>3. CASE mapping[u] # NoGroup /\ RowsOf(g) # {}
  <2>1. rail' = rail
    BY <1>3 DEF Clicks
  <2>2. PICK i \in DOMAIN rail : rail[i].group = g
    BY <1>3 DEF RowsOf
  <2>3. rail[i].user = u
    BY <1>1, <2>2, RowOwner
  <2> QED BY <1>1, <1>2, <2>1, <2>3 DEF Shows
<1>4. CASE ~ (mapping[u] # NoGroup /\ RowsOf(g) # {})
  <2>1. rail' = more
    BY <1>4 DEF Clicks
  <2>2. row.user = u
    BY DEF Row
  <2>3. row \in RowType /\ rail \in Seq(RowType)
    BY <1>1
  <2> HIDE DEF row
  <2>4. /\ more \in Seq(RowType)
        /\ \A j \in DOMAIN more : (j \in DOMAIN rail /\ more[j] = rail[j]) \/ more[j] = row
        /\ \A j \in DOMAIN rail : j \in DOMAIN more /\ more[j] = rail[j]
        /\ \E j \in DOMAIN more : more[j] = row
        /\ \A v : OneRow(rail, v) /\ (v = row.user => NoRow(rail, v)) => OneRow(more, v)
    BY <2>3, RowAdded
  <2> HIDE DEF more
  <2>5. Shows(u)'
    BY <2>1, <2>2, <2>4 DEF Shows
  <2> QED BY <1>1, <1>2, <1>4, <2>1, <2>2, <2>4, <2>5 DEF row
<1> QED BY <1>3, <1>4

\* The user asks for a chat.
LEMMA ClicksStep ==
  ASSUME PageIInv, ChatsIInv, ChatTypeOK', NEW u \in Partners, Clicks(u) PROVE PageIInv'
<1> DEFINE g == KnownGroup(u)
<1> USE DEF PageIInv
<1>0. /\ registered[Tab] /\ Sends("invite", u) /\ u \in Users
      /\ UNCHANGED <<chatVars, toBrowser, theirs, silent>>
  BY TabFacts DEF Clicks
<1>1. /\ g \in Ours(u) /\ g \in Groups /\ g # NoGroup
      /\ mapping' \in Rail /\ mapping'[u] = g /\ \A v \in Users \ {u} : mapping'[v] = mapping[v]
      /\ rail' \in Seq(RowType)
      /\ \A j \in DOMAIN rail' : (j \in DOMAIN rail /\ rail'[j] = rail[j]) \/ rail'[j] = Row(u, g, TRUE)
      /\ \A j \in DOMAIN rail : j \in DOMAIN rail' /\ rail'[j] = rail[j]
      /\ Shows(u)'
  BY ClicksRows
<1> HIDE DEF g
<1>4. \A v : v # u => (Shows(v)' <=> Shows(v))
  BY <1>1 DEF Shows, Row
<1>5. /\ toServer' \in Seq(Request) /\ Range(toServer)' = Range(toServer) \cup {Asked("invite", u)}
      /\ \A v : /\ InviteWaits(v)' <=> InviteWaits(v) \/ v = u
                /\ CloseWaits(v)' <=> CloseWaits(v)
                /\ Requested(v)' <=> v = u \/ Requested(v)
  BY <1>0, RequestMade DEF RailTypeOK
<1>6. Range(toBrowser)' = Range(toBrowser) /\ (RestoredFirst' <=> RestoredFirst) /\ (Restoring' <=> Restoring)
  BY <1>0, FramesSame
<1>7. RailTypeOK'
  BY <1>0, <1>1, <1>5 DEF RailTypeOK, Clicks
<1>8. Belonging'
  <2>1. \A i \in DOMAIN rail' : Chatted(rail'[i].user, rail'[i].group)
    BY <1>1 DEF Belonging, Chatted, Row
  <2>2. Own(mapping')
    BY <1>1 DEF Belonging, Own, Chatted
  <2>3. \A q \in Range(toServer)' : q.type # "register" => q.user \in Partners
    BY <1>5 DEF Belonging, Asked
  <2> QED BY <1>0, <1>6, <2>1, <2>2, <2>3 DEF Belonging, chatVars, socketVars
<1>9. Heard'
  BY <1>0, <1>6 DEF Heard, Up, chatVars, socketVars
<1>10. PageBegins'
  <2>1. ~ Restoring /\ Up /\ conn[Tab] # "opening"
    BY <1>0 DEF Clicks, Restoring, Range, PageBegins, Up
  <2> QED BY <1>0, <1>5, <1>6, <2>1 DEF PageBegins, Up, chatVars, socketVars
<1>11. Dropped'
  BY <1>0, <1>4, <1>5, <1>6 DEF Dropped, Clicks, chatVars, socketVars
<1>12. Known'
  BY <1>0, <1>1, <1>4, <1>5, <1>6 DEF Known, Counting, Up, Open, Arriving, Clicks, chatVars, socketVars
<1> QED BY <1>7, <1>8, <1>9, <1>10, <1>11, <1>12

\* What closing a row leaves of the rail: the rows of the others, and none of
\* the partner when there was but one.
LEMMA ClosesRows ==
  ASSUME PageIInv, NEW i \in DOMAIN rail, ClosesRow(i)
  PROVE  /\ rail[i].user \in Partners
         /\ mapping' \in Rail /\ mapping'[rail[i].user] = NoGroup
         /\ \A v \in Users \ {rail[i].user} : mapping'[v] = mapping[v]
         /\ rail' \in Seq(RowType) /\ Thinned(rail', rail)
         /\ \A v : v # rail[i].user => (Shows(v)' <=> Shows(v))
         /\ OneRow(rail, rail[i].user) => NoRow(rail', rail[i].user)
<1> DEFINE u == rail[i].user
           g == rail[i].group
           r == RemoveAt(rail, i)
<1> USE DEF PageIInv
<1>1. /\ u \in Partners /\ u \in Users /\ g \in Ours(u) /\ rail \in Seq(RowType)
      /\ mapping \in Rail /\ mapping' = [mapping EXCEPT ![u] = NoGroup]
      /\ rail' = Without(r, g)
  BY TabFacts DEF ClosesRow, Belonging, Chatted, RailTypeOK
<1>2. mapping' \in Rail /\ mapping'[u] = NoGroup /\ \A v \in Users \ {u} : mapping'[v] = mapping[v]
  BY <1>1 DEF Rail
<1>3. /\ r \in Seq(RowType) /\ Thinned(r, rail)
      /\ \A j \in DOMAIN rail \ {i} : \E k \in DOMAIN r : r[k] = rail[j]
      /\ OneRow(rail, u) => NoRow(r, u)
  BY <1>1, RemoveThins
<1>4. \A j \in DOMAIN rail : rail[j].group = g => rail[j].user = u
  BY <1>1, RowOwner
<1> HIDE DEF r, g
<1>5. /\ rail' \in Seq(RowType) /\ Thinned(rail', r)
      /\ \A j \in DOMAIN r : r[j].group # g => \E k \in DOMAIN rail' : rail'[k] = r[j]
  BY <1>1, <1>3, WithoutThins
<1>6. Thinned(rail', rail)
  BY <1>3, <1>5, ThinnedTwice
<1>7. \A v : v # u => (Shows(v)' <=> Shows(v))
  <2>1. ASSUME NEW v, v # u, Shows(v) PROVE Shows(v)'
    <3>1. PICK j \in DOMAIN rail : rail[j].user = v
      BY <2>1 DEF Shows
    <3>2. PICK k \in DOMAIN r : r[k] = rail[j]
      BY <1>3, <2>1, <3>1
    <3>3. r[k].group # g
      BY <1>4, <2>1, <3>1, <3>2
    <3> QED BY <1>5, <3>1, <3>2, <3>3 DEF Shows
  <2>2. ASSUME NEW v, Shows(v)' PROVE Shows(v)
    BY <1>6, <2>2 DEF Shows, Thinned
  <2> QED BY <2>1, <2>2
<1>8. OneRow(rail, u) => NoRow(rail', u)
  BY <1>3, <1>5 DEF NoRow, Thinned
<1> QED BY <1>1, <1>2, <1>5, <1>6, <1>7, <1>8

\* The user closes a row.
LEMMA ClosesRowStep ==
  ASSUME PageIInv, ChatsIInv, ChatTypeOK', NEW i \in DOMAIN rail, NEW u, rail[i].user = u,
         ClosesRow(i)
  PROVE  PageIInv'
<1> USE DEF PageIInv
<1>0. /\ Up /\ Sends("close", u) /\ u \in Users
      /\ UNCHANGED <<chatVars, toBrowser, theirs, silent, crossed>>
      /\ dismissed' = IF Shows(u)' THEN dismissed ELSE dismissed \cup {u}
      /\ Shows(u)
  <2>1. u \in Users
    BY TabFacts, ClosesRows
  <2>2. Up /\ Sends("close", u) /\ UNCHANGED <<chatVars, toBrowser, theirs, silent, crossed>>
    BY DEF ClosesRow
  <2>3. dismissed' = IF Shows(u)' THEN dismissed ELSE dismissed \cup {u}
    BY DEF ClosesRow, Shows
  <2> QED BY <2>1, <2>2, <2>3 DEF Shows
<1>1. /\ u \in Partners
      /\ mapping' \in Rail /\ mapping'[u] = NoGroup /\ \A v \in Users \ {u} : mapping'[v] = mapping[v]
      /\ rail' \in Seq(RowType) /\ Thinned(rail', rail)
      /\ \A v : v # u => (Shows(v)' <=> Shows(v))
  BY ClosesRows
<1>2. ~ Blank
  BY DEF Blank
<1>5. /\ toServer' \in Seq(Request) /\ Range(toServer)' = Range(toServer) \cup {Asked("close", u)}
      /\ \A v : /\ InviteWaits(v)' <=> InviteWaits(v)
                /\ CloseWaits(v)' <=> CloseWaits(v) \/ v = u
                /\ Requested(v)' <=> v # u /\ Requested(v)
  BY <1>0, RequestMade DEF RailTypeOK
<1>6. Range(toBrowser)' = Range(toBrowser) /\ (RestoredFirst' <=> RestoredFirst) /\ (Restoring' <=> Restoring)
  BY <1>0, FramesSame
<1>7. RailTypeOK'
  BY <1>0, <1>1, <1>5 DEF RailTypeOK
<1>8. Belonging'
  <2>1. \A j \in DOMAIN rail' : Chatted(rail'[j].user, rail'[j].group)
    BY <1>1 DEF Belonging, Thinned
  <2>2. Own(mapping')
    BY <1>1 DEF Belonging, Own
  <2>3. \A q \in Range(toServer)' : q.type # "register" => q.user \in Partners
    BY <1>1, <1>5 DEF Belonging, Asked
  <2> QED BY <1>0, <1>6, <2>1, <2>2, <2>3 DEF Belonging, chatVars, socketVars
<1>9. Heard'
  BY <1>0, <1>6 DEF Heard, Up, chatVars, socketVars
<1>10. PageBegins'
  BY <1>0, <1>2, <1>5, <1>6 DEF PageBegins, Up, chatVars, socketVars
<1>11. Dropped'
  <2>1. ~ Restoring
    BY <1>2 DEF PageBegins
  <2>2. u \notin dismissed
    BY <1>0 DEF Dropped
  <2>3. \A v \in dismissed' : (v # u /\ v \in dismissed) \/ (v = u /\ ~ Shows(u)')
    BY <1>0, <2>2
  <2>4. \A v \in dismissed' : ~ Shows(v)' /\ ~ Requested(v)'
    BY <1>1, <1>5, <2>3 DEF Dropped
  <2>5. ASSUME NEW v \in dismissed'
        PROVE  /\ stored[me][v]' # NoGroup => CloseWaits(v)'
               /\ conn[Tab]' = "inviting" /\ asking[Tab]' = v => CloseWaits(v)'
    BY <1>0, <1>5, <2>3 DEF Dropped, chatVars, socketVars
  <2> QED BY <1>6, <2>1, <2>4, <2>5 DEF Dropped, Restoring
<1>12. Known'
  BY <1>0, <1>1, <1>5, <1>6 DEF Known, Counting, Up, Open, Arriving, chatVars, socketVars
<1> QED BY <1>7, <1>8, <1>9, <1>10, <1>11, <1>12

\* A page is loaded.
LEMMA LoadsStep ==
  ASSUME PageIInv, ChatsIInv, ChatTypeOK', Loads PROVE PageIInv'
<1> USE DEF PageIInv
<1>0. /\ conn[Tab] = "off" /\ conn'[Tab] = "opening" /\ me \in Users
      /\ UNCHANGED <<registered, chats, closed, groups, inbox, asking, stored>>
      /\ UNCHANGED <<pageVars, toBrowser, theirs, ghosts>>
      /\ toServer' = <<Asked("register", me)>>
  BY TabFacts DEF Loads, Opens, ChatTypeOK, ChatsIInv, Asked
<1>1. Blank /\ toServer = <<>> /\ toBrowser = <<>> /\ ~ Up /\ ~ registered[Tab]
  BY <1>0 DEF PageBegins, Up
<1>2. toServer' \in Seq(Request) /\ Range(toServer)' = {Asked("register", me)}
  <2>1. Asked("register", me) \in Request
    BY <1>0 DEF Asked, Request
  <2>2. toServer' = Append(toServer, Asked("register", me)) /\ toServer \in Seq(Request)
    BY <1>0, <1>1
  <2>3. Range(toServer') = Range(toServer) \cup {Asked("register", me)} /\ Range(toServer) = {}
    BY <1>1, <2>1, <2>2, RangeFacts
  <2> QED BY <2>1, <2>2, <2>3, SeqFacts DEF Range
<1>3. \A v : /\ ~ InviteWaits(v) /\ ~ CloseWaits(v) /\ ~ Requested(v)
             /\ ~ InviteWaits(v)' /\ ~ CloseWaits(v)' /\ ~ Requested(v)'
  <2>1. \A v : ~ InviteWaits(v)' /\ ~ CloseWaits(v)'
    BY <1>2 DEF InviteWaits, CloseWaits, Asked
  <2>2. \A v : Requested(v)' => InviteWaits(v)'
    BY DEF Requested, InviteWaits, Range
  <2> QED BY <1>1, <2>1, <2>2, RequestsFew
<1>4. /\ Range(toBrowser)' = Range(toBrowser) /\ RestoredFirst' /\ ~ Restoring'
      /\ Range(toBrowser) = {}
  BY <1>0, <1>1, FramesSame
<1>5. RailTypeOK'
  BY <1>0, <1>2 DEF RailTypeOK, pageVars, ghosts
<1>6. Belonging'
  BY <1>0, <1>2, <1>4 DEF Belonging, Asked, pageVars
<1>7. Heard'
  BY <1>4 DEF Heard
<1>8. PageBegins'
  <2>1. Blank'
    BY <1>0, <1>1, <1>2 DEF Blank, Asked, pageVars, ghosts
  <2> QED BY <1>0, <1>1, <1>3, <1>4, <2>1 DEF PageBegins, Up
<1>9. Dropped'
  BY <1>0, <1>3, <1>4 DEF Dropped, Shows, pageVars, ghosts
<1>10. Known'
  <2>1. \A v \in Users : v \notin Open(Tab)' /\ asking'[Tab] # v
    BY <1>0, TabFacts, RailFacts DEF Open, ChatsIInv, Fresh, Belonging
  <2> QED BY <1>3, <2>1 DEF Known, Counting
<1> QED BY <1>5, <1>6, <1>7, <1>8, <1>9, <1>10

\* What taking a frame leaves, whatever it is.
LEMMA Taken ==
  ASSUME PageIInv, NEW type, Takes(type)
  PROVE  /\ Up /\ conn[Tab] # "opening" /\ UNCHANGED <<chatVars, toServer, theirs, silent>>
         /\ toBrowser' \in Seq(Frame \cup RestoredFrame)
         /\ Range(toBrowser) = Range(toBrowser)' \cup {Head(toBrowser)}
         /\ Head(toBrowser) \in Range(toBrowser) /\ Head(toBrowser).type = type
         /\ IF type = "restored" THEN Head(toBrowser) \in RestoredFrame ELSE Head(toBrowser) \in Frame
         /\ RestoredFirst' /\ ~ Restoring'
         /\ \A v : /\ InviteWaits(v)' <=> InviteWaits(v)
                   /\ CloseWaits(v)' <=> CloseWaits(v)
                   /\ Requested(v)' <=> Requested(v)
<1> USE DEF PageIInv
<1>1. Up /\ UNCHANGED <<chatVars, toServer, theirs, silent>> /\ toBrowser # <<>>
  BY DEF Takes
<1>2. conn[Tab] # "opening"
  BY <1>1 DEF PageBegins
<1>3. /\ toBrowser' \in Seq(Frame \cup RestoredFrame)
      /\ Range(toBrowser) = Range(toBrowser)' \cup {Head(toBrowser)}
      /\ Head(toBrowser) \in Range(toBrowser) /\ Head(toBrowser).type = type
      /\ IF type = "restored" THEN Head(toBrowser) \in RestoredFrame ELSE Head(toBrowser) \in Frame
  BY FrameFacts DEF RailTypeOK
<1>4. RestoredFirst' /\ ~ Restoring'
  BY FramesTaken DEF RailTypeOK, PageBegins
<1> QED BY <1>1, <1>2, <1>3, <1>4, RequestsSame

\* What remains to be shown of the page when it takes a frame: its rows.
LEMMA TakesStep ==
  ASSUME PageIInv, ChatTypeOK', NEW type, Takes(type),
         rail' \in Seq(RowType), mapping' \in Rail, Own(mapping'),
         \A i \in DOMAIN rail' : Chatted(rail'[i].user, rail'[i].group),
         dismissed' \subseteq dismissed, \A u \in dismissed' : ~ Shows(u)',
         crossed' \subseteq Partners
  PROVE  RailTypeOK' /\ Belonging' /\ Heard' /\ PageBegins' /\ Dropped'
<1> USE DEF PageIInv
<1>1. /\ Up /\ conn[Tab] # "opening" /\ UNCHANGED <<chatVars, toServer, theirs, silent>>
      /\ toBrowser' \in Seq(Frame \cup RestoredFrame)
      /\ Range(toBrowser) = Range(toBrowser)' \cup {Head(toBrowser)}
      /\ RestoredFirst' /\ ~ Restoring'
      /\ \A v : /\ InviteWaits(v)' <=> InviteWaits(v)
                /\ CloseWaits(v)' <=> CloseWaits(v)
                /\ Requested(v)' <=> Requested(v)
  BY Taken
<1>2. Range(toServer)' = Range(toServer)
  BY <1>1, RequestsSame
<1>3. RailTypeOK'
  BY <1>1 DEF RailTypeOK
<1>4. Belonging'
  BY <1>1, <1>2 DEF Belonging, chatVars, socketVars
<1>5. Heard'
  BY <1>1 DEF Heard, chatVars, socketVars
<1>6. PageBegins'
  BY <1>1 DEF PageBegins, Up, chatVars, socketVars
<1>7. Dropped'
  BY <1>1 DEF Dropped, Restoring, chatVars, socketVars
<1> QED BY <1>3, <1>4, <1>5, <1>6, <1>7

\* The rows of a restored rail: one for each of its chats, on a page that had none.
LEMMA RestoredRail ==
  ASSUME PageIInv, ShowsRestored
  PROVE  /\ Blank /\ mapping' = Head(toBrowser).chats /\ mapping' \in Rail /\ Own(mapping')
         /\ rail' \in Seq(RowType)
         /\ \A i \in DOMAIN rail' : /\ mapping'[rail'[i].user] = rail'[i].group
                                    /\ rail'[i].user \in Partners /\ rail'[i].group # NoGroup
         /\ \A u \in Users : mapping'[u] # NoGroup => Shows(u)'
         /\ \A u : OneRow(rail', u)
<1> DEFINE frame == Head(toBrowser)
           missing == {u \in Partners : frame.chats[u] # NoGroup /\ RowsOf(frame.chats[u]) = {}}
<1> USE DEF PageIInv
<1>1. /\ frame \in Range(toBrowser) /\ frame.type = "restored" /\ frame \in RestoredFrame
  BY Taken DEF ShowsRestored
<1>2. Blank /\ rail = <<>> /\ frame.chats \in Rail /\ Own(frame.chats)
  BY <1>1 DEF PageBegins, Restoring, Blank, Belonging, RestoredFrame
<1>3. mapping' = frame.chats
  BY DEF ShowsRestored
<1>4. PICK order \in SetToSeqs(missing) :
        rail' = rail \o [i \in DOMAIN order |->
                   Row(order[i], frame.chats[order[i]], order[i] \in frame.online)]
  BY DEF ShowsRestored
<1>5. missing \in SUBSET Partners /\ \A u \in missing : frame.chats[u] # NoGroup
  OBVIOUS
<1>6. \A u \in Users : frame.chats[u] # NoGroup => u \in missing
  BY <1>2 DEF Own, Chatted, RowsOf
<1> HIDE DEF frame, missing
<1>7. /\ rail' \in Seq(RowType)
      /\ \A i \in DOMAIN rail' : rail'[i].user \in missing /\ rail'[i].group = frame.chats[rail'[i].user]
      /\ \A u \in missing : \E i \in DOMAIN rail' : rail'[i].user = u
      /\ \A u : OneRow(rail', u)
  <2> DEFINE kept == frame.chats
             there == frame.online
             rows == rail'
             s == [i \in DOMAIN order |-> Row(order[i], kept[order[i]], order[i] \in there)]
  <2>1. /\ rows = <<>> \o s /\ s = [i \in DOMAIN order |-> s[i]]
        /\ kept \in Rail /\ Own(kept) /\ \A u \in missing : kept[u] # NoGroup
    BY <1>2, <1>4, <1>5
  <2>2. ASSUME NEW i \in DOMAIN order
        PROVE  \E b \in BOOLEAN : s[i] = Row(order[i], kept[order[i]], b)
    <3>1. (order[i] \in there) = TRUE \/ (order[i] \in there) = FALSE
      OBVIOUS
    <3> QED BY <3>1 DEF Row
  <2> HIDE DEF kept, there, rows, s
  <2>3. /\ rows \in Seq(RowType)
        /\ \A i \in DOMAIN rows : rows[i].user \in missing /\ rows[i].group = kept[rows[i].user]
        /\ \A u \in missing : \E i \in DOMAIN rows : rows[i].user = u
        /\ \A u : OneRow(rows, u)
    BY <1>5, <2>1, <2>2, RestoredRows
  <2> QED BY <2>3 DEF kept, rows
<1>8. \A u \in missing : Shows(u)'
  BY <1>7 DEF Shows
<1> QED BY <1>2, <1>3, <1>5, <1>6, <1>7, <1>8 DEF frame

\* The page draws the restored rail.
LEMMA ShowsRestoredStep ==
  ASSUME PageIInv, ChatTypeOK', ShowsRestored PROVE PageIInv'
<1> USE DEF PageIInv
<1>0. Takes("restored") /\ UNCHANGED <<dismissed, crossed>>
  BY DEF ShowsRestored
<1>1. /\ Up /\ UNCHANGED <<chatVars, toServer, theirs, silent>>
      /\ Range(toBrowser) = Range(toBrowser)' \cup {Head(toBrowser)}
      /\ Head(toBrowser) \in Range(toBrowser) /\ Head(toBrowser).type = "restored"
      /\ \A v : /\ CloseWaits(v)' <=> CloseWaits(v)
                /\ Requested(v)' <=> Requested(v)
  BY <1>0, Taken
<1>2. /\ Blank /\ mapping' = Head(toBrowser).chats /\ mapping' \in Rail /\ Own(mapping')
      /\ rail' \in Seq(RowType)
      /\ \A i \in DOMAIN rail' : /\ mapping'[rail'[i].user] = rail'[i].group
                                 /\ rail'[i].user \in Partners /\ rail'[i].group # NoGroup
      /\ \A u \in Users : mapping'[u] # NoGroup => Shows(u)'
  BY RestoredRail
<1>3. \A i \in DOMAIN rail' : Chatted(rail'[i].user, rail'[i].group)
  BY <1>2, TabFacts DEF Own
<1>4. \A u \in dismissed' : ~ Shows(u)'
  BY <1>0, <1>1, <1>2 DEF Dropped, Shows
<1>5. RailTypeOK' /\ Belonging' /\ Heard' /\ PageBegins' /\ Dropped'
  BY <1>0, <1>2, <1>3, <1>4, TakesStep DEF RailTypeOK
<1>6. Known'
  <2>1. \A u \in Users : mapping[u] = NoGroup
    BY <1>2, RailFacts DEF Blank
  <2>2. \A u \in Users \ crossed' : Counting(u)' => Counting(u)
    BY <1>0, <1>1 DEF Counting, Open, chatVars, socketVars
  <2>3. ASSUME NEW u \in Users \ crossed', Counting(u)'
        PROVE  \/ mapping'[u] # NoGroup /\ Shows(u)'
               \/ \E f \in Range(toBrowser)' : Arriving(u, f)
    <3>1. PICK f \in Range(toBrowser) : Arriving(u, f)
      BY <1>0, <1>1, <2>1, <2>2, <2>3 DEF Known
    <3>2. f = Head(toBrowser) => mapping'[u] # NoGroup
      BY <1>1, <1>2, <3>1 DEF Arriving
    <3> QED BY <1>1, <1>2, <3>1, <3>2
  <2> QED BY <2>3 DEF Known
<1> QED BY <1>5, <1>6

\* A frame from a group of the user and a partner.
LEMMA HeadFrame ==
  ASSUME PageIInv, NEW type \in {"invite", "online", "message", "offline"}, Takes(type)
  PROVE  /\ Head(toBrowser).user \in Partners /\ Head(toBrowser).user \in Users
         /\ Head(toBrowser).group \in Ours(Head(toBrowser).user)
         /\ Head(toBrowser).group \in Groups /\ Head(toBrowser).group # NoGroup
         /\ type # "offline" => Head(toBrowser).group \in groups[Tab]
         /\ type = "invite" => Head(toBrowser).user \in silent
<1>1. Head(toBrowser) \in Range(toBrowser) /\ Head(toBrowser).type = type /\ Up
  BY Taken
<1>2. Head(toBrowser).user \in Partners /\ Chatted(Head(toBrowser).user, Head(toBrowser).group)
  BY <1>1 DEF PageIInv, Belonging
<1>3. /\ type # "offline" => Head(toBrowser).group \in groups[Tab]
      /\ type = "invite" => Head(toBrowser).user \in silent
  BY <1>1 DEF PageIInv, Heard, PageBegins
<1> QED BY <1>2, <1>3, TabFacts DEF Chatted

\* Rows that keep their users and groups.
LEMMA MarksStep ==
  ASSUME PageIInv, ChatTypeOK', NEW type \in {"invite", "online", "offline"}, Takes(type),
         rail' = rail \/ (\E live \in BOOLEAN : rail' = Marked(Head(toBrowser).group, live)),
         \/ mapping' = [mapping EXCEPT ![Head(toBrowser).user] = Head(toBrowser).group]
         \/ type = "offline" /\ mapping' = mapping,
         UNCHANGED <<dismissed, crossed>>
  PROVE  PageIInv'
<1> DEFINE u == Head(toBrowser).user
           g == Head(toBrowser).group
<1> USE DEF PageIInv
<1>0. /\ u \in Partners /\ u \in Users /\ g \in Ours(u) /\ g \in Groups /\ g # NoGroup
      /\ type = "invite" => u \in silent
  BY HeadFrame
<1>1. /\ Up /\ UNCHANGED <<chatVars, toServer, theirs, silent>>
      /\ Range(toBrowser) = Range(toBrowser)' \cup {Head(toBrowser)}
      /\ Head(toBrowser) \in Range(toBrowser) /\ Head(toBrowser).type = type
      /\ \A v : /\ CloseWaits(v)' <=> CloseWaits(v)
                /\ Requested(v)' <=> Requested(v)
  BY Taken
<1> HIDE DEF u, g
<1>2. /\ mapping' \in Rail
      /\ \/ mapping' = mapping /\ type = "offline"
         \/ mapping'[u] = g /\ \A v \in Users \ {u} : mapping'[v] = mapping[v]
  BY <1>0 DEF u, g, RailTypeOK, Rail
<1>3. /\ rail' \in Seq(RowType) /\ DOMAIN rail' = DOMAIN rail
      /\ \A i \in DOMAIN rail : rail'[i].user = rail[i].user /\ rail'[i].group = rail[i].group
  <2>1. CASE rail' = rail
    BY <2>1 DEF RailTypeOK
  <2>2. ASSUME NEW live \in BOOLEAN, rail' = Marked(g, live)
        PROVE  /\ rail' \in Seq(RowType) /\ DOMAIN rail' = DOMAIN rail
               /\ \A i \in DOMAIN rail : rail'[i].user = rail[i].user /\ rail'[i].group = rail[i].group
    BY <2>2, MarkedFacts DEF RailTypeOK
  <2> QED BY <2>1, <2>2 DEF g
<1>4. \A v : Shows(v)' <=> Shows(v)
  BY <1>3 DEF Shows
<1>5. Own(mapping') /\ \A i \in DOMAIN rail' : Chatted(rail'[i].user, rail'[i].group)
  BY <1>0, <1>2, <1>3 DEF Own, Belonging, Chatted
<1>6. RailTypeOK' /\ Belonging' /\ Heard' /\ PageBegins' /\ Dropped'
  <2>1. \A v \in dismissed' : ~ Shows(v)'
    BY <1>4 DEF Dropped
  <2>2. crossed' \subseteq Partners /\ dismissed' \subseteq dismissed
    BY DEF RailTypeOK
  <2> QED BY <1>2, <1>3, <1>5, <2>1, <2>2, TakesStep
<1>7. Known'
  <2>1. \A v \in Users \ crossed' : Counting(v)' => Counting(v)
    BY <1>1 DEF Counting, Open, chatVars, socketVars
  <2>2. ASSUME NEW v \in Users \ crossed', Counting(v)
        PROVE  \/ mapping'[v] # NoGroup /\ (Shows(v)' \/ v \in silent')
               \/ \E f \in Range(toBrowser)' : Arriving(v, f)
    <3>1. CASE mapping[v] # NoGroup /\ (Shows(v) \/ v \in silent)
      BY <1>0, <1>1, <1>2, <1>4, <3>1
    <3>2. ASSUME NEW f \in Range(toBrowser), Arriving(v, f)
          PROVE  \/ mapping'[v] # NoGroup /\ (Shows(v)' \/ v \in silent')
                 \/ \E e \in Range(toBrowser)' : Arriving(v, e)
      <4>1. f = Head(toBrowser) => type = "invite" /\ v = u
        BY <1>1, <3>2 DEF Arriving, u
      <4> QED BY <1>0, <1>1, <1>2, <3>2, <4>1
    <3> QED BY <1>1, <2>2, <3>1, <3>2 DEF Known
  <2> QED BY <2>1, <2>2 DEF Known
<1> QED BY <1>6, <1>7

\* The page takes an invite, and learns of a partner gone or back.
LEMMA ShowsMarkStep ==
  ASSUME PageIInv, ChatTypeOK', ShowsInvite \/ ShowsOffline \/ ShowsOnline PROVE PageIInv'
<1>1. CASE ShowsInvite
  BY <1>1, MarksStep DEF ShowsInvite
<1>2. CASE ShowsOffline
  BY <1>2, MarksStep DEF ShowsOffline
<1>3. CASE ShowsOnline
  BY <1>3, MarksStep DEF ShowsOnline
<1> QED BY <1>1, <1>2, <1>3

\* What a denial leaves of the rail: the rows of the others, and none of the
\* partner when there was but one, of the group of the mapping.
LEMMA DeniedRows ==
  ASSUME PageIInv, ShowsDenied, NEW u, u = Head(toBrowser).user
  PROVE  /\ u \in Partners
         /\ mapping' \in Rail /\ mapping'[u] = NoGroup
         /\ \A v \in Users \ {u} : mapping'[v] = mapping[v]
         /\ rail' \in Seq(RowType) /\ Thinned(rail', rail)
         /\ \A v : v # u => (Shows(v)' <=> Shows(v))
         /\ mapping[u] = NoGroup => rail' = rail
         /\ mapping[u] # NoGroup /\ OneRow(rail, u)
              /\ (\A i \in DOMAIN rail : rail[i].user = u => rail[i].group = mapping[u])
            => NoRow(rail', u)
<1> USE DEF PageIInv
<1>1. /\ u \in Partners /\ u \in Users
  <2>1. Head(toBrowser) \in Range(toBrowser) /\ Head(toBrowser).type = "denied"
    BY Taken DEF ShowsDenied
  <2> QED BY <2>1, TabFacts DEF Belonging
<1>2. mapping' = [mapping EXCEPT ![u] = NoGroup] /\ mapping \in Rail /\ rail \in Seq(RowType)
  BY DEF ShowsDenied, RailTypeOK
<1>3. mapping' \in Rail /\ mapping'[u] = NoGroup /\ \A v \in Users \ {u} : mapping'[v] = mapping[v]
  BY <1>1, <1>2 DEF Rail
<1>4. CASE mapping[u] = NoGroup
  <2>1. rail' = rail
    BY <1>4 DEF ShowsDenied
  <2> QED BY <1>1, <1>2, <1>3, <1>4, <2>1, ThinnedTwice DEF Shows
<1>5. CASE mapping[u] # NoGroup
  <2> DEFINE g == mapping[u]
             rest == Without(rail, g)
  <2>1. g \in Ours(u)
    BY <1>1, <1>5 DEF Belonging, Own, Chatted
  <2>2. \A j \in DOMAIN rail : rail[j].group = g => rail[j].user = u
    BY <1>1, <2>1, RowOwner
  <2>3. /\ rest \in Seq(RowType) /\ Thinned(rest, rail)
        /\ \A j \in DOMAIN rail : rail[j].group # g => \E k \in DOMAIN rest : rest[k] = rail[j]
        /\ OneRow(rail, u) /\ (\A i \in DOMAIN rail : rail[i].group = g <=> rail[i].user = u)
             => NoRow(rest, u)
    <3>1. rest \in Seq(RowType) /\ Thinned(rest, rail)
      BY <1>2, WithoutThins
    <3>2. \A j \in DOMAIN rail : rail[j].group # g => \E k \in DOMAIN rest : rest[k] = rail[j]
      BY <1>2, WithoutThins
    <3>3. OneRow(rail, u) /\ (\A i \in DOMAIN rail : rail[i].group = g <=> rail[i].user = u)
            => NoRow(rest, u)
      BY <1>2, WithoutThins
    <3> QED BY <3>1, <3>2, <3>3
  <2>4. rail' = rest
    BY <1>5 DEF ShowsDenied
  <2> HIDE DEF g, rest
  <2>5. \A v : v # u => (Shows(v)' <=> Shows(v))
    <3>1. ASSUME NEW v, v # u, Shows(v) PROVE Shows(v)'
      BY <2>2, <2>3, <2>4, <3>1 DEF Shows
    <3>2. ASSUME NEW v, Shows(v)' PROVE Shows(v)
      BY <2>3, <2>4, <3>2 DEF Shows, Thinned
    <3> QED BY <3>1, <3>2
  <2> QED BY <1>1, <1>3, <1>5, <2>2, <2>3, <2>4, <2>5 DEF g
<1> QED BY <1>4, <1>5

\* The page takes a denial.
LEMMA ShowsDeniedStep ==
  ASSUME PageIInv, ChatTypeOK', ShowsDenied, NEW u, u = Head(toBrowser).user PROVE PageIInv'
<1> USE DEF PageIInv
<1>0. /\ Takes("denied") /\ UNCHANGED dismissed
      /\ crossed' = IF InviteWaits(u) \/ asking[Tab] = u \/ u \in Open(Tab)
                    THEN crossed \cup {u} ELSE crossed
  BY DEF ShowsDenied, InviteWaits, Asked, Range
<1>1. /\ Up /\ UNCHANGED <<chatVars, toServer, theirs, silent>>
      /\ Range(toBrowser) = Range(toBrowser)' \cup {Head(toBrowser)}
      /\ Head(toBrowser).type = "denied"
      /\ \A v : /\ CloseWaits(v)' <=> CloseWaits(v)
                /\ Requested(v)' <=> Requested(v)
  BY <1>0, Taken
<1>2. /\ u \in Partners
      /\ mapping' \in Rail /\ mapping'[u] = NoGroup /\ \A v \in Users \ {u} : mapping'[v] = mapping[v]
      /\ rail' \in Seq(RowType) /\ Thinned(rail', rail)
      /\ \A v : v # u => (Shows(v)' <=> Shows(v))
  BY DeniedRows
<1>3. Own(mapping') /\ \A i \in DOMAIN rail' : Chatted(rail'[i].user, rail'[i].group)
  BY <1>2 DEF Own, Belonging, Thinned
<1>4. \A v \in dismissed' : ~ Shows(v)'
  BY <1>0, <1>2 DEF Dropped, Shows, Thinned
<1>5. RailTypeOK' /\ Belonging' /\ Heard' /\ PageBegins' /\ Dropped'
  <2>1. crossed' \subseteq Partners /\ dismissed' \subseteq dismissed
    BY <1>0, <1>2 DEF RailTypeOK
  <2> QED BY <1>0, <1>2, <1>3, <1>4, <2>1, TakesStep
<1>6. Known'
  <2>1. \A v \in Users : Counting(v)' => Counting(v)
    BY <1>1 DEF Counting, Open, chatVars, socketVars
  <2>2. u \in crossed' \/ ~ Counting(u)'
    <3>1. Requested(u) => InviteWaits(u)
      BY DEF Requested, InviteWaits, Range
    <3> QED BY <1>0, <1>2, <2>1, <3>1, TabFacts DEF Counting
  <2>3. ASSUME NEW v \in Users \ crossed', Counting(v)'
        PROVE  \/ mapping'[v] # NoGroup /\ (Shows(v)' \/ v \in silent')
               \/ \E f \in Range(toBrowser)' : Arriving(v, f)
    <3>1. v # u /\ v \notin crossed /\ Counting(v)
      BY <1>0, <2>1, <2>2, <2>3
    <3>2. ~ Arriving(v, Head(toBrowser))
      BY <1>1 DEF Arriving
    <3> QED BY <1>1, <1>2, <3>1, <3>2 DEF Known
  <2> QED BY <2>3 DEF Known
<1> QED BY <1>5, <1>6

\* What a message does to the rail: the partner has a row, new or not.
LEMMA MessageRows ==
  ASSUME PageIInv, ShowsMessage, NEW u, u = Head(toBrowser).user
  PROVE  /\ u \in Partners
         /\ mapping' \in Rail
         /\ mapping'[u] = mapping[u] \/ (mapping'[u] \in Ours(u) /\ mapping'[u] # NoGroup)
         /\ \A v \in Users \ {u} : mapping'[v] = mapping[v]
         /\ rail' \in Seq(RowType)
         /\ \A j \in DOMAIN rail' : \/ j \in DOMAIN rail /\ rail'[j] = rail[j]
                                    \/ rail'[j].user = u /\ rail'[j].group \in Ours(u)
         /\ \A j \in DOMAIN rail : j \in DOMAIN rail' /\ rail'[j] = rail[j]
         /\ \A v : v # u /\ OneRow(rail, v) => OneRow(rail', v)
<1> DEFINE g == Head(toBrowser).group
           known == IF mapping[u] # NoGroup THEN mapping[u] ELSE g
           row == Row(u, known, TRUE)
           more == Append(rail, row)
<1> USE DEF PageIInv
<1>1. u \in Partners /\ u \in Users /\ g \in Ours(u) /\ g # NoGroup /\ mapping \in Rail /\ rail \in Seq(RowType)
  BY HeadFrame DEF ShowsMessage, RailTypeOK
<1>2. known \in Ours(u) /\ known \in Groups /\ known # NoGroup
  BY <1>1, TabFacts DEF Belonging, Own, Chatted
<1>3. CASE RowsOf(g) # {}
  <2>1. UNCHANGED <<rail, mapping>>
    BY <1>3 DEF ShowsMessage
  <2> QED BY <1>1, <2>1
<1>4. CASE RowsOf(g) = {}
  <2>1. mapping' = [mapping EXCEPT ![u] = known] /\ rail' = more
    BY <1>4 DEF ShowsMessage
  <2>2. row \in RowType /\ row.user = u /\ row.group = known
    BY <1>1, <1>2 DEF Row, RowType
  <2> HIDE DEF known, row
  <2>3. mapping' \in Rail /\ mapping'[u] = known /\ \A v \in Users \ {u} : mapping'[v] = mapping[v]
    BY <1>1, <1>2, <2>1 DEF Rail
  <2>4. /\ more \in Seq(RowType)
        /\ \A j \in DOMAIN more : (j \in DOMAIN rail /\ more[j] = rail[j]) \/ more[j] = row
        /\ \A j \in DOMAIN rail : j \in DOMAIN more /\ more[j] = rail[j]
        /\ \A v : OneRow(rail, v) /\ (v = row.user => NoRow(rail, v)) => OneRow(more, v)
    BY <1>1, <2>2, RowAdded
  <2> HIDE DEF more
  <2> QED BY <1>1, <1>2, <2>1, <2>2, <2>3, <2>4
<1> QED BY <1>3, <1>4

\* The page takes a message.
LEMMA ShowsMessageStep ==
  ASSUME PageIInv, ChatTypeOK', ShowsMessage, NEW u, u = Head(toBrowser).user PROVE PageIInv'
<1> USE DEF PageIInv
<1>0. Takes("message") /\ dismissed' = dismissed \ {u} /\ UNCHANGED crossed
  BY DEF ShowsMessage
<1>1. /\ Up /\ UNCHANGED <<chatVars, toServer, theirs, silent>>
      /\ Range(toBrowser) = Range(toBrowser)' \cup {Head(toBrowser)}
      /\ Head(toBrowser).type = "message"
      /\ \A v : /\ CloseWaits(v)' <=> CloseWaits(v)
                /\ Requested(v)' <=> Requested(v)
  BY <1>0, Taken
<1>2. /\ u \in Partners
      /\ mapping' \in Rail
      /\ mapping'[u] = mapping[u] \/ (mapping'[u] \in Ours(u) /\ mapping'[u] # NoGroup)
      /\ \A v \in Users \ {u} : mapping'[v] = mapping[v]
      /\ rail' \in Seq(RowType)
      /\ \A j \in DOMAIN rail' : \/ j \in DOMAIN rail /\ rail'[j] = rail[j]
                                 \/ rail'[j].user = u /\ rail'[j].group \in Ours(u)
      /\ \A j \in DOMAIN rail : j \in DOMAIN rail' /\ rail'[j] = rail[j]
  BY MessageRows
<1>3. Own(mapping') /\ \A i \in DOMAIN rail' : Chatted(rail'[i].user, rail'[i].group)
  <2>1. ASSUME NEW v \in Users, mapping'[v] # NoGroup PROVE Chatted(v, mapping'[v])
    BY <1>2, <2>1 DEF Own, Belonging, Chatted
  <2>2. ASSUME NEW i \in DOMAIN rail' PROVE Chatted(rail'[i].user, rail'[i].group)
    BY <1>2, <2>2 DEF Belonging, Chatted
  <2> QED BY <2>1, <2>2 DEF Own
<1>4. \A v \in dismissed' : ~ Shows(v)'
  BY <1>0, <1>2 DEF Dropped, Shows
<1>5. RailTypeOK' /\ Belonging' /\ Heard' /\ PageBegins' /\ Dropped'
  <2>1. crossed' \subseteq Partners /\ dismissed' \subseteq dismissed
    BY <1>0 DEF RailTypeOK
  <2> QED BY <1>0, <1>2, <1>3, <1>4, <2>1, TakesStep
<1>6. Known'
  <2>1. \A v \in Users : Counting(v)' => Counting(v)
    BY <1>1 DEF Counting, Open, chatVars, socketVars
  <2>2. \A v : Shows(v) => Shows(v)'
    BY <1>2 DEF Shows
  <2>3. ASSUME NEW v \in Users \ crossed', Counting(v)'
        PROVE  \/ mapping'[v] # NoGroup /\ (Shows(v)' \/ v \in silent')
               \/ \E f \in Range(toBrowser)' : Arriving(v, f)
    <3>1. v \notin crossed /\ Counting(v)
      BY <1>0, <2>1, <2>3
    <3>2. ~ Arriving(v, Head(toBrowser))
      BY <1>1 DEF Arriving
    <3>3. mapping[v] # NoGroup => mapping'[v] # NoGroup
      BY <1>2
    <3> QED BY <1>1, <2>2, <3>1, <3>2, <3>3 DEF Known
  <2> QED BY <2>3 DEF Known
<1> QED BY <1>5, <1>6

\* What a notice leaves in the tab's channel.
LEMMA TabNotified ==
  ASSUME ChatTypeOK, NEW receivers, NEW notice \in Notice, Notify(receivers, notice)
  PROVE  /\ Range(inbox[Tab])' \subseteq Range(inbox[Tab]) \cup {notice}
         /\ Range(inbox[Tab]) \subseteq Range(inbox[Tab])'
         /\ Tab \notin receivers => inbox'[Tab] = inbox[Tab] /\ Range(inbox[Tab])' = Range(inbox[Tab])
         /\ Tab \in receivers /\ Roomy => notice \in Range(inbox[Tab])'
<1>1. inbox[Tab] \in Seq(Notice) /\ Tab \in Sockets
  BY TabFacts DEF ChatTypeOK
<1>2. inbox'[Tab] = IF Tab \in receivers THEN Queued(Tab, notice) ELSE inbox[Tab]
  BY <1>1 DEF Notify
<1>3. \/ inbox'[Tab] = inbox[Tab] /\ (Tab \notin receivers \/ ~ Roomy)
      \/ inbox'[Tab] = Append(inbox[Tab], notice) /\ Tab \in receivers
  BY <1>2 DEF Queued, Roomy
<1>4. Range(Append(inbox[Tab], notice)) = Range(inbox[Tab]) \cup {notice}
  BY <1>1, RangeFacts
<1>5. Range(inbox[Tab])' = Range(inbox'[Tab])
  BY DEF Range
<1> QED BY <1>2, <1>3, <1>4, <1>5

\* The notice a handler takes from the channel.
LEMMA TabTakes ==
  ASSUME ChatTypeOK, inbox[Tab] # <<>>, inbox' = [inbox EXCEPT ![Tab] = Tail(@)]
  PROVE  /\ Head(inbox[Tab]) \in Notice /\ Head(inbox[Tab]) \in Range(inbox[Tab])
         /\ Range(inbox[Tab]) = Range(inbox[Tab])' \cup {Head(inbox[Tab])}
<1>1. inbox[Tab] \in Seq(Notice) /\ Tab \in Sockets /\ inbox \in [Sockets -> Seq(Notice)]
  BY TabFacts DEF ChatTypeOK
<1>2. inbox'[Tab] = Tail(inbox[Tab])
  BY <1>1
<1>3. /\ Head(inbox[Tab]) \in Notice /\ Head(inbox[Tab]) \in Range(inbox[Tab])
      /\ Range(inbox[Tab]) = Range(Tail(inbox[Tab])) \cup {Head(inbox[Tab])}
  BY <1>1, RangeFacts, HeadNotice
<1>4. Range(inbox[Tab])' = Range(inbox'[Tab])
  BY DEF Range
<1> QED BY <1>2, <1>3, <1>4

\* What a frame told to the page leaves under way.
LEMMA Told ==
  ASSUME PageIInv, NEW f \in Frame, Tells(f)
  PROVE  /\ toBrowser' \in Seq(Frame \cup RestoredFrame)
         /\ Range(toBrowser)' = Range(toBrowser) \cup {f}
         /\ RestoredFirst' /\ (Restoring' => Restoring)
         /\ f.type # "restored"
<1>1. f \in Frame \cup RestoredFrame /\ f.type # "restored"
  BY DEF Frame
<1>2. toBrowser \in Seq(Frame \cup RestoredFrame) /\ RestoredFirst
  BY DEF PageIInv, RailTypeOK, PageBegins
<1> QED BY <1>1, <1>2, FrameFacts, FramesTold

\* The consumer reads the hash of its user.
LEMMA RestoresRailStep ==
  ASSUME PageIInv, ChatsIInv, ChatTypeOK', RestoresRail PROVE PageIInv'
<1> DEFINE f == [type |-> "restored", chats |-> chats'[Tab], online |-> online]
<1> USE DEF PageIInv
<1>0. /\ Restores(Tab) /\ conn[Tab] = "opening" /\ conn'[Tab] = "idle"
      /\ UNCHANGED <<registered, closed, inbox, asking, online>>
      /\ UNCHANGED <<pageVars, toServer, theirs, ghosts>>
      /\ IF chats'[Tab] = EmptyRail THEN UNCHANGED toBrowser ELSE Tells(f)
  BY TabFacts DEF RestoresRail, Restores, ChatsIInv, ChatTypeOK
<1>1. /\ Blank /\ toBrowser = <<>> /\ Up
  BY <1>0 DEF PageBegins, Up
<1>2. /\ \A t \in Users : /\ stored'[me][t] \in {stored[me][t], NoGroup}
                          /\ chats'[Tab][t] = stored'[me][t]
                          /\ chats'[Tab][t] # NoGroup => chats'[Tab][t] \in groups'[Tab]
      /\ chats'[Tab] \in Rail
  BY <1>0, TabFacts, Restored DEF ChatsIInv, ChatTypeOK, me
<1>3. \A t \in Users : chats'[Tab][t] # NoGroup => Chatted(t, chats'[Tab][t])
  <2>1. \A t \in Users : stored[me][t] \in Ours(t) \cup {NoGroup}
    BY TabFacts DEF ChatsIInv, PrivateGroupsArePrivate
  <2>2. stored[me][me] = NoGroup
    BY DEF Belonging
  <2>3. \A t \in Users : t \in Partners \/ t = me
    BY DEF Partners
  <2> QED BY <1>2, <2>1, <2>2, <2>3 DEF Chatted
<1>4. \A v : /\ ~ InviteWaits(v) /\ ~ CloseWaits(v) /\ ~ Requested(v)
             /\ ~ InviteWaits(v)' /\ ~ CloseWaits(v)' /\ ~ Requested(v)'
  BY <1>0, <1>1, RequestsFew, RequestsSame DEF Blank
<1>5. f \in RestoredFrame
  BY <1>2 DEF RestoredFrame, ChatsIInv, ChatTypeOK
<1>6. f.type = "restored" /\ f.chats = chats'[Tab]
  OBVIOUS
<1> HIDE DEF f
<1>7. /\ toBrowser' \in Seq(Frame \cup RestoredFrame) /\ RestoredFirst'
      /\ Range(toBrowser)' \subseteq {f}
      /\ chats'[Tab] # EmptyRail => f \in Range(toBrowser)'
  <2>0. toBrowser \in Seq(Frame \cup RestoredFrame) /\ Range(toBrowser) = {} /\ RestoredFirst
    BY <1>1, FramesSame DEF RailTypeOK
  <2>1. CASE chats'[Tab] = EmptyRail
    BY <1>0, <2>0, <2>1, FramesSame
  <2>2. CASE chats'[Tab] # EmptyRail
    <3>1. Tells(f) /\ f \in Frame \cup RestoredFrame
      BY <1>0, <1>5, <2>2
    <3> QED BY <1>1, <2>0, <3>1, FrameFacts, FramesTold
  <2> QED BY <2>1, <2>2
<1>8. Blank'
  BY <1>0, <1>1, RequestsSame DEF Blank, pageVars, ghosts
<1>9. RailTypeOK'
  BY <1>0, <1>7 DEF RailTypeOK, pageVars, ghosts
<1>10. Belonging'
  <2>1. chats'[Tab][me] = NoGroup /\ stored'[me][me] = NoGroup
    BY <1>2, TabFacts DEF Belonging
  <2>2. \A q \in Range(toServer)' : q.type # "register" => q.user \in Partners
    BY <1>0, RequestsSame DEF Belonging
  <2>3. \A e \in Range(toBrowser)' : e.type = "restored" /\ Own(e.chats)
    BY <1>3, <1>6, <1>7 DEF Own
  <2> QED BY <1>0, <2>1, <2>2, <2>3 DEF Belonging, pageVars
<1>11. Heard'
  BY <1>2, <1>6, <1>7 DEF Heard
<1>12. PageBegins'
  BY <1>0, <1>1, <1>4, <1>6, <1>7, <1>8 DEF PageBegins, Up
<1>13. Dropped'
  <2>1. \A u \in dismissed : u \in Users /\ stored'[me][u] = NoGroup
    BY <1>2, <1>4, TabFacts DEF Dropped, RailTypeOK
  <2>2. dismissed' = dismissed /\ \A u : Shows(u)' <=> Shows(u)
    BY <1>0 DEF pageVars, ghosts, Shows
  <2> QED BY <1>0, <1>2, <1>4, <1>6, <1>7, <2>1, <2>2 DEF Dropped
<1>14. Known'
  <2>1. ASSUME NEW u \in Users, Counting(u)' PROVE \E e \in Range(toBrowser)' : Arriving(u, e)
    <3>1. chats'[Tab][u] # NoGroup
      <4>1. asking'[Tab] # u
        BY <1>0, TabFacts DEF Belonging
      <4> QED BY <1>4, <2>1, <4>1 DEF Counting, Open
    <3>2. chats'[Tab] # EmptyRail
      BY <3>1, RailFacts
    <3> QED BY <1>6, <1>7, <3>1, <3>2 DEF Arriving
  <2> QED BY <2>1 DEF Known
<1> QED BY <1>9, <1>10, <1>11, <1>12, <1>13, <1>14

\* The consumer registers the socket.
LEMMA ReadsRegisterStep ==
  ASSUME PageIInv, ChatsIInv, ChatTypeOK', ReadsRegister PROVE PageIInv'
<1> USE DEF PageIInv
<1>0. /\ conn[Tab] = "idle" /\ registered'[Tab]
      /\ UNCHANGED <<conn, chats, closed, groups, inbox, asking, stored, online>>
      /\ UNCHANGED <<pageVars, theirs, toBrowser, ghosts>>
      /\ Reads("register", me) /\ me \in Users
  BY TabFacts DEF ReadsRegister, Reads, Registers, ChatsIInv, ChatTypeOK
<1>1. /\ toServer' \in Seq(Request) /\ Range(toServer)' \subseteq Range(toServer)
      /\ \A v : /\ InviteWaits(v)' <=> InviteWaits(v)
                /\ CloseWaits(v)' <=> CloseWaits(v)
                /\ Requested(v)' <=> Requested(v)
  BY <1>0, RequestRead DEF RailTypeOK
<1>2. Range(toBrowser)' = Range(toBrowser) /\ (RestoredFirst' <=> RestoredFirst) /\ (Restoring' <=> Restoring)
  BY <1>0, FramesSame
<1>3. RailTypeOK'
  BY <1>0, <1>1 DEF RailTypeOK, pageVars, ghosts
<1>4. Belonging'
  BY <1>0, <1>1, <1>2 DEF Belonging, pageVars
<1>5. Heard'
  BY <1>0, <1>2 DEF Heard, Up
<1>6. PageBegins'
  BY <1>0, <1>1, <1>2 DEF PageBegins, Blank, Up, pageVars, ghosts
<1>7. Dropped'
  BY <1>0, <1>1, <1>2 DEF Dropped, Shows, pageVars, ghosts
<1>8. Known'
  BY <1>0, <1>1, <1>2 DEF Known, Counting, Open, Shows, Arriving, Up, pageVars, ghosts
<1> QED BY <1>3, <1>4, <1>5, <1>6, <1>7, <1>8

\* The consumer joins the chat it was asked for.
LEMMA JoinsInviteStep ==
  ASSUME PageIInv, ChatsIInv, ChatTypeOK', JoinsInvite, NEW u, u = asking[Tab] PROVE PageIInv'
<1> USE DEF PageIInv
<1>0. /\ conn[Tab] = "inviting" /\ u \in Partners /\ u \in Users
      /\ Keep(Tab, u, InviteGroup(Tab, u))
      /\ \/ conn'[Tab] = "idle" /\ asking'[Tab] = NoUser
         \/ conn'[Tab] = "joined" /\ asking'[Tab] = u
      /\ UNCHANGED <<registered, inbox, online>>
      /\ UNCHANGED <<pageVars, toServer, toBrowser, theirs, ghosts>>
  BY TabFacts DEF JoinsInvite, InviteJoins, Belonging, ChatsIInv, ChatTypeOK
<1>1. /\ \A v \in Users \ {u} : chats'[Tab][v] = chats[Tab][v]
      /\ groups[Tab] \subseteq groups'[Tab]
      /\ closed'[Tab] = closed[Tab] \ {u}
      /\ \A v \in Users \ {u} : stored'[me][v] = stored[me][v]
  BY <1>0, TabFacts, KeepFields DEF ChatsIInv, me
<1>2. Range(toBrowser)' = Range(toBrowser) /\ (RestoredFirst' <=> RestoredFirst) /\ (Restoring' <=> Restoring)
  BY <1>0, FramesSame
<1>3. /\ Range(toServer)' = Range(toServer)
      /\ \A v : /\ InviteWaits(v)' <=> InviteWaits(v)
                /\ CloseWaits(v)' <=> CloseWaits(v)
                /\ Requested(v)' <=> Requested(v)
  BY <1>0, RequestsSame
<1>4. RailTypeOK'
  BY <1>0 DEF RailTypeOK, pageVars, ghosts
<1>5. Belonging'
  <2>1. chats'[Tab][me] = NoGroup /\ stored'[me][me] = NoGroup
    BY <1>0, <1>1, TabFacts DEF Belonging
  <2>2. IF conn'[Tab] \in {"inviting", "joined"} THEN asking'[Tab] \in Partners ELSE asking'[Tab] = NoUser
    BY <1>0
  <2>3. \A n \in Range(inbox[Tab])' : n.user \in Partners
    BY <1>0 DEF Belonging, Range
  <2>4. UNCHANGED <<rail, mapping>>
    BY <1>0 DEF pageVars
  <2> QED BY <1>2, <1>3, <2>1, <2>2, <2>3, <2>4 DEF Belonging
<1>6. Heard'
  BY <1>0, <1>1, <1>2 DEF Heard, Up
<1>7. PageBegins'
  BY <1>0, <1>2, <1>3 DEF PageBegins, Up, ghosts
<1>8. Dropped'
  <2>1. \A v \in dismissed : v \in Users /\ (v = u => CloseWaits(u))
    BY <1>0, TabFacts DEF Dropped, RailTypeOK
  <2>2. ~ Restoring
    BY <1>0 DEF PageBegins
  <2> QED BY <1>0, <1>1, <1>2, <1>3, <2>1, <2>2 DEF Dropped, Shows, Restoring, pageVars, ghosts
<1>9. Known'
  <2>1. \A v \in Users : Counting(v)' => Counting(v)
    <3>1. \A v \in Users : v \in Open(Tab)' => v \in Open(Tab) \/ v = u
      BY <1>1 DEF Open
    <3>2. \A v \in Users : asking'[Tab] = v => v = u
      BY <1>0, TabFacts
    <3> QED BY <1>3, <3>1, <3>2 DEF Counting
  <2> QED BY <1>0, <1>2, <2>1 DEF Known, Up, Shows, pageVars, ghosts
<1> QED BY <1>4, <1>5, <1>6, <1>7, <1>8, <1>9

\* The consumer tells the partner.
LEMMA TellsInviteStep ==
  ASSUME PageIInv, ChatsIInv, ChatTypeOK', TellsInvite, NEW u, u = asking[Tab] PROVE PageIInv'
<1> USE DEF PageIInv
<1> DEFINE notice == [type |-> "invite", user |-> me, group |-> chats[Tab][u]]
<1>0. /\ conn[Tab] = "joined" /\ conn'[Tab] = "idle" /\ asking'[Tab] = NoUser
      /\ u \in Partners /\ u \in Users
      /\ Notify(Listening(u), notice)
      /\ UNCHANGED <<registered, chats, closed, groups, stored, online>>
      /\ UNCHANGED <<pageVars, toServer, toBrowser, ghosts>>
      /\ theirs' = theirs \/ theirs' = theirs \cup {chats[Tab][u]}
  BY TabFacts DEF TellsInvite, InviteTells, Belonging, ChatsIInv, ChatTypeOK, me
<1>1. chats[Tab][u] \in Ours(u) /\ notice \in Notice
  BY <1>0, TabFacts, AskingUser, NoticesSent DEF Ours, Pair, me
<1>2. Range(inbox[Tab])' = Range(inbox[Tab])
  <2>1. Tab \notin Listening(u)
    BY <1>0, TabFacts DEF Listening, me
  <2> HIDE DEF notice
  <2> QED BY <1>0, <1>1, <2>1, TabNotified DEF ChatsIInv
<1>3. Range(toBrowser)' = Range(toBrowser) /\ (RestoredFirst' <=> RestoredFirst) /\ (Restoring' <=> Restoring)
  BY <1>0, FramesSame
<1>4. /\ Range(toServer)' = Range(toServer)
      /\ \A v : /\ InviteWaits(v)' <=> InviteWaits(v)
                /\ CloseWaits(v)' <=> CloseWaits(v)
                /\ Requested(v)' <=> Requested(v)
  BY <1>0, RequestsSame
<1>5. RailTypeOK'
  <2>1. theirs' \subseteq UNION {Ours(v) : v \in Partners}
    BY <1>0, <1>1 DEF RailTypeOK
  <2> QED BY <1>0, <2>1 DEF RailTypeOK, pageVars, ghosts
<1>6. Belonging'
  BY <1>0, <1>2, <1>3, <1>4 DEF Belonging, pageVars
<1>7. Heard'
  BY <1>0, <1>3 DEF Heard, Up
<1>8. PageBegins'
  BY <1>0, <1>3, <1>4 DEF PageBegins, Up, ghosts
<1>9. Dropped'
  BY <1>0, <1>3, <1>4 DEF Dropped, Shows, pageVars, ghosts
<1>10. Known'
  <2>1. \A v \in Users : Counting(v)' => Counting(v)
    BY <1>0, <1>4, TabFacts DEF Counting, Open
  <2> QED BY <1>0, <1>3, <2>1 DEF Known, Up, Shows, pageVars, ghosts
<1> QED BY <1>5, <1>6, <1>7, <1>8, <1>9, <1>10

\* The consumer takes an invite from the page.
LEMMA ReadsInviteStep ==
  ASSUME PageIInv, ChatsIInv, ChatTypeOK', NEW u \in Partners, ReadsInvite(u) PROVE PageIInv'
<1> USE DEF PageIInv
<1>0. /\ conn[Tab] = "idle" /\ asking[Tab] = NoUser /\ u \in Users
      /\ Reads("invite", u)
      /\ UNCHANGED <<registered, chats, closed, groups, stored, online>>
      /\ UNCHANGED <<pageVars, theirs, ghosts>>
      /\ \/ conn'[Tab] = "idle" /\ asking'[Tab] = NoUser
         \/ conn'[Tab] = "inviting" /\ asking'[Tab] = u
  BY TabFacts DEF ReadsInvite, Reads, InviteChecks, Belonging, ChatsIInv, ChatTypeOK, chatVars, socketVars
<1>1. \A n \in Range(inbox[Tab])' : n.user \in Partners
  <2>1. CASE UNCHANGED inbox
    BY <2>1 DEF Belonging, Range
  <2>2. CASE Notify(Listening(me), [type |-> "offline", user |-> u, group |-> InviteGroup(Tab, u)])
    <3> DEFINE notice == [type |-> "offline", user |-> u, group |-> InviteGroup(Tab, u)]
    <3>1. notice \in Notice /\ notice.user = u
      BY <1>0, TabFacts, NoticesSent
    <3>2. Range(inbox[Tab])' \subseteq Range(inbox[Tab]) \cup {notice}
      <4> HIDE DEF notice
      <4> QED BY <2>2, <3>1, TabNotified DEF notice, ChatsIInv
    <3> QED BY <3>1, <3>2 DEF Belonging
  <2> QED BY <2>1, <2>2 DEF ReadsInvite, InviteChecks, chatVars, socketVars, me
<1>2. /\ toServer' \in Seq(Request) /\ Range(toServer)' \subseteq Range(toServer)
      /\ \A v : /\ InviteWaits(v)' => InviteWaits(v)
                /\ CloseWaits(v)' <=> CloseWaits(v)
                /\ Requested(v) <=> Requested(v)' \/ (v = u /\ ~ CloseWaits(v)')
      /\ InviteWaits(u)
  BY <1>0, RequestRead DEF RailTypeOK
<1>3. ~ Blank /\ registered[Tab] /\ ~ Restoring /\ Up
  <2>1. Asked("invite", u) \in Range(toServer)
    BY <1>2 DEF InviteWaits
  <2> QED BY <1>0, <1>2, <2>1 DEF Blank, PageBegins, Asked, Up
<1>4. /\ toBrowser' \in Seq(Frame \cup RestoredFrame)
      /\ RestoredFirst' /\ ~ Restoring'
      /\ Range(toBrowser) \subseteq Range(toBrowser)'
      /\ \A f \in Range(toBrowser)' : \/ f \in Range(toBrowser)
                                      \/ f.type = "denied" /\ f.user = u
  <2>1. CASE UNCHANGED toBrowser
    BY <1>3, <2>1, FramesSame DEF RailTypeOK, PageBegins
  <2>2. CASE Tells(FrameOf("denied", u, NoGroup))
    <3>1. FrameOf("denied", u, NoGroup) \in Frame
      BY <1>0 DEF FrameOf, Frame
    <3>2. FrameOf("denied", u, NoGroup).type = "denied" /\ FrameOf("denied", u, NoGroup).user = u
      BY DEF FrameOf
    <3> QED BY <1>3, <2>2, <3>1, <3>2, Told
  <2> QED BY <2>1, <2>2 DEF ReadsInvite
<1>5. RailTypeOK'
  BY <1>0, <1>2, <1>4 DEF RailTypeOK, pageVars, ghosts
<1>6. Belonging'
  BY <1>0, <1>1, <1>2, <1>4, TabFacts DEF Belonging, pageVars
<1>7. Heard'
  BY <1>0, <1>3, <1>4 DEF Heard
<1>8. PageBegins'
  BY <1>0, <1>2, <1>3, <1>4 DEF PageBegins, Up, ghosts
<1>9. Dropped'
  <2>1. \A v \in dismissed : ~ Requested(v)' /\ (v = u => CloseWaits(v)')
    BY <1>2 DEF Dropped
  <2> QED BY <1>0, <1>2, <1>4, <2>1, TabFacts DEF Dropped, Shows, Restoring, pageVars, ghosts
<1>10. Known'
  <2>1. \A v \in Users : Counting(v)' => Counting(v)
    BY <1>0, <1>2, TabFacts DEF Counting, Open
  <2> QED BY <1>0, <1>3, <1>4, <2>1 DEF Known, Shows, pageVars, ghosts
<1> QED BY <1>5, <1>6, <1>7, <1>8, <1>9, <1>10

\* The consumer takes a close from the page.
LEMMA ReadsCloseStep ==
  ASSUME PageIInv, ChatsIInv, ChatTypeOK', NEW u \in Partners, ReadsClose(u) PROVE PageIInv'
<1> USE DEF PageIInv
<1>0. /\ conn[Tab] = "idle" /\ asking[Tab] = NoUser /\ u \in Users
      /\ Reads("close", u)
      /\ UNCHANGED <<conn, registered, chats, groups, inbox, asking, online>>
      /\ UNCHANGED <<pageVars, theirs, toBrowser, silent, crossed>>
  BY TabFacts DEF ReadsClose, Reads, Closes, Belonging, chatVars, socketVars
<1>1. /\ \A v \in Users : v \in Open(Tab)' => v \in Open(Tab)
      /\ u \notin Open(Tab)'
      /\ \A v \in Users : stored'[me][v] = stored[me][v] \/ (v = u /\ stored'[me][v] = NoGroup)
      /\ \/ dismissed' = dismissed /\ stored'[me][u] = NoGroup
         \/ dismissed' = dismissed \ {u}
  <2>1. CASE chats[Tab][u] # NoGroup
    <3>1. /\ closed'[Tab] = closed[Tab] \cup {u} /\ dismissed' = dismissed
          /\ \A v \in Users \ {u} : stored'[me][v] = stored[me][v]
          /\ stored'[me][u] = NoGroup
      BY <1>0, <2>1, TabFacts DEF ReadsClose, Closes, ChatsIInv, ChatTypeOK, Rail, me
    <3> QED BY <1>0, <3>1 DEF Open
  <2>2. CASE chats[Tab][u] = NoGroup
    BY <1>0, <2>2 DEF ReadsClose, chatVars, socketVars, Open
  <2> QED BY <2>1, <2>2
<1>2. /\ toServer' \in Seq(Request) /\ Range(toServer)' \subseteq Range(toServer)
      /\ \A v : /\ InviteWaits(v)' <=> InviteWaits(v)
                /\ CloseWaits(v) <=> CloseWaits(v)' \/ v = u
                /\ Requested(v)' <=> Requested(v)
  BY <1>0, RequestRead DEF RailTypeOK
<1>3. Range(toBrowser)' = Range(toBrowser) /\ (RestoredFirst' <=> RestoredFirst) /\ (Restoring' <=> Restoring)
  BY <1>0, FramesSame
<1>4. ~ Blank
  <2>1. Asked("close", u) \in Range(toServer)
    BY <1>2 DEF CloseWaits
  <2> QED BY <2>1 DEF Blank, Asked
<1>5. RailTypeOK'
  BY <1>0, <1>1, <1>2 DEF RailTypeOK, pageVars
<1>6. Belonging'
  BY <1>0, <1>1, <1>2, <1>3, TabFacts DEF Belonging, pageVars
<1>7. Heard'
  BY <1>0, <1>3 DEF Heard, Up
<1>8. PageBegins'
  BY <1>0, <1>2, <1>3, <1>4 DEF PageBegins, Up
<1>9. Dropped'
  <2>1. \A v \in dismissed' : v \in dismissed /\ v \in Users
    BY <1>1, TabFacts DEF RailTypeOK
  <2>2. \A v \in dismissed' : stored'[me][v] # NoGroup => CloseWaits(v)'
    BY <1>1, <1>2, <2>1 DEF Dropped
  <2> QED BY <1>0, <1>2, <1>3, <2>1, <2>2 DEF Dropped, Shows, pageVars
<1>10. Known'
  <2>1. ASSUME NEW v \in Users, Counting(v)' PROVE Counting(v)
    <3>1. CASE v = u
      BY <1>0, <1>1, <1>2, <2>1, <3>1, TabFacts DEF Counting
    <3>2. CASE v # u
      BY <1>0, <1>1, <1>2, <2>1, <3>2 DEF Counting
    <3> QED BY <3>1, <3>2
  <2> QED BY <1>0, <1>3, <2>1 DEF Known, Up, Shows, pageVars
<1> QED BY <1>5, <1>6, <1>7, <1>8, <1>9, <1>10

\* The consumer takes an invite of a partner.
LEMMA InvitedByStep ==
  ASSUME PageIInv, ChatsIInv, ChatTypeOK', NEW u \in Partners, InvitedBy(u) PROVE PageIInv'
<1> USE DEF PageIInv
<1> DEFINE g == Head(inbox[Tab]).group
           f == FrameOf("invite", u, g)
<1>0. /\ conn[Tab] = "idle" /\ u \in Users
      /\ inbox[Tab] # <<>> /\ inbox' = [inbox EXCEPT ![Tab] = Tail(@)]
      /\ Keep(Tab, u, g) /\ Tells(f)
      /\ silent' = silent \cup {u} /\ dismissed' = dismissed \ {u}
      /\ UNCHANGED <<conn, registered, asking, online>>
      /\ UNCHANGED <<pageVars, toServer, theirs, crossed>>
  BY TabFacts DEF InvitedBy, Invited
<1>1. g \in Ours(u) /\ g \in Groups
  BY <1>0, TabFacts, HeadPair DEF InvitedBy, me
<1>2. f \in Frame /\ f.type = "invite" /\ f.user = u /\ f.group = g
  BY <1>0, <1>1 DEF FrameOf, Frame
<1>3. Range(inbox[Tab])' \subseteq Range(inbox[Tab])
  BY <1>0, TabTakes DEF ChatsIInv
<1> HIDE DEF g, f
<1>4. /\ \A v \in Users \ {u} : chats'[Tab][v] = chats[Tab][v]
      /\ groups[Tab] \subseteq groups'[Tab] /\ g \in groups'[Tab]
      /\ closed'[Tab] = closed[Tab] \ {u}
      /\ \A v \in Users \ {u} : stored'[me][v] = stored[me][v]
  BY <1>0, TabFacts, KeepFields DEF ChatsIInv, me
<1>5. /\ toBrowser' \in Seq(Frame \cup RestoredFrame)
      /\ Range(toBrowser)' = Range(toBrowser) \cup {f}
      /\ RestoredFirst' /\ (Restoring' => Restoring)
  BY <1>0, <1>2, Told
<1>6. /\ Range(toServer)' = Range(toServer)
      /\ \A v : /\ InviteWaits(v)' <=> InviteWaits(v)
                /\ CloseWaits(v)' <=> CloseWaits(v)
                /\ Requested(v)' <=> Requested(v)
  BY <1>0, RequestsSame
<1>7. RailTypeOK'
  BY <1>0, <1>5 DEF RailTypeOK, pageVars
<1>8. Belonging'
  <2>1. chats'[Tab][me] = NoGroup /\ stored'[me][me] = NoGroup
    BY <1>0, <1>4, TabFacts DEF Belonging
  <2>2. \A e \in Range(toBrowser)' : IF e.type = "restored" THEN Own(e.chats)
          ELSE e.user \in Partners /\ (e.type # "denied" => Chatted(e.user, e.group))
    BY <1>1, <1>2, <1>5 DEF Belonging, Chatted
  <2> QED BY <1>0, <1>3, <1>6, <2>1, <2>2 DEF Belonging, pageVars
<1>9. Heard'
  BY <1>0, <1>2, <1>4, <1>5 DEF Heard, Up
<1>10. PageBegins'
  BY <1>0, <1>2, <1>5, <1>6 DEF PageBegins, Blank, Up, pageVars
<1>11. Dropped'
  <2>1. \A v \in dismissed' : v \in dismissed /\ v # u /\ v \in Users
    BY <1>0, TabFacts DEF RailTypeOK
  <2> QED BY <1>0, <1>2, <1>4, <1>5, <1>6, <2>1 DEF Dropped, Shows, pageVars
<1>12. Known'
  <2>1. \A v \in Users \ {u} : Counting(v)' => Counting(v)
    BY <1>0, <1>4, <1>6 DEF Counting, Open
  <2>2. Arriving(u, f) /\ f \in Range(toBrowser)'
    BY <1>2, <1>5 DEF Arriving
  <2> QED BY <1>0, <1>5, <2>1, <2>2 DEF Known, Up, Shows, pageVars
<1> QED BY <1>7, <1>8, <1>9, <1>10, <1>11, <1>12

\* The consumer learns that a partner is gone.
LEMMA ToldOfflineStep ==
  ASSUME PageIInv, ChatsIInv, ChatTypeOK', NEW u \in Partners, ToldOffline(u) PROVE PageIInv'
<1> USE DEF PageIInv
<1> DEFINE g == Head(inbox[Tab]).group
           f == FrameOf("offline", u, g)
<1>0. /\ conn[Tab] = "idle" /\ u \in Users
      /\ inbox[Tab] # <<>> /\ inbox' = [inbox EXCEPT ![Tab] = Tail(@)]
      /\ Tells(f)
      /\ UNCHANGED <<conn, registered, closed, groups, asking, stored, online>>
      /\ UNCHANGED <<pageVars, toServer, theirs, ghosts>>
      /\ \A v \in Users : chats'[Tab][v] = chats[Tab][v] \/ chats'[Tab][v] = NoGroup
  BY TabFacts DEF ToldOffline, PartnerOffline, ChatsIInv, ChatTypeOK, Rail
<1>1. g \in Ours(u) /\ g \in Groups
  BY <1>0, TabFacts, HeadPair DEF ToldOffline, me
<1>2. f \in Frame /\ f.type = "offline" /\ f.user = u /\ f.group = g
  BY <1>0, <1>1 DEF FrameOf, Frame
<1>3. Range(inbox[Tab])' \subseteq Range(inbox[Tab])
  BY <1>0, TabTakes DEF ChatsIInv
<1> HIDE DEF g, f
<1>5. /\ toBrowser' \in Seq(Frame \cup RestoredFrame)
      /\ Range(toBrowser)' = Range(toBrowser) \cup {f}
      /\ RestoredFirst' /\ (Restoring' => Restoring)
  BY <1>0, <1>2, Told
<1>6. /\ Range(toServer)' = Range(toServer)
      /\ \A v : /\ InviteWaits(v)' <=> InviteWaits(v)
                /\ CloseWaits(v)' <=> CloseWaits(v)
                /\ Requested(v)' <=> Requested(v)
  BY <1>0, RequestsSame
<1>7. RailTypeOK'
  BY <1>0, <1>5 DEF RailTypeOK, pageVars, ghosts
<1>8. Belonging'
  <2>2. \A e \in Range(toBrowser)' : IF e.type = "restored" THEN Own(e.chats)
          ELSE e.user \in Partners /\ (e.type # "denied" => Chatted(e.user, e.group))
    BY <1>1, <1>2, <1>5 DEF Belonging, Chatted
  <2>3. chats'[Tab][me] = NoGroup
    BY <1>0, TabFacts DEF Belonging
  <2> QED BY <1>0, <1>3, <1>6, <2>2, <2>3 DEF Belonging, pageVars
<1>9. Heard'
  BY <1>0, <1>2, <1>5 DEF Heard, Up
<1>10. PageBegins'
  BY <1>0, <1>2, <1>5, <1>6 DEF PageBegins, Blank, Up, pageVars, ghosts
<1>11. Dropped'
  BY <1>0, <1>2, <1>5, <1>6 DEF Dropped, Shows, pageVars, ghosts
<1>12. Known'
  <2>1. \A v \in Users : Counting(v)' => Counting(v)
    BY <1>0, <1>6 DEF Counting, Open
  <2> QED BY <1>0, <1>5, <2>1 DEF Known, Up, Shows, pageVars, ghosts
<1> QED BY <1>7, <1>8, <1>9, <1>10, <1>11, <1>12

\* The consumer passes on a message, or that a partner is back.
LEMMA RelaysStep ==
  ASSUME PageIInv, ChatsIInv, ChatTypeOK', NEW u \in Partners, NEW type \in {"message", "online"},
         NEW g \in Groups, Relays(type, u, g)
  PROVE  PageIInv'
<1> USE DEF PageIInv
<1> DEFINE f == FrameOf(type, u, g)
<1>0. /\ conn[Tab] = "idle" /\ u \in Users
      /\ g \in Ours(u) /\ g \in groups[Tab]
      /\ Tells(f)
      /\ dismissed' \subseteq dismissed
      /\ UNCHANGED <<chatVars, pageVars, toServer, theirs, silent, crossed>>
  BY TabFacts DEF Relays
<1>2. f \in Frame /\ f.type \in {"message", "online"} /\ f.user = u /\ f.group = g
  BY <1>0 DEF FrameOf, Frame
<1> HIDE DEF f
<1>5. /\ toBrowser' \in Seq(Frame \cup RestoredFrame)
      /\ Range(toBrowser)' = Range(toBrowser) \cup {f}
      /\ RestoredFirst' /\ (Restoring' => Restoring)
  BY <1>0, <1>2, Told
<1>6. /\ Range(toServer)' = Range(toServer)
      /\ \A v : /\ InviteWaits(v)' <=> InviteWaits(v)
                /\ CloseWaits(v)' <=> CloseWaits(v)
                /\ Requested(v)' <=> Requested(v)
  BY <1>0, RequestsSame
<1>7. RailTypeOK'
  BY <1>0, <1>5 DEF RailTypeOK, pageVars
<1>8. Belonging'
  <2>2. \A e \in Range(toBrowser)' : IF e.type = "restored" THEN Own(e.chats)
          ELSE e.user \in Partners /\ (e.type # "denied" => Chatted(e.user, e.group))
    BY <1>0, <1>2, <1>5 DEF Belonging, Chatted
  <2> QED BY <1>0, <1>6, <2>2 DEF Belonging, pageVars, chatVars, socketVars
<1>9. Heard'
  BY <1>0, <1>2, <1>5 DEF Heard, Up, chatVars, socketVars
<1>10. PageBegins'
  BY <1>0, <1>2, <1>5, <1>6 DEF PageBegins, Blank, Up, pageVars, chatVars, socketVars
<1>11. Dropped'
  BY <1>0, <1>2, <1>5, <1>6 DEF Dropped, Shows, pageVars, chatVars, socketVars
<1>12. Known'
  <2>1. \A v \in Users : Counting(v)' => Counting(v)
    BY <1>0, <1>6 DEF Counting, Open, chatVars, socketVars
  <2> QED BY <1>0, <1>5, <2>1 DEF Known, Up, Shows, pageVars, chatVars, socketVars
<1> QED BY <1>7, <1>8, <1>9, <1>10, <1>11, <1>12

\* A page that is gone leaves nothing under way.
LEMMA PageLeft ==
  ASSUME PageGone
  PROVE  /\ toServer' = <<>> /\ toBrowser' = <<>> /\ rail' = <<>> /\ mapping' = EmptyRail
         /\ silent' = {} /\ crossed' = {}
         /\ Blank' /\ Range(toServer)' = {} /\ Range(toBrowser)' = {}
         /\ RestoredFirst' /\ ~ Restoring'
         /\ \A v : ~ InviteWaits(v)' /\ ~ CloseWaits(v)' /\ ~ Requested(v)' /\ ~ Shows(v)'
<1>1. /\ toServer' = <<>> /\ toBrowser' = <<>> /\ rail' = <<>> /\ mapping' = EmptyRail
      /\ silent' = {} /\ crossed' = {}
  BY DEF PageGone
<1>2. Range(toServer)' = {} /\ Range(toBrowser)' = {}
  BY <1>1 DEF Range
<1>3. \A v : ~ InviteWaits(v)' /\ ~ CloseWaits(v)' /\ ~ Requested(v)'
  BY <1>1, <1>2 DEF InviteWaits, CloseWaits, Requested
<1>4. Blank'
  BY <1>1, <1>2 DEF Blank
<1>5. RestoredFirst' /\ ~ Restoring'
  BY <1>1, <1>2 DEF RestoredFirst, Restoring
<1> QED BY <1>1, <1>2, <1>3, <1>4, <1>5 DEF Shows

\* The tab is closed, or its server process dies.
LEMMA PageGoneStep ==
  ASSUME PageIInv, ChatsIInv, ChatTypeOK', ClosesTab \/ DiesTab PROVE PageIInv'
<1> USE DEF PageIInv
<1>0. /\ conn'[Tab] \in {"leaving", "off"} /\ ~ Up' /\ ~ registered'[Tab] /\ asking'[Tab] = NoUser
      /\ inbox'[Tab] = <<>> /\ UNCHANGED <<stored, theirs>>
      /\ chats'[Tab][me] = NoGroup
      /\ PageGone
  <2>1. CASE ClosesTab
    BY <2>1, TabFacts DEF ClosesTab, Leaves, Vanishes, ChatsIInv, ChatTypeOK, Up, Belonging
  <2>2. CASE DiesTab
    BY <2>2, TabFacts, RailFacts DEF DiesTab, Dies, Vanishes, ChatsIInv, ChatTypeOK, Up
  <2> QED BY <2>1, <2>2
<1>1. /\ toServer' = <<>> /\ toBrowser' = <<>> /\ rail' = <<>> /\ mapping' = EmptyRail
      /\ silent' = {} /\ crossed' = {}
      /\ Blank' /\ Range(toServer)' = {} /\ Range(toBrowser)' = {}
      /\ RestoredFirst' /\ ~ Restoring'
      /\ \A v : ~ InviteWaits(v)' /\ ~ CloseWaits(v)' /\ ~ Requested(v)' /\ ~ Shows(v)'
  BY <1>0, PageLeft
<1>2. dismissed' \subseteq dismissed /\ \A u \in dismissed' : ~ CloseWaits(u)
  <2>1. CASE ClosesTab
    BY <2>1, RequestsFew DEF ClosesTab
  <2>2. CASE DiesTab
    BY <2>2, TabFacts DEF DiesTab, CloseWaits, Asked, Range, RailTypeOK
  <2> QED BY <2>1, <2>2
<1>3. RailTypeOK'
  BY <1>0, <1>1, <1>2, RailFacts DEF RailTypeOK
<1>4. Belonging'
  <2>1. Range(inbox[Tab])' = {}
    BY <1>0 DEF Range
  <2>2. \A u \in Users : EmptyRail[u] = NoGroup
    BY RailFacts
  <2> QED BY <1>0, <1>1, <2>1, <2>2 DEF Belonging, Own
<1>5. Heard' /\ PageBegins' /\ Known'
  BY <1>0, <1>1 DEF Heard, PageBegins, Known
<1>6. Dropped'
  BY <1>0, <1>1, <1>2 DEF Dropped
<1> QED BY <1>3, <1>4, <1>5, <1>6

\* What happens outside the page and its consumer.
LEMMA OutsideStep ==
  ASSUME PageIInv, ChatTypeOK',
         UNCHANGED <<registered, groups, asking, pageVars, toServer, toBrowser, ghosts>>,
         \/ UNCHANGED <<conn, chats, closed>>
         \/ /\ conn[Tab] = "leaving" /\ conn'[Tab] = "off" /\ chats'[Tab] = EmptyRail,
         UNCHANGED stored \/ stored' = [stored EXCEPT ![me] = EmptyRail],
         \A n \in Range(inbox[Tab])' : n.user \in Partners,
         theirs' \subseteq UNION {Ours(u) : u \in Partners}
  PROVE  PageIInv'
<1> USE DEF PageIInv
<1>1. /\ Range(toServer)' = Range(toServer)
      /\ \A v : /\ InviteWaits(v)' <=> InviteWaits(v)
                /\ CloseWaits(v)' <=> CloseWaits(v)
                /\ Requested(v)' <=> Requested(v)
  BY RequestsSame
<1>2. Range(toBrowser)' = Range(toBrowser) /\ (RestoredFirst' <=> RestoredFirst) /\ (Restoring' <=> Restoring)
  BY FramesSame
<1>3. \A v \in Users : stored'[me][v] = stored[me][v] \/ stored'[me][v] = NoGroup
  <2>1. CASE UNCHANGED stored
    BY <2>1
  <2>2. CASE stored' = [stored EXCEPT ![me] = EmptyRail]
    <3>1. stored'[me] = EmptyRail \/ stored'[me] = stored[me]
      BY <2>2, TabFacts
    <3> QED BY <3>1, RailFacts
  <2> QED BY <2>1, <2>2
<1>4. \/ UNCHANGED <<conn, chats, closed>>
      \/ ~ Up /\ ~ Up' /\ conn'[Tab] = "off" /\ conn[Tab] = "leaving"
         /\ \A v \in Users : chats'[Tab][v] = NoGroup
  BY RailFacts DEF Up
<1>5. RailTypeOK'
  BY DEF RailTypeOK, pageVars, ghosts
<1>6. Belonging'
  BY <1>1, <1>2, <1>3, <1>4, TabFacts DEF Belonging, pageVars
<1>7. Heard'
  BY <1>2, <1>4 DEF Heard, Up
<1>8. PageBegins'
  <2>1. Blank' <=> Blank
    BY <1>1 DEF Blank, pageVars, ghosts
  <2> QED BY <1>1, <1>2, <1>4, <2>1 DEF PageBegins, Up, ghosts
<1>9. Dropped'
  <2>1. \A u \in dismissed : u \in Users
    BY TabFacts DEF RailTypeOK
  <2> QED BY <1>1, <1>2, <1>3, <1>4, <2>1 DEF Dropped, Shows, pageVars, ghosts
<1>10. Known'
  <2>1. CASE UNCHANGED <<conn, chats, closed>>
    BY <1>1, <1>2, <2>1 DEF Known, Counting, Open, Shows, Up, pageVars, ghosts
  <2>2. CASE ~ Up'
    BY <2>2 DEF Known
  <2> QED BY <1>4, <2>1, <2>2
<1> QED BY <1>5, <1>6, <1>7, <1>8, <1>9, <1>10

\* The consumer has cleaned up after its socket.
LEMMA GoneTabStep ==
  ASSUME PageIInv, ChatsIInv, ChatTypeOK', GoneTab PROVE PageIInv'
<1>1. /\ conn[Tab] = "leaving" /\ conn'[Tab] = "off" /\ chats'[Tab] = EmptyRail
      /\ UNCHANGED <<registered, groups, inbox, asking, stored, theirs>>
      /\ UNCHANGED <<registered, groups, asking, pageVars, toServer, toBrowser, ghosts>>
  BY TabFacts DEF GoneTab, Gone, ChatsIInv, ChatTypeOK
<1>2. \A n \in Range(inbox[Tab])' : n.user \in Partners
  BY <1>1 DEF PageIInv, Belonging, Range
<1> QED BY <1>1, <1>2, OutsideStep DEF PageIInv, RailTypeOK

\* The other users, and the clocks of Redis.
LEMMA OthersKeep ==
  ASSUME PageIInv, ChatsIInv, ChatTypeOK', OthersStep PROVE PageIInv'
<1>0. theirs \subseteq UNION {Ours(u) : u \in Partners} /\ \A n \in Range(inbox[Tab]) : n.user \in Partners
  BY DEF PageIInv, RailTypeOK, Belonging
<1>1. ASSUME NEW u \in Partners, NEW type \in {"invite", "offline"}, NEW g \in Ours(u),
             Waits([type |-> type, user |-> u, group |-> g])
      PROVE  /\ \A n \in Range(inbox[Tab])' : n.user \in Partners
             /\ UNCHANGED <<conn, registered, chats, closed, groups, asking, stored>>
  <2> DEFINE notice == [type |-> type, user |-> u, group |-> g]
  <2>1. notice \in Notice /\ notice.user = u
    BY TabFacts DEF Notice
  <2> HIDE DEF notice
  <2>2. Notify(Listening(me), notice) /\ UNCHANGED <<conn, registered, chats, closed, groups, asking, stored>>
    BY <1>1 DEF Waits, notice
  <2>3. Range(inbox[Tab])' \subseteq Range(inbox[Tab]) \cup {notice}
    BY <2>1, <2>2, TabNotified DEF ChatsIInv
  <2> QED BY <1>0, <2>1, <2>2, <2>3
<1>2. ASSUME NEW u \in Partners \ Bots, Comes(u) PROVE PageIInv'
  <2>1. \A n \in Range(inbox[Tab])' : n.user \in Partners
    BY <1>0, <1>2 DEF Comes, socketVars, Range
  <2> QED BY <1>0, <1>2, <2>1, OutsideStep DEF Comes, socketVars
<1>3. ASSUME NEW u \in Partners \ Bots, Invites(u) PROVE PageIInv'
  <2>1. PICK g \in {GroupName(u, me)} \cup (theirs \cap Ours(u)) :
          /\ Waits([type |-> "invite", user |-> u, group |-> g])
          /\ theirs' = theirs \cup {g}
    BY <1>3 DEF Invites
  <2>2. g \in Ours(u)
    BY DEF Ours
  <2>3. theirs' \subseteq UNION {Ours(v) : v \in Partners}
    BY <1>0, <2>1, <2>2
  <2>4. UNCHANGED <<pageVars, toServer, toBrowser, ghosts>>
    BY <1>3 DEF Invites
  <2> QED BY <1>1, <2>1, <2>2, <2>3, <2>4, OutsideStep
<1>4. ASSUME NEW u \in Partners \ Bots, Goes(u) PROVE PageIInv'
  <2>1. PICK g \in theirs \cap Ours(u) : Waits([type |-> "offline", user |-> u, group |-> g])
    BY <1>4 DEF Goes
  <2>2. theirs' \subseteq UNION {Ours(v) : v \in Partners}
    BY <1>0, <1>4 DEF Goes
  <2>3. UNCHANGED <<pageVars, toServer, toBrowser, ghosts>>
    BY <1>4 DEF Goes
  <2> QED BY <1>1, <2>1, <2>2, <2>3, OutsideStep
<1>5. ASSUME NEW u \in Users, Expires(u) PROVE PageIInv'
  <2>1. /\ UNCHANGED socketVars /\ UNCHANGED <<pageVars, toServer, toBrowser, theirs, ghosts>>
        /\ UNCHANGED stored \/ stored' = [stored EXCEPT ![me] = EmptyRail]
    BY <1>5 DEF Expires, MarkerExpires, ChatsExpire
  <2>2. \A n \in Range(inbox[Tab])' : n.user \in Partners
    BY <1>0, <2>1 DEF socketVars, Range
  <2> QED BY <1>0, <2>1, <2>2, OutsideStep DEF socketVars
<1> QED BY <1>2, <1>3, <1>4, <1>5 DEF OthersStep

\* Initially there is no page.
LEMMA RailInitially == RailInit => RailIInv
<1> SUFFICES ASSUME RailInit PROVE RailIInv
  OBVIOUS
<1>1. ChatsIInv
  BY ChatsInit DEF RailInit
<1>2. /\ rail = <<>> /\ mapping = EmptyRail /\ toServer = <<>> /\ toBrowser = <<>>
      /\ theirs = {} /\ dismissed = {} /\ silent = {} /\ crossed = {}
      /\ conn[Tab] = "off" /\ ~ registered[Tab] /\ inbox[Tab] = <<>> /\ asking[Tab] = NoUser
      /\ chats[Tab] = EmptyRail /\ stored[me] = EmptyRail
  BY TabFacts DEF RailInit, ChatInit
<1>3. /\ Range(toServer) = {} /\ Range(toBrowser) = {} /\ RestoredFirst /\ ~ Restoring
      /\ Range(inbox[Tab]) = {}
      /\ \A v : ~ InviteWaits(v) /\ ~ CloseWaits(v) /\ ~ Requested(v)
  BY <1>2, FramesSame, RequestsFew DEF Range
<1>4. RailTypeOK
  BY <1>1, <1>2, RailFacts DEF RailTypeOK, ChatsIInv
<1>5. Belonging
  BY <1>2, <1>3, TabFacts, RailFacts DEF Belonging, Own
<1>6. Heard /\ PageBegins /\ Dropped /\ Known
  BY <1>2, <1>3 DEF Heard, PageBegins, Dropped, Known, Up, Blank
<1> QED BY <1>1, <1>4, <1>5, <1>6 DEF RailIInv, PageIInv

\* Every step keeps the invariant.
LEMMA RailIInvStep ==
  ASSUME RailIInv, [RailNext]_railVars PROVE RailIInv'
<1> USE DEF RailIInv
<1>1. ChatsIInv' /\ ChatTypeOK'
  <2>1. theirs \subseteq UNION {Ours(u) : u \in Partners}
    BY DEF PageIInv, RailTypeOK
  <2>2. ChatsIInv'
    BY <2>1, RailChatsStep
  <2> QED BY <2>2 DEF ChatsIInv
<1>2. CASE PageStep
  <2>1. CASE Loads
    BY <1>1, <2>1, LoadsStep
  <2>2. ASSUME NEW u \in Partners, Clicks(u) PROVE PageIInv'
    BY <1>1, <2>2, ClicksStep
  <2>3. ASSUME NEW i \in DOMAIN rail, ClosesRow(i) PROVE PageIInv'
    <3>1. PICK u : rail[i].user = u
      OBVIOUS
    <3> QED BY <1>1, <2>3, <3>1, ClosesRowStep
  <2>4. CASE ShowsRestored
    BY <1>1, <2>4, ShowsRestoredStep
  <2>5. CASE ShowsInvite \/ ShowsOffline \/ ShowsOnline
    BY <1>1, <2>5, ShowsMarkStep
  <2>6. PICK h : h = Head(toBrowser).user
    OBVIOUS
  <2>7. CASE ShowsDenied
    BY <1>1, <2>6, <2>7, ShowsDeniedStep
  <2>8. CASE ShowsMessage
    BY <1>1, <2>6, <2>8, ShowsMessageStep
  <2> QED BY <1>1, <1>2, <2>1, <2>2, <2>3, <2>4, <2>5, <2>7, <2>8 DEF PageStep
<1>3. CASE ConsumerStep
  <2>1. CASE RestoresRail \/ ReadsRegister
    BY <1>1, <2>1, RestoresRailStep, ReadsRegisterStep
  <2>2. PICK a : a = asking[Tab]
    OBVIOUS
  <2>3. CASE JoinsInvite \/ TellsInvite
    BY <1>1, <2>2, <2>3, JoinsInviteStep, TellsInviteStep
  <2>4. ASSUME NEW u \in Partners, ReadsInvite(u) \/ ReadsClose(u) PROVE PageIInv'
    BY <1>1, <2>4, ReadsInviteStep, ReadsCloseStep
  <2>5. ASSUME NEW u \in Partners, InvitedBy(u) \/ ToldOffline(u) PROVE PageIInv'
    BY <1>1, <2>5, InvitedByStep, ToldOfflineStep
  <2>6. ASSUME NEW u \in Partners, NEW type \in {"message", "online"}, NEW g \in Groups, Relays(type, u, g)
        PROVE  PageIInv'
    BY <1>1, <2>6, RelaysStep
  <2>7. CASE ClosesTab \/ DiesTab
    BY <1>1, <2>7, PageGoneStep
  <2>8. CASE GoneTab
    BY <1>1, <2>8, GoneTabStep
  <2> QED BY <1>1, <1>3, <2>1, <2>3, <2>4, <2>5, <2>6, <2>7, <2>8 DEF ConsumerStep
<1>4. CASE OthersStep
  BY <1>1, <1>4, OthersKeep
<1>5. CASE UNCHANGED railVars
  <2>1. \A n \in Range(inbox[Tab])' : n.user \in Partners
    BY <1>5 DEF railVars, chatVars, socketVars, PageIInv, Belonging, Range
  <2> QED BY <1>1, <1>5, <2>1, OutsideStep DEF railVars, chatVars, socketVars, PageIInv, RailTypeOK
<1> QED BY <1>2, <1>3, <1>4, <1>5 DEF RailNext

\* What keeps a row answered: it was there, and its answer is still due.
LEMMA AnsweredKept ==
  ASSUME NEW u \in Partners, AnsweredFor(u), Joined(u) => Joined(u)',
         mapping'[u] = mapping[u], Thinned(rail', rail), ~ Joined(u)' /\ Due(u) => Due(u)'
  PROVE  AnsweredFor(u)'
<1> SUFFICES ASSUME ~ Joined(u)'
             PROVE  /\ mapping'[u] \in {NoGroup, GroupName(me, u)}
                    /\ OneRow(rail', u)
                    /\ \A i \in DOMAIN rail' : rail'[i].user = u =>
                         /\ rail'[i].group = GroupName(me, u) /\ mapping'[u] # NoGroup
                         /\ rail'[i].live => Due(u)'
  BY DEF AnsweredFor, OneRow
<1> QED BY DEF AnsweredFor, Thinned

\* A page without rows has none to answer for.
LEMMA BlankAnswered == Blank' => Answered'
<1> SUFFICES ASSUME Blank', NEW u \in Partners PROVE AnsweredFor(u)'
  BY DEF Answered
<1>1. rail' = <<>> /\ mapping' = EmptyRail
  BY DEF Blank
<1>2. mapping'[u] = NoGroup
  BY <1>1, TabFacts, RailFacts
<1> QED BY <1>1, <1>2 DEF AnsweredFor, OneRow

\* Somebody heard in a group of u is joined to it.
LEMMA HeardIsJoined ==
  ASSUME PageIInv, NEW type \in {"invite", "online", "message"}, Takes(type)
  PROVE  Joined(Head(toBrowser).user)
BY HeadFrame DEF Joined

\* Which answers are still due when the page has taken a frame.
LEMMA DueTaken ==
  ASSUME PageIInv, NEW type, Takes(type), NEW u, ~ Refused(u, Head(toBrowser)), Due(u)
  PROVE  Due(u)'
<1>1. /\ UNCHANGED chatVars /\ Range(toBrowser) = Range(toBrowser)' \cup {Head(toBrowser)}
      /\ InviteWaits(u)' <=> InviteWaits(u)
  BY Taken
<1>2. Range(inbox[Tab])' = Range(inbox[Tab])
  BY <1>1 DEF chatVars, socketVars, Range
<1> QED BY <1>1, <1>2 DEF Due, Refused, chatVars, socketVars

\* The user asks for a chat, and waits for the answer.
LEMMA ClicksAnswered ==
  ASSUME PageIInv, Answered, NEW u \in Partners, Clicks(u) PROVE Answered'
<1>0. /\ UNCHANGED <<chatVars, toBrowser>> /\ Sends("invite", u) /\ u \in Users
      /\ registered[Tab]
  BY TabFacts DEF Clicks
<1>1. /\ KnownGroup(u) \in Ours(u)
      /\ mapping'[u] = KnownGroup(u) /\ KnownGroup(u) # NoGroup
      /\ \A v \in Users \ {u} : mapping'[v] = mapping[v]
      /\ \A j \in DOMAIN rail' : \/ j \in DOMAIN rail /\ rail'[j] = rail[j]
                                 \/ rail'[j] = Row(u, KnownGroup(u), TRUE)
      /\ \A v : OneRow(rail, v) /\ (v = u => NoRow(rail, v)) => OneRow(rail', v)
      /\ mapping[u] # NoGroup /\ RowsOf(KnownGroup(u)) # {} => rail' = rail
  BY ClicksRows
<1>2. \A v : InviteWaits(v)' <=> InviteWaits(v) \/ v = u
  BY <1>0, RequestMade DEF PageIInv, RailTypeOK
<1>3. /\ Up /\ \A v : Joined(v)' <=> Joined(v)
  BY <1>0 DEF Up, Joined, PageIInv, PageBegins, chatVars, socketVars
<1>4. Due(u)' /\ \A v : Due(v) => Due(v)'
  BY <1>0, <1>2 DEF Due, Range, Refused, chatVars, socketVars
<1>5. ASSUME NEW v \in Partners, v # u PROVE AnsweredFor(v)'
  <2>1. AnsweredFor(v) /\ v \in Users
    BY <1>3, TabFacts DEF Answered
  <2>2. \A j \in DOMAIN rail' : rail'[j].user = v => j \in DOMAIN rail /\ rail'[j] = rail[j]
    BY <1>1, <1>5 DEF Row
  <2> QED BY <1>1, <1>3, <1>4, <1>5, <2>1, <2>2 DEF AnsweredFor
<1>6. AnsweredFor(u)'
  <2> SUFFICES ASSUME ~ Joined(u) PROVE AnsweredFor(u)'
    BY <1>3 DEF AnsweredFor
  <2>1. /\ mapping[u] \in {NoGroup, GroupName(me, u)}
        /\ OneRow(rail, u)
        /\ \A i \in DOMAIN rail : rail[i].user = u =>
             rail[i].group = GroupName(me, u) /\ mapping[u] # NoGroup
    BY <1>3 DEF Answered, AnsweredFor
  <2>2. KnownGroup(u) = GroupName(me, u)
    BY <2>1 DEF KnownGroup
  <2>3. OneRow(rail', u)
    <3>1. CASE mapping[u] # NoGroup /\ RowsOf(KnownGroup(u)) # {}
      BY <1>1, <2>1, <3>1
    <3>2. CASE mapping[u] = NoGroup \/ RowsOf(KnownGroup(u)) = {}
      <4>1. NoRow(rail, u)
        BY <2>1, <2>2, <3>2 DEF NoRow, RowsOf
      <4> QED BY <1>1, <2>1, <4>1
    <3> QED BY <3>1, <3>2
  <2>4. \A j \in DOMAIN rail' : rail'[j].user = u => rail'[j].group = GroupName(me, u)
    BY <1>1, <2>1, <2>2 DEF Row
  <2> QED BY <1>1, <1>4, <2>2, <2>3, <2>4 DEF AnsweredFor
<1> QED BY <1>5, <1>6 DEF Answered

\* The user closes a row.
LEMMA ClosesRowAnswered ==
  ASSUME PageIInv, Answered, NEW i \in DOMAIN rail, NEW u, rail[i].user = u, ClosesRow(i) PROVE Answered'
<1>0. /\ UNCHANGED <<chatVars, toBrowser>> /\ Sends("close", u) /\ Up
  BY DEF ClosesRow
<1>1. /\ u \in Partners /\ u \in Users
      /\ mapping'[u] = NoGroup /\ \A v \in Users \ {u} : mapping'[v] = mapping[v]
      /\ Thinned(rail', rail)
      /\ OneRow(rail, u) => NoRow(rail', u)
  BY ClosesRows, TabFacts
<1>2. \A v : InviteWaits(v)' <=> InviteWaits(v)
  BY <1>0, <1>1, RequestMade DEF PageIInv, RailTypeOK
<1>3. \A v : Joined(v)' <=> Joined(v)
  BY <1>0 DEF Joined, chatVars, socketVars
<1>4. \A v : Due(v) => Due(v)'
  BY <1>0, <1>2 DEF Due, Range, Refused, chatVars, socketVars
<1>5. ASSUME NEW v \in Partners, v # u PROVE AnsweredFor(v)'
  <2>1. AnsweredFor(v) /\ v \in Users
    BY <1>0, TabFacts DEF Answered
  <2> QED BY <1>1, <1>3, <1>4, <1>5, <2>1, AnsweredKept
<1>6. AnsweredFor(u)'
  BY <1>0, <1>1, <1>3 DEF Answered, AnsweredFor, NoRow, OneRow
<1> QED BY <1>5, <1>6 DEF Answered

\* The restored rail: whoever has a row on it is joined.
LEMMA RestoredAnswered ==
  ASSUME PageIInv, ShowsRestored PROVE Answered'
<1>1. /\ Head(toBrowser) \in Range(toBrowser) /\ Head(toBrowser).type = "restored"
      /\ Up /\ UNCHANGED chatVars
  BY Taken DEF ShowsRestored
<1>2. /\ mapping' = Head(toBrowser).chats /\ Own(mapping')
      /\ \A i \in DOMAIN rail' : /\ mapping'[rail'[i].user] = rail'[i].group
                                 /\ rail'[i].user \in Partners /\ rail'[i].group # NoGroup
      /\ \A u : OneRow(rail', u)
  BY RestoredRail
<1>3. \A u \in Users : mapping'[u] # NoGroup => mapping'[u] \in groups[Tab]
  BY <1>1, <1>2 DEF PageIInv, Heard
<1>4. \A u \in Partners : mapping'[u] # NoGroup => Joined(u)'
  BY <1>1, <1>2, <1>3, TabFacts DEF Own, Chatted, Joined, chatVars, socketVars
<1>5. ASSUME NEW u \in Partners PROVE AnsweredFor(u)'
  BY <1>2, <1>4 DEF AnsweredFor
<1> QED BY <1>5 DEF Answered

\* A frame from a group the consumer is in, which changes the rows of its user only.
LEMMA HeardAnswered ==
  ASSUME PageIInv, Answered, NEW type \in {"invite", "online", "message"}, Takes(type),
         NEW u, u = Head(toBrowser).user,
         \A v \in Users \ {u} : mapping'[v] = mapping[v],
         \A j \in DOMAIN rail' : rail'[j].user # u =>
           /\ j \in DOMAIN rail /\ rail'[j].user = rail[j].user /\ rail'[j].group = rail[j].group
           /\ rail'[j].live => rail[j].live,
         \A v : v # u /\ OneRow(rail, v) => OneRow(rail', v)
  PROVE  Answered'
<1>1. /\ Up /\ UNCHANGED chatVars /\ Head(toBrowser).type = type
  BY Taken
<1>2. Joined(u) /\ \A v : Joined(v)' <=> Joined(v)
  BY <1>1, HeardIsJoined DEF Joined, chatVars, socketVars
<1>3. AnsweredFor(u)'
  BY <1>2 DEF AnsweredFor
<1>4. ASSUME NEW v \in Partners, v # u PROVE AnsweredFor(v)'
  <2>1. AnsweredFor(v) /\ v \in Users
    BY <1>1, TabFacts DEF Answered
  <2>2. Due(v) => Due(v)'
    <3>1. ~ Refused(v, Head(toBrowser))
      BY <1>1 DEF Refused
    <3> QED BY <3>1, DueTaken
  <2>3. mapping'[v] = mapping[v]
    BY <1>4, <2>1
  <2>4. OneRow(rail, v) => OneRow(rail', v)
    BY <1>4
  <2>5. \A j \in DOMAIN rail' : rail'[j].user = v =>
          /\ j \in DOMAIN rail /\ rail'[j].user = rail[j].user /\ rail'[j].group = rail[j].group
          /\ rail'[j].live => rail[j].live
    BY <1>4
  <2> QED BY <1>2, <2>1, <2>2, <2>3, <2>4, <2>5 DEF AnsweredFor
<1> QED BY <1>3, <1>4 DEF Answered

\* The page shows an invite, a partner who is back, or a message.
LEMMA ShowsHeardAnswered ==
  ASSUME PageIInv, Answered, ShowsInvite \/ ShowsOnline \/ ShowsMessage, NEW u, u = Head(toBrowser).user
  PROVE  Answered'
<1>0. mapping \in Rail /\ rail \in Seq(RowType)
  BY DEF PageIInv, RailTypeOK
<1>1. CASE ShowsInvite
  <2>1. rail' = rail /\ Takes("invite") /\ \A v \in Users \ {u} : mapping'[v] = mapping[v]
    BY <1>0, <1>1 DEF ShowsInvite, Rail
  <2> QED BY <2>1, HeardAnswered
<1>2. CASE ShowsOnline
  <2> DEFINE g == Head(toBrowser).group
             more == Marked(g, TRUE)
  <2>1. /\ rail' = more /\ Takes("online") /\ \A v \in Users \ {u} : mapping'[v] = mapping[v]
    BY <1>0, <1>2 DEF ShowsOnline, Rail
  <2>2. u \in Partners /\ g \in Ours(u)
    BY <2>1, HeadFrame
  <2>3. \A j \in DOMAIN rail : rail[j].group = g => rail[j].user = u
    BY <2>2, RowOwner
  <2> HIDE DEF g
  <2>4. /\ \A v : OneRow(rail, v) => OneRow(more, v)
        /\ \A j \in DOMAIN more : /\ j \in DOMAIN rail /\ more[j].user = rail[j].user
                                  /\ more[j].group = rail[j].group
                                  /\ more[j].live => rail[j].live \/ rail[j].group = g
    BY <1>0, MarkedOnline
  <2> HIDE DEF more
  <2>5. /\ \A v : v # u /\ OneRow(rail, v) => OneRow(rail', v)
        /\ \A j \in DOMAIN rail' : rail'[j].user # u =>
             /\ j \in DOMAIN rail /\ rail'[j].user = rail[j].user /\ rail'[j].group = rail[j].group
             /\ rail'[j].live => rail[j].live
    BY <2>1, <2>3, <2>4
  <2> QED BY <2>1, <2>5, HeardAnswered
<1>3. CASE ShowsMessage
  <2>1. Takes("message")
    BY <1>3 DEF ShowsMessage
  <2>2. /\ \A v \in Users \ {u} : mapping'[v] = mapping[v]
        /\ \A j \in DOMAIN rail' : \/ j \in DOMAIN rail /\ rail'[j] = rail[j]
                                   \/ rail'[j].user = u /\ rail'[j].group \in Ours(u)
        /\ \A v : v # u /\ OneRow(rail, v) => OneRow(rail', v)
    BY <1>3, MessageRows
  <2>3. \A j \in DOMAIN rail' : rail'[j].user # u =>
          /\ j \in DOMAIN rail /\ rail'[j].user = rail[j].user /\ rail'[j].group = rail[j].group
          /\ rail'[j].live => rail[j].live
    BY <2>2
  <2> QED BY <2>1, <2>2, <2>3, HeardAnswered
<1> QED BY <1>1, <1>2, <1>3

\* A partner found offline: the row of the chat never joined is disabled.
LEMMA ShowsOfflineAnswered ==
  ASSUME PageIInv, Answered, ShowsOffline PROVE Answered'
<1> DEFINE g == Head(toBrowser).group
           rest == Marked(g, FALSE)
<1>1. /\ Takes("offline") /\ mapping' = mapping /\ rail' = rest /\ rail \in Seq(RowType)
  BY DEF ShowsOffline, PageIInv, RailTypeOK
<1>2. Up /\ UNCHANGED chatVars /\ Head(toBrowser).type = "offline" /\ \A v : Joined(v)' <=> Joined(v)
  BY <1>1, Taken DEF Joined, chatVars, socketVars
<1> HIDE DEF g
<1>3. /\ Thinned(rest, rail)
      /\ \A u : /\ OneRow(rail, u)
                /\ \A i \in DOMAIN rail : rail[i].group = g <=> rail[i].user = u
                => \A i \in DOMAIN rest : rest[i].user = u => ~ rest[i].live
  BY <1>1, MarkedOffline
<1> HIDE DEF rest
<1>4. ASSUME NEW v \in Partners PROVE AnsweredFor(v)'
  <2>1. AnsweredFor(v) /\ v \in Users
    BY <1>2, TabFacts DEF Answered
  <2>2. CASE ~ Refused(v, Head(toBrowser))
    <3>1. Due(v) => Due(v)'
      BY <1>1, <2>2, DueTaken
    <3> QED BY <1>1, <1>2, <1>3, <2>1, <3>1, AnsweredKept
  <2>3. CASE Refused(v, Head(toBrowser)) /\ ~ Joined(v)
    <3>1. g = GroupName(me, v) /\ g \in Ours(v)
      BY <1>2, <2>1, <2>3, TabFacts DEF Refused, g
    <3>2. /\ mapping[v] \in {NoGroup, GroupName(me, v)}
          /\ OneRow(rail, v)
          /\ \A i \in DOMAIN rail : rail[i].user = v =>
               rail[i].group = GroupName(me, v) /\ mapping[v] # NoGroup
      BY <2>1, <2>3 DEF AnsweredFor
    <3>3. \A i \in DOMAIN rail : rail[i].group = g <=> rail[i].user = v
      BY <3>1, <3>2, RowOwner
    <3>4. \A i \in DOMAIN rest : rest[i].user = v => ~ rest[i].live
      BY <1>3, <3>2, <3>3
    <3> QED BY <1>1, <1>3, <3>2, <3>4 DEF AnsweredFor, Thinned
  <2>4. CASE Joined(v)
    BY <1>2, <2>4 DEF AnsweredFor
  <2> QED BY <2>2, <2>3, <2>4
<1> QED BY <1>4 DEF Answered

\* A denied chat: its row goes.
LEMMA ShowsDeniedAnswered ==
  ASSUME PageIInv, Answered, ShowsDenied, NEW u, u = Head(toBrowser).user PROVE Answered'
<1>1. Takes("denied")
  BY DEF ShowsDenied
<1>2. Up /\ UNCHANGED chatVars /\ Head(toBrowser).type = "denied" /\ \A v : Joined(v)' <=> Joined(v)
  BY <1>1, Taken DEF Joined, chatVars, socketVars
<1>3. /\ u \in Partners
      /\ mapping'[u] = NoGroup
      /\ \A v \in Users \ {u} : mapping'[v] = mapping[v]
      /\ Thinned(rail', rail)
      /\ mapping[u] = NoGroup => rail' = rail
      /\ mapping[u] # NoGroup /\ OneRow(rail, u)
           /\ (\A i \in DOMAIN rail : rail[i].user = u => rail[i].group = mapping[u])
         => NoRow(rail', u)
  BY DeniedRows
<1>4. ASSUME NEW v \in Partners, v # u PROVE AnsweredFor(v)'
  <2>1. AnsweredFor(v) /\ v \in Users
    BY <1>2, TabFacts DEF Answered
  <2>2. ~ Refused(v, Head(toBrowser))
    BY <1>2, <1>4 DEF Refused
  <2>3. Due(v) => Due(v)'
    BY <1>1, <2>2, DueTaken
  <2> QED BY <1>2, <1>3, <1>4, <2>1, <2>3, AnsweredKept
<1>5. AnsweredFor(u)'
  <2> SUFFICES ASSUME ~ Joined(u) PROVE AnsweredFor(u)'
    BY <1>2 DEF AnsweredFor
  <2>1. /\ mapping[u] \in {NoGroup, GroupName(me, u)}
        /\ OneRow(rail, u)
        /\ \A i \in DOMAIN rail : rail[i].user = u =>
             rail[i].group = GroupName(me, u) /\ mapping[u] # NoGroup
    BY <1>2, <1>3 DEF Answered, AnsweredFor
  <2>2. NoRow(rail', u)
    BY <1>3, <2>1 DEF NoRow
  <2> QED BY <1>3, <2>2 DEF AnsweredFor, NoRow, OneRow
<1> QED BY <1>4, <1>5 DEF Answered

\* A step of the consumer, or of the others, after which every row is still due
\* its answer or joined.
LEMMA DueAnswered ==
  ASSUME Answered, UNCHANGED pageVars, Up' => Up,
         \A v \in Partners : Joined(v) => Joined(v)',
         \A v \in Partners : ~ Joined(v)' /\ Due(v) => Due(v)'
  PROVE  Answered'
<1> SUFFICES ASSUME Up', NEW v \in Partners PROVE AnsweredFor(v)'
  BY DEF Answered
<1>1. AnsweredFor(v)
  BY DEF Answered
<1>2. rail' = rail /\ mapping' = mapping
  BY DEF pageVars
<1>3. Thinned(rail', rail)
  BY <1>2, ThinnedTwice
<1> QED BY <1>1, <1>2, <1>3, AnsweredKept

\* What is waiting or under way to the page when more comes.
LEMMA DueMore ==
  ASSUME Range(toBrowser) \subseteq Range(toBrowser)', Range(inbox[Tab]) \subseteq Range(inbox[Tab])',
         NEW v, InviteWaits(v) => InviteWaits(v)',
         conn[Tab] = "inviting" /\ asking[Tab] = v => conn'[Tab] = "inviting" /\ asking'[Tab] = v,
         Due(v)
  PROVE  Due(v)'
BY DEF Due, Refused

\* The consumer takes an invite: what answers it is under way, or the chat is joined.
LEMMA ReadsInviteAnswered ==
  ASSUME PageIInv, ChatsIInv, Answered, Roomy, NEW u \in Partners, ReadsInvite(u) PROVE Answered'
<1> USE DEF PageIInv
<1>0. /\ conn[Tab] = "idle" /\ u \in Users /\ Up /\ UNCHANGED <<groups, pageVars>>
      /\ Reads("invite", u)
  BY TabFacts DEF ReadsInvite, Reads, InviteChecks, Up, chatVars, socketVars
<1>1. /\ \A v : InviteWaits(v) <=> InviteWaits(v)' \/ v = u
      /\ registered[Tab]
  <2>1. \A v : InviteWaits(v) <=> InviteWaits(v)' \/ v = u
    BY <1>0, RequestRead DEF RailTypeOK
  <2> QED BY <2>1 DEF PageBegins
<1>2. \A v : Joined(v)' <=> Joined(v)
  BY <1>0 DEF Joined
<1>3. /\ Range(toBrowser) \subseteq Range(toBrowser)' /\ Range(inbox[Tab]) \subseteq Range(inbox[Tab])'
      /\ ~ Joined(u) => Due(u)'
  <2>1. CASE u \in Open(Tab) /\ UNCHANGED <<chatVars, toBrowser>>
    <3>1. Joined(u)
      BY <1>0, <2>1, TabFacts DEF Open, ChatsIInv, RailIsJoined, PrivateGroupsArePrivate, Joined, me
    <3> QED BY <2>1, <3>1 DEF Range, chatVars, socketVars
  <2>2. CASE Tells(FrameOf("denied", u, NoGroup)) /\ UNCHANGED chatVars
    <3> DEFINE f == FrameOf("denied", u, NoGroup)
    <3>1. f \in Frame /\ f.type = "denied" /\ f.user = u
      BY <1>0 DEF FrameOf, Frame
    <3> HIDE DEF f
    <3>2. Range(toBrowser)' = Range(toBrowser) \cup {f}
      BY <2>2, <3>1, Told DEF f
    <3>3. Range(inbox[Tab])' = Range(inbox[Tab])
      BY <2>2 DEF chatVars, socketVars, Range
    <3> QED BY <3>1, <3>2, <3>3 DEF Due, Refused
  <2>3. CASE InviteChecks(Tab, u) /\ u \in online \cup Bots /\ UNCHANGED toBrowser
    <3>1. conn'[Tab] = "inviting" /\ asking'[Tab] = u /\ UNCHANGED inbox
      BY <2>3, TabFacts DEF InviteChecks, ChatsIInv, ChatTypeOK
    <3> QED BY <2>3, <3>1 DEF Due, Range
  <2>4. CASE InviteChecks(Tab, u) /\ u \notin online \cup Bots /\ UNCHANGED toBrowser
    <3> DEFINE notice == [type |-> "offline", user |-> u, group |-> InviteGroup(Tab, u)]
    <3>1. Notify(Listening(me), notice) /\ notice \in Notice
      BY <1>0, <2>4, TabFacts, NoticesSent DEF InviteChecks, me
    <3>2. notice.type = "offline" /\ notice.group = InviteGroup(Tab, u)
      OBVIOUS
    <3> HIDE DEF notice
    <3>3. Tab \in Listening(me)
      BY <1>1, TabFacts DEF Listening, me
    <3>4. Range(inbox[Tab]) \subseteq Range(inbox[Tab])' /\ notice \in Range(inbox[Tab])'
      BY <3>1, <3>3, TabNotified DEF ChatsIInv
    <3>5. ~ Joined(u) => InviteGroup(Tab, u) = GroupName(me, u)
      <4>1. chats[Tab][u] # NoGroup => Joined(u)
        BY <1>0, TabFacts DEF ChatsIInv, RailIsJoined, PrivateGroupsArePrivate, Joined, me
      <4> QED BY <4>1 DEF InviteGroup, me
    <3>6. Range(toBrowser)' = Range(toBrowser)
      BY <2>4 DEF Range
    <3> QED BY <3>2, <3>4, <3>5, <3>6 DEF Due, Refused
  <2> QED BY <2>1, <2>2, <2>3, <2>4 DEF ReadsInvite
<1>4. \A v \in Partners : ~ Joined(v)' /\ Due(v) => Due(v)'
  <2>1. \A v \in Partners \ {u} : Due(v) => Due(v)'
    BY <1>0, <1>1, <1>3, DueMore
  <2> QED BY <1>2, <1>3, <2>1
<1> QED BY <1>0, <1>2, <1>4, DueAnswered

\* The consumer joins a chat, or a partner invites into one.
LEMMA JoinsAnswered ==
  ASSUME PageIInv, ChatsIInv, Answered, NEW u \in Partners,
         (JoinsInvite /\ u = asking[Tab]) \/ InvitedBy(u)
  PROVE  Answered'
<1> USE DEF PageIInv
<1>1. PICK g \in Ours(u) : Keep(Tab, u, g)
  <2>1. CASE JoinsInvite /\ u = asking[Tab]
    BY <2>1, TabFacts, InviteGroupPair DEF JoinsInvite, InviteJoins, ChatsIInv, me
  <2>2. CASE InvitedBy(u)
    <3>1. Head(inbox[Tab]).group \in Ours(u)
      BY <2>2, TabFacts, HeadPair DEF InvitedBy, Invited, me
    <3> QED BY <2>2, <3>1 DEF InvitedBy, Invited
  <2> QED BY <2>1, <2>2
<1>2. groups'[Tab] = groups[Tab] \cup {g}
  BY <1>1, TabFacts, KeepFields DEF ChatsIInv
<1>3. Joined(u)' /\ \A v : Joined(v) => Joined(v)'
  BY <1>1, <1>2 DEF Joined
<1>4. UNCHANGED <<pageVars, toServer>> /\ Up
  BY DEF JoinsInvite, InviteJoins, InvitedBy, Invited, Up
<1>5. \A v : InviteWaits(v)' <=> InviteWaits(v)
  BY <1>4, RequestsSame
<1>6. ASSUME NEW v \in Partners, v # u, Due(v) PROVE Due(v)'
  <2>1. CASE JoinsInvite /\ u = asking[Tab]
    <3>1. UNCHANGED <<toBrowser, inbox>>
      BY <2>1 DEF JoinsInvite, InviteJoins
    <3>2. Range(toBrowser)' = Range(toBrowser) /\ Range(inbox[Tab])' = Range(inbox[Tab])
      BY <3>1 DEF Range
    <3> QED BY <1>5, <1>6, <2>1, <3>2, DueMore
  <2>2. CASE InvitedBy(u)
    <3> DEFINE f == FrameOf("invite", u, Head(inbox[Tab]).group)
    <3>1. /\ conn[Tab] = "idle" /\ Tells(f) /\ inbox[Tab] # <<>> /\ inbox' = [inbox EXCEPT ![Tab] = Tail(@)]
          /\ Head(inbox[Tab]).type = "invite"
      BY <2>2 DEF InvitedBy, Invited
    <3>2. f \in Frame
      BY <2>2, <3>1, TabFacts, TabTakes DEF FrameOf, Frame, Notice, ChatsIInv
    <3> HIDE DEF f
    <3>3. /\ Range(toBrowser) \subseteq Range(toBrowser)'
          /\ Range(inbox[Tab]) = Range(inbox[Tab])' \cup {Head(inbox[Tab])}
      BY <3>1, <3>2, Told, TabTakes DEF ChatsIInv
    <3>4. ~ Refused(v, Head(inbox[Tab]))
      BY <3>1 DEF Refused
    <3> QED BY <1>5, <1>6, <3>1, <3>3, <3>4 DEF Due, Refused
  <2> QED BY <2>1, <2>2
<1> QED BY <1>3, <1>4, <1>6, DueAnswered

\* A notice that a partner is gone becomes a frame of the same group.
LEMMA ToldOfflineAnswered ==
  ASSUME PageIInv, ChatsIInv, Answered, NEW u \in Partners, ToldOffline(u) PROVE Answered'
<1> USE DEF PageIInv
<1> DEFINE g == Head(inbox[Tab]).group
           f == FrameOf("offline", u, g)
<1>1. /\ conn[Tab] = "idle" /\ Up /\ Tells(f)
      /\ inbox[Tab] # <<>> /\ inbox' = [inbox EXCEPT ![Tab] = Tail(@)]
      /\ Head(inbox[Tab]).type = "offline"
      /\ UNCHANGED <<conn, asking, groups, pageVars, toServer>>
  BY DEF ToldOffline, PartnerOffline, Up
<1>2. /\ f \in Frame /\ f.type = "offline" /\ f.group = g
      /\ Range(inbox[Tab]) = Range(inbox[Tab])' \cup {Head(inbox[Tab])}
  BY <1>1, TabFacts, TabTakes DEF FrameOf, Frame, Notice, ChatsIInv
<1> HIDE DEF f
<1>3. Range(toBrowser)' = Range(toBrowser) \cup {f}
  BY <1>1, <1>2, Told
<1>4. \A v : /\ InviteWaits(v)' <=> InviteWaits(v)
             /\ Joined(v)' <=> Joined(v)
  BY <1>1, RequestsSame DEF Joined
<1>5. ASSUME NEW v \in Partners, Due(v) PROVE Due(v)'
  <2>1. Refused(v, Head(inbox[Tab])) => Refused(v, f)
    BY <1>1, <1>2 DEF Refused
  <2> QED BY <1>1, <1>2, <1>3, <1>4, <1>5, <2>1 DEF Due, Refused
<1> QED BY <1>1, <1>4, <1>5, DueAnswered

\* Everything else that leaves the page alone only adds to what is under way.
LEMMA QuietAnswered ==
  ASSUME Answered, UNCHANGED <<groups, pageVars>>, Up' => Up,
         \A v : InviteWaits(v) => InviteWaits(v)',
         \A v \in Partners : conn[Tab] = "inviting" /\ asking[Tab] = v
                               => conn'[Tab] = "inviting" /\ asking'[Tab] = v,
         Range(toBrowser) \subseteq Range(toBrowser)', Range(inbox[Tab]) \subseteq Range(inbox[Tab])'
  PROVE  Answered'
<1>1. \A v \in Partners : Due(v) => Due(v)'
  BY DueMore
<1>2. \A v \in Partners : Joined(v) => Joined(v)'
  BY DEF Joined
<1> QED BY <1>1, <1>2, DueAnswered

\* What the other users do leaves the answers due as they are.
LEMMA OthersAnswered ==
  ASSUME PageIInv, ChatsIInv, Answered, OthersStep PROVE Answered'
<1>1. ASSUME NEW u \in Partners, NEW type \in {"invite", "offline"}, NEW g \in Ours(u),
             Waits([type |-> type, user |-> u, group |-> g])
      PROVE  /\ Range(inbox[Tab]) \subseteq Range(inbox[Tab])'
             /\ UNCHANGED <<conn, groups, asking>>
  <2> DEFINE notice == [type |-> type, user |-> u, group |-> g]
  <2>1. notice \in Notice
    BY TabFacts DEF Notice
  <2> HIDE DEF notice
  <2>2. Notify(Listening(me), notice) /\ UNCHANGED <<conn, groups, asking>>
    BY <1>1 DEF Waits, notice
  <2> QED BY <2>1, <2>2, TabNotified DEF ChatsIInv
<1>2. /\ UNCHANGED <<pageVars, toServer, toBrowser, conn, groups, asking>>
      /\ Range(inbox[Tab]) \subseteq Range(inbox[Tab])'
  <2>1. ASSUME NEW u \in Partners \ Bots, Comes(u) \/ Expires(u) PROVE <1>2!2 /\ <1>2!1
    BY <2>1 DEF Comes, Expires, MarkerExpires, ChatsExpire, socketVars, Range
  <2>2. ASSUME NEW u \in Users, Expires(u) PROVE <1>2!2 /\ <1>2!1
    BY <2>2 DEF Expires, MarkerExpires, ChatsExpire, socketVars, Range
  <2>3. ASSUME NEW u \in Partners \ Bots, Invites(u) PROVE <1>2!2 /\ <1>2!1
    <3>1. PICK g \in {GroupName(u, me)} \cup (theirs \cap Ours(u)) :
            Waits([type |-> "invite", user |-> u, group |-> g])
      BY <2>3 DEF Invites
    <3>2. g \in Ours(u)
      BY DEF Ours
    <3> QED BY <1>1, <2>3, <3>1, <3>2 DEF Invites
  <2>4. ASSUME NEW u \in Partners \ Bots, Goes(u) PROVE <1>2!2 /\ <1>2!1
    <3>1. PICK g \in theirs \cap Ours(u) : Waits([type |-> "offline", user |-> u, group |-> g])
      BY <2>4 DEF Goes
    <3> QED BY <1>1, <2>4, <3>1 DEF Goes
  <2> QED BY <2>1, <2>2, <2>3, <2>4 DEF OthersStep
<1>3. \A v : InviteWaits(v) => InviteWaits(v)'
  BY <1>2, RequestsSame
<1>4. Range(toBrowser)' = Range(toBrowser) /\ (Up' => Up)
  BY <1>2 DEF Range, Up
<1> QED BY <1>2, <1>3, <1>4, QuietAnswered

\* Every step that leaves room in the channel keeps the answers due.
LEMMA AnsweredStep ==
  ASSUME RailIInv, RailIInv', Answered, Roomy, [RailNext]_railVars PROVE Answered'
<1> USE DEF RailIInv
<1>1. CASE PageStep
  <2>1. CASE Loads
    <3>1. conn'[Tab] = "opening"
      BY <2>1, TabFacts DEF Loads, Opens, ChatsIInv, ChatTypeOK
    <3>2. Blank'
      BY <3>1 DEF PageIInv, PageBegins
    <3> QED BY <3>2, BlankAnswered
  <2>2. ASSUME NEW u \in Partners, Clicks(u) PROVE Answered'
    BY <2>2, ClicksAnswered
  <2>3. ASSUME NEW i \in DOMAIN rail, ClosesRow(i) PROVE Answered'
    <3>1. PICK u : rail[i].user = u
      OBVIOUS
    <3> QED BY <2>3, <3>1, ClosesRowAnswered
  <2>4. PICK h : h = Head(toBrowser).user
    OBVIOUS
  <2>5. CASE ShowsRestored
    BY <2>5, RestoredAnswered
  <2>6. CASE ShowsInvite \/ ShowsOnline \/ ShowsMessage
    BY <2>4, <2>6, ShowsHeardAnswered
  <2>7. CASE ShowsOffline
    BY <2>7, ShowsOfflineAnswered
  <2>8. CASE ShowsDenied
    BY <2>4, <2>8, ShowsDeniedAnswered
  <2> QED BY <1>1, <2>1, <2>2, <2>3, <2>5, <2>6, <2>7, <2>8 DEF PageStep
<1>2. CASE ConsumerStep
  <2>1. CASE RestoresRail
    <3>1. conn[Tab] = "opening" /\ UNCHANGED <<pageVars, toServer, ghosts>>
      BY <2>1 DEF RestoresRail, Restores
    <3>2. Blank'
      BY <3>1 DEF PageIInv, PageBegins, Blank, pageVars, ghosts, Range
    <3> QED BY <3>2, BlankAnswered
  <2>2. ASSUME ReadsRegister \/ \E u \in Partners : ReadsClose(u) PROVE Answered'
    <3>1. PICK type \in {"register", "close"}, u \in Users : Reads(type, u)
      BY <2>2, TabFacts DEF ReadsRegister, ReadsClose
    <3>2. /\ UNCHANGED <<conn, groups, asking, inbox, toBrowser, pageVars>>
      BY <2>2 DEF ReadsRegister, Registers, ReadsClose, Closes, Reads, chatVars, socketVars
    <3>3. \A v : InviteWaits(v) => InviteWaits(v)'
      BY <3>1, RequestRead DEF PageIInv, RailTypeOK
    <3>4. Range(toBrowser)' = Range(toBrowser) /\ Range(inbox[Tab])' = Range(inbox[Tab]) /\ (Up' => Up)
      BY <3>2 DEF Range, Up
    <3> QED BY <3>2, <3>3, <3>4, QuietAnswered
  <2>3. CASE JoinsInvite
    <3>1. PICK u : u = asking[Tab]
      OBVIOUS
    <3>2. u \in Partners
      BY <2>3, <3>1 DEF JoinsInvite, InviteJoins, PageIInv, Belonging
    <3> QED BY <2>3, <3>1, <3>2, JoinsAnswered
  <2>4. CASE TellsInvite
    <3>1. PICK u : u = asking[Tab]
      OBVIOUS
    <3> DEFINE notice == [type |-> "invite", user |-> me, group |-> chats[Tab][u]]
    <3>2. /\ conn[Tab] = "joined" /\ Notify(Listening(u), notice)
          /\ UNCHANGED <<groups, pageVars, toServer, toBrowser>>
      BY <2>4, <3>1 DEF TellsInvite, InviteTells, me
    <3>3. u \in Partners
      BY <3>1, <3>2 DEF PageIInv, Belonging
    <3>4. notice \in Notice
      BY <3>1, <3>2, <3>3, TabFacts DEF Notice, ChatsIInv, Kept, PrivateGroupsArePrivate, me
    <3> HIDE DEF notice
    <3>5. Range(inbox[Tab]) \subseteq Range(inbox[Tab])'
      BY <3>2, <3>4, TabNotified DEF ChatsIInv
    <3>6. \A v : InviteWaits(v) => InviteWaits(v)'
      BY <3>2, RequestsSame
    <3>7. Range(toBrowser)' = Range(toBrowser) /\ Up
      BY <3>2 DEF Range, Up
    <3> QED BY <3>2, <3>5, <3>6, <3>7, QuietAnswered
  <2>5. ASSUME NEW u \in Partners, ReadsInvite(u) \/ InvitedBy(u) \/ ToldOffline(u) PROVE Answered'
    BY <2>5, ReadsInviteAnswered, JoinsAnswered, ToldOfflineAnswered
  <2>6. ASSUME NEW u \in Partners, NEW type \in {"message", "online"}, NEW g \in Groups, Relays(type, u, g)
        PROVE  Answered'
    <3> DEFINE f == FrameOf(type, u, g)
    <3>1. f \in Frame /\ Tells(f) /\ UNCHANGED <<chatVars, pageVars, toServer>>
      BY <2>6, TabFacts DEF FrameOf, Frame, Relays
    <3> HIDE DEF f
    <3>2. Range(toBrowser) \subseteq Range(toBrowser)'
      BY <3>1, Told
    <3>3. \A v : InviteWaits(v) => InviteWaits(v)'
      BY <3>1, RequestsSame
    <3>4. UNCHANGED <<conn, groups, asking>> /\ Range(inbox[Tab])' = Range(inbox[Tab]) /\ (Up' => Up)
      BY <3>1 DEF Range, Up, chatVars, socketVars
    <3> QED BY <3>1, <3>2, <3>3, <3>4, QuietAnswered
  <2>7. CASE ClosesTab \/ GoneTab \/ DiesTab
    <3>1. ~ Up'
      BY <2>7, TabFacts DEF ClosesTab, Leaves, GoneTab, Gone, DiesTab, Dies, Up, ChatsIInv, ChatTypeOK
    <3> QED BY <3>1 DEF Answered
  <2> QED BY <1>2, <2>1, <2>2, <2>3, <2>4, <2>5, <2>6, <2>7 DEF ConsumerStep
<1>3. CASE OthersStep
  BY <1>3, OthersAnswered
<1>4. CASE UNCHANGED railVars
  <2>1. UNCHANGED <<conn, groups, asking, inbox, pageVars, toServer, toBrowser>>
    BY <1>4 DEF railVars, chatVars, socketVars
  <2>2. \A v : InviteWaits(v) => InviteWaits(v)'
    BY <2>1, RequestsSame
  <2>3. Range(toBrowser)' = Range(toBrowser) /\ Range(inbox[Tab])' = Range(inbox[Tab]) /\ (Up' => Up)
    BY <2>1 DEF Range, Up
  <2> QED BY <2>1, <2>2, <2>3, QuietAnswered
<1> QED BY <1>1, <1>2, <1>3, <1>4 DEF RailNext

\* What the invariant says once nothing is under way any more.
LEMMA QuietFacts ==
  ASSUME RailIInv, Quiet
  PROVE  /\ Up /\ Range(toServer) = {} /\ Range(toBrowser) = {} /\ Range(inbox[Tab]) = {}
         /\ asking[Tab] = NoUser
         /\ \A v : ~ InviteWaits(v) /\ ~ CloseWaits(v) /\ ~ Due(v)
<1>1. Up /\ Range(toServer) = {} /\ Range(toBrowser) = {} /\ Range(inbox[Tab]) = {}
  BY DEF Quiet, Up, Range
<1>2. conn[Tab] = "idle"
  BY DEF Quiet
<1>3. asking[Tab] = NoUser
  BY <1>2 DEF RailIInv, PageIInv, Belonging
<1> QED BY <1>1, <1>2, <1>3 DEF InviteWaits, CloseWaits, Due

\* Page, consumer and the frames and notices under way agree on the chats of the
\* tab, whatever the order in which the frames, the notices and the steps of
\* the handlers come.
THEOREM RailInvariant == RailSpec => []RailIInv
<1>1. RailInit => RailIInv
  BY RailInitially
<1>2. RailIInv /\ [RailNext]_railVars => RailIInv'
  BY RailIInvStep
<1> QED BY <1>1, <1>2, PTL DEF RailSpec

\* The rail, the mapping, the frames, the notices and the hash are what
\* chatView.js, sideBarView.js and ChatConsumer take them for.
THEOREM RailTypes == RailSpec => []RailTypeOK
<1>1. RailIInv => RailTypeOK
  BY DEF RailIInv, PageIInv
<1> QED BY <1>1, RailInvariant, PTL

\* Once page and consumer have nothing left to tell each other, the user can get
\* at every chat get_open_private_chats counts: restorePrivateChatsState and the
\* invites leave none behind, except one whose denial crossed a later request.
THEOREM CountedKnown == RailSpec => []CountedIsKnown
<1>1. RailIInv => CountedIsKnown
  <2> SUFFICES ASSUME RailIInv, Quiet, NEW u \in Open(Tab) \ crossed
               PROVE  mapping[u] # NoGroup /\ (Shows(u) \/ u \in silent)
    BY DEF CountedIsKnown
  <2>1. Up /\ Range(toBrowser) = {} /\ Counting(u) /\ u \in Users
    BY QuietFacts DEF Counting, Open
  <2> QED BY <2>1 DEF RailIInv, PageIInv, Known
<1> QED BY <1>1, RailInvariant, PTL

\* A row the user closed does not come back through reconnects, restored hashes
\* or crossing frames, until one of the two opens the chat again.
THEOREM ClosedStays == RailSpec => []ClosedStaysClosed
<1>1. RailIInv => ClosedStaysClosed
  BY DEF RailIInv, PageIInv, Dropped, ClosedStaysClosed
<1> QED BY <1>1, RailInvariant, PTL

\* As long as the layer drops nothing of the tab's, no composer stays enabled in
\* a chat whose group the consumer is not in: every request handle_private_invite
\* does not grant is answered, and the answer finds the row.
THEOREM WritableJoined == RailSpec /\ []Roomy => []WritableIsJoined
<1>1. RailInit => RailIInv /\ Answered
  <2>1. RailInit => RailIInv
    BY RailInitially
  <2>2. RailInit => ~ Up
    BY TabFacts DEF RailInit, ChatInit, Up
  <2> QED BY <2>1, <2>2 DEF Answered
<1>2. RailIInv /\ Answered /\ Roomy /\ [RailNext]_railVars => RailIInv' /\ Answered'
  BY RailIInvStep, AnsweredStep
<1>3. RailIInv /\ Answered => WritableIsJoined
  <2> SUFFICES ASSUME RailIInv, Answered, Quiet, NEW i \in DOMAIN rail, rail[i].live
               PROVE  groups[Tab] \cap Ours(rail[i].user) # {}
    BY DEF WritableIsJoined
  <2>1. PICK u : rail[i].user = u
    OBVIOUS
  <2>2. u \in Partners
    BY <2>1 DEF RailIInv, PageIInv, Belonging, Chatted
  <2>3. Up /\ ~ Due(u)
    BY QuietFacts
  <2>4. Joined(u)
    BY <2>1, <2>2, <2>3 DEF Answered, AnsweredFor
  <2> QED BY <2>1, <2>4 DEF Joined
<1> QED BY <1>1, <1>2, <1>3, PTL DEF RailSpec
===============================================================================
