------------------------------ MODULE PrivateRail ------------------------------
(***************************************************************************)
(* The private chats one browser tab shows, against those its consumer     *)
(* keeps.  The consumer is that of PrivateChats, with no socket open but   *)
(* the tab's; the page (chatView.js, sideBarView.js, chatSocket.js) keeps  *)
(* its own idea of the chats and talks to the consumer over two ordered    *)
(* streams of frames.  The other users are an environment: they come and   *)
(* go, invite, write and return in the groups they can be in.  A page      *)
(* whose socket is gone only shows a banner until it is loaded again.      *)
(* Events that leave the consumer as it is (messages, a partner back       *)
(* online) are handled when nothing waits in the channel before them.      *)
(***************************************************************************)
EXTENDS PrivateChats, SequencesExt

CONSTANTS Tab,         \* the socket of the tab
          ProPage,     \* was the page rendered for a Pro user?
          MaxRequests, \* bound on the frames under way to the consumer
          MaxFrames,   \* bound on the frames under way to the page
          MaxRows,     \* bound on the rows of the rail
          MaxWaiting   \* bound on the notices other users have sent

ASSUME RailAssumption ==
  /\ Tab \in Sockets
  /\ IsFiniteSet(Users)
  /\ ProPage \in BOOLEAN
  /\ MaxRequests \in Nat \ {0}
  /\ MaxFrames \in Nat \ {0}
  /\ MaxRows \in Nat
  /\ MaxWaiting \in Nat

VARIABLES
  rail,       \* the rows of the rail, each with its conversation
  mapping,    \* _privateChatsMapping
  toServer,   \* frames on their way to the consumer
  toBrowser,  \* frames on their way to the page
  theirs,     \* the private groups the other users are in
  dismissed,  \* partners whose rows the user closed, who did not come back since
              \* and whose close the consumer did not overlook
  silent,     \* partners who invited since the page was loaded
  crossed     \* partners whose row went by a denial while a later request of
              \* the user for the same chat was under way, or granted

pageVars == <<rail, mapping>>
ghosts == <<dismissed, silent, crossed>>
railVars == <<chatVars, pageVars, toServer, toBrowser, theirs, ghosts>>

me == Owner[Tab]
Partners == Users \ {me}
Ours(u) == {GroupName(me, u), GroupName(u, me)}

\* Mutant: the two arguments of addPrivateChat swapped.
RowSwapped(u, g, live) == [user |-> g, group |-> u, live |-> live]

Row(u, g, live) == [user |-> u, group |-> g, live |-> live]
RowType == [user : Partners, group : Groups, live : BOOLEAN]
Request == [type : {"register", "invite", "close"}, user : Users]
Frame == [type : {"invite", "offline", "online", "message", "denied"},
          user : Users, group : Groups \cup {NoGroup}]
RestoredFrame == [type : {"restored"}, chats : Rail, online : SUBSET Users]

RailTypeOK ==
  /\ ChatTypeOK
  /\ rail \in Seq(RowType)
  /\ mapping \in Rail
  /\ toServer \in Seq(Request)
  /\ toBrowser \in Seq(Frame \cup RestoredFrame)
  /\ theirs \subseteq UNION {Ours(u) : u \in Partners}
  /\ dismissed \cup silent \cup crossed \subseteq Partners

RailInit ==
  /\ ChatInit
  /\ rail = <<>>
  /\ mapping = EmptyRail
  /\ toServer = <<>>
  /\ toBrowser = <<>>
  /\ theirs = {}
  /\ dismissed = {}
  /\ silent = {}
  /\ crossed = {}
-------------------------------------------------------------------------------
(* The page.                                                               *)

\* Its socket is open.
Up == conn[Tab] \notin {"off", "leaving"}

RowsOf(g) == {i \in DOMAIN rail : rail[i].group = g}
First(g) == CHOOSE i \in RowsOf(g) : \A j \in RowsOf(g) : i <= j
Shows(u) == \E i \in DOMAIN rail : rail[i].user = u

\* canOpenPrivateChat
Openable(g) ==
  \/ ProPage
  \/ IF RowsOf(g) # {} THEN First(g) <= Limit ELSE Len(rail) < Limit

Sends(type, u) ==
  /\ Len(toServer) < MaxRequests
  /\ toServer' = Append(toServer, [type |-> type, user |-> u])

\* removePrivateChat, of chatView and of sideBarView: the first row of that group.
Without(rows, g) ==
  IF \E i \in DOMAIN rows : rows[i].group = g
  THEN RemoveAt(rows, CHOOSE i \in DOMAIN rows :
                        rows[i].group = g /\ \A j \in 1 .. i - 1 : rows[j].group # g)
  ELSE rows

\* setPrivateChatOnline/Offline and markPrivateChatStatus
Marked(g, live) ==
  IF RowsOf(g) = {} THEN rail ELSE [rail EXCEPT ![First(g)].live = live]

\* A page load: a new page, a new socket, createMainChat as soon as it is open.
Loads ==
  /\ Opens(Tab)
  /\ toServer' = <<[type |-> "register", user |-> me]>>
  /\ UNCHANGED <<pageVars, toBrowser, theirs, ghosts>>

\* The group the page takes a chat with u to have.
KnownGroup(u) == IF mapping[u] # NoGroup THEN mapping[u] ELSE GroupName(me, u)

\* createPrivateChatGroup, from a name in the room, which came in a frame after
\* that of the restored rail.
Clicks(u) ==
  LET g == KnownGroup(u)
  IN /\ registered[Tab] /\ Len(rail) < MaxRows
     /\ \A i \in DOMAIN toBrowser : toBrowser[i].type # "restored"
     /\ Openable(g)
     /\ rail' = IF mapping[u] # NoGroup /\ RowsOf(g) # {} THEN rail
                ELSE Append(rail, Row(u, g, TRUE))
     /\ mapping' = [mapping EXCEPT ![u] = g]
     /\ Sends("invite", u)
     /\ dismissed' = dismissed \ {u}
     /\ crossed' = crossed \ {u}
     /\ UNCHANGED <<chatVars, toBrowser, theirs, silent>>

\* The close button of a row: the row, removePrivateChat, close_private_chat.
ClosesRow(i) ==
  LET u == rail[i].user
      rest == Without(RemoveAt(rail, i), rail[i].group)
  IN /\ Up
     /\ rail' = rest
     /\ mapping' = [mapping EXCEPT ![u] = NoGroup]
     /\ Sends("close", u)
     /\ dismissed' = IF \E j \in DOMAIN rest : rest[j].user = u
                     THEN dismissed ELSE dismissed \cup {u}
     /\ UNCHANGED <<chatVars, toBrowser, theirs, silent, crossed>>

\* handleMessage takes the frames one by one.
Takes(type) ==
  /\ Up
  /\ toBrowser # <<>> /\ Head(toBrowser).type = type
  /\ toBrowser' = Tail(toBrowser)
  /\ UNCHANGED <<chatVars, toServer, theirs, silent>>

\* Mutant: the mapping is restored, the rows are not drawn.
ShowsMappingOnly ==
  /\ Takes("restored")
  /\ mapping' = Head(toBrowser).chats
  /\ UNCHANGED <<rail, dismissed, crossed>>

\* restorePrivateChatsState; the order is that of the keys of an object.
ShowsRestored ==
  LET frame == Head(toBrowser)
      missing == {u \in Partners : frame.chats[u] # NoGroup /\ RowsOf(frame.chats[u]) = {}}
  IN /\ Takes("restored")
     /\ mapping' = frame.chats
     /\ \E order \in SetToSeqs(missing) :
          rail' = rail \o [i \in DOMAIN order |->
                     Row(order[i], frame.chats[order[i]], order[i] \in frame.online)]
     /\ UNCHANGED <<dismissed, crossed>>

\* handleChatInvite: the row is born with the first message.
ShowsInvite ==
  /\ Takes("invite")
  /\ mapping' = [mapping EXCEPT ![Head(toBrowser).user] = Head(toBrowser).group]
  /\ UNCHANGED <<rail, dismissed, crossed>>

\* handlePrivateChatOffline
ShowsOffline ==
  /\ Takes("offline")
  /\ rail' = Marked(Head(toBrowser).group, FALSE)
  /\ UNCHANGED <<mapping, dismissed, crossed>>

\* handlePrivateChatParticipantOnline
ShowsOnline ==
  /\ Takes("online")
  /\ mapping' = [mapping EXCEPT ![Head(toBrowser).user] = Head(toBrowser).group]
  /\ rail' = Marked(Head(toBrowser).group, TRUE)
  /\ UNCHANGED <<dismissed, crossed>>

\* Mutant: only the notice is shown.
ShowsDeniedNotice ==
  /\ Takes("denied")
  /\ UNCHANGED <<rail, mapping, dismissed, crossed>>

\* handlePrivateChatError: the answer does not say which request it is to.
ShowsDenied ==
  LET u == Head(toBrowser).user
  IN /\ Takes("denied")
     /\ rail' = IF mapping[u] = NoGroup THEN rail ELSE Without(rail, mapping[u])
     /\ mapping' = [mapping EXCEPT ![u] = NoGroup]
     /\ crossed' = IF \/ \E i \in DOMAIN toServer : toServer[i] = [type |-> "invite", user |-> u]
                      \/ asking[Tab] = u \/ u \in Open(Tab)
                   THEN crossed \cup {u} ELSE crossed
     /\ UNCHANGED dismissed

\* displayOtherUserMessage, _createMissingPrivateChat
ShowsMessage ==
  LET u == Head(toBrowser).user
      g == Head(toBrowser).group
      known == IF mapping[u] # NoGroup THEN mapping[u] ELSE g
  IN /\ Takes("message")
     /\ IF RowsOf(g) # {} THEN UNCHANGED <<rail, mapping>>
        ELSE /\ Len(rail) < MaxRows
             /\ mapping' = [mapping EXCEPT ![u] = known]
             /\ rail' = Append(rail, Row(u, known, TRUE))
     /\ dismissed' = dismissed \ {u}
     /\ UNCHANGED crossed
-------------------------------------------------------------------------------
(* The consumer.  Each step is one of PrivateChats, with the frames it     *)
(* takes and sends.                                                        *)

FrameOf(type, u, g) == [type |-> type, user |-> u, group |-> g]

Tells(frame) ==
  /\ Len(toBrowser) < MaxFrames
  /\ toBrowser' = Append(toBrowser, frame)

Reads(type, u) ==
  /\ conn[Tab] = "idle"
  /\ toServer # <<>> /\ Head(toServer) = [type |-> type, user |-> u]
  /\ toServer' = Tail(toServer)
  /\ UNCHANGED <<pageVars, theirs>>

\* restore_user_private_chat_groups: nothing is sent for an empty hash.
RestoresRail ==
  /\ Restores(Tab)
  /\ IF chats'[Tab] = EmptyRail THEN UNCHANGED toBrowser
     ELSE Tells([type |-> "restored", chats |-> chats'[Tab], online |-> online])
  /\ UNCHANGED <<pageVars, toServer, theirs, ghosts>>

ReadsRegister ==
  /\ Reads("register", me)
  /\ Registers(Tab)
  /\ UNCHANGED <<toBrowser, ghosts>>

\* handle_private_invite, with the two answers that change nothing here.
ReadsInvite(u) ==
  /\ Reads("invite", u)
  /\ \/ u \in Open(Tab) /\ UNCHANGED <<chatVars, toBrowser>>
     \/ /\ u \notin Open(Tab) /\ me \in Capped /\ Cardinality(Open(Tab)) >= Limit
        /\ Tells(FrameOf("denied", u, NoGroup))
        /\ UNCHANGED chatVars
     \/ InviteChecks(Tab, u) /\ UNCHANGED toBrowser
  /\ UNCHANGED ghosts

JoinsInvite ==
  /\ InviteJoins(Tab)
  /\ UNCHANGED <<pageVars, toServer, toBrowser, theirs, ghosts>>

\* The partner's consumer may miss the invite.
TellsInvite ==
  /\ InviteTells(Tab)
  /\ theirs' \in {theirs, theirs \cup {chats[Tab][asking[Tab]]}}
  /\ UNCHANGED <<pageVars, toServer, toBrowser, ghosts>>

\* handle_close_private_chat
ReadsClose(u) ==
  /\ Reads("close", u)
  /\ IF chats[Tab][u] # NoGroup
     THEN Closes(Tab, u) /\ UNCHANGED dismissed
     ELSE dismissed' = dismissed \ {u} /\ UNCHANGED chatVars
  /\ UNCHANGED <<toBrowser, silent, crossed>>

InvitedBy(u) ==
  /\ inbox[Tab] # <<>> /\ Head(inbox[Tab]).user = u
  /\ Invited(Tab)
  /\ Tells(FrameOf("invite", u, Head(inbox[Tab]).group))
  /\ silent' = silent \cup {u}
  /\ dismissed' = dismissed \ {u}
  /\ UNCHANGED <<pageVars, toServer, theirs, crossed>>

ToldOffline(u) ==
  /\ inbox[Tab] # <<>> /\ Head(inbox[Tab]).user = u
  /\ PartnerOffline(Tab)
  /\ Tells(FrameOf("offline", u, Head(inbox[Tab]).group))
  /\ UNCHANGED <<pageVars, toServer, theirs, ghosts>>

\* chat_message and private_chat_participant_online
Relays(type, u, g) ==
  /\ conn[Tab] = "idle" /\ inbox[Tab] = <<>>
  /\ u \in online \ Bots
  /\ g \in Ours(u) \cap theirs \cap groups[Tab]
  /\ Tells(FrameOf(type, u, g))
  /\ dismissed' = IF type = "message" THEN dismissed \ {u} ELSE dismissed
  /\ UNCHANGED <<chatVars, pageVars, toServer, theirs, silent, crossed>>

\* What is left of the page and of the frames: nothing acts on it any more.
PageGone ==
  /\ rail' = <<>>
  /\ mapping' = EmptyRail
  /\ toServer' = <<>>
  /\ toBrowser' = <<>>
  /\ silent' = {}
  /\ crossed' = {}

\* The tab is closed: what it has sent is handled before its disconnect().
ClosesTab ==
  /\ toServer = <<>>
  /\ Leaves(Tab)
  /\ PageGone
  /\ UNCHANGED <<theirs, dismissed>>

GoneTab ==
  /\ Gone(Tab)
  /\ UNCHANGED <<pageVars, toServer, toBrowser, theirs, ghosts>>

\* A dead server process takes unread frames along.
DiesTab ==
  /\ Dies(Tab)
  /\ dismissed' = dismissed \ {u \in Users : \E i \in DOMAIN toServer : toServer[i].user = u}
  /\ PageGone
  /\ UNCHANGED <<theirs>>
-------------------------------------------------------------------------------
(* The other users.                                                        *)

Comes(u) ==
  /\ u \notin online
  /\ online' = online \cup {u}
  /\ UNCHANGED <<socketVars, stored, pageVars, toServer, toBrowser, theirs, ghosts>>

Waits(notice) ==
  /\ Len(inbox[Tab]) < MaxWaiting
  /\ Notify(Listening(me), notice)
  /\ UNCHANGED <<conn, registered, chats, closed, groups, asking, stored>>

\* Their invite names the group they hold already, or one of their own.
Invites(u) ==
  /\ u \in online
  /\ \E g \in {GroupName(u, me)} \cup (theirs \cap Ours(u)) :
       /\ Waits([type |-> "invite", user |-> u, group |-> g])
       /\ theirs' = theirs \cup {g}
  /\ UNCHANGED <<online, pageVars, toServer, toBrowser, ghosts>>

\* Their disconnect tells the partners on their rail; their next page may
\* restore the groups or not.
Goes(u) ==
  /\ u \in online
  /\ online' = online \ {u}
  /\ \E g \in theirs \cap Ours(u) : Waits([type |-> "offline", user |-> u, group |-> g])
  /\ theirs' \in {theirs, theirs \ Ours(u)}
  /\ UNCHANGED <<pageVars, toServer, toBrowser, ghosts>>

\* A partner without a chat leaves, or one dies; hashes and markers expire.
Expires(u) ==
  /\ MarkerExpires(u) \/ (u = me /\ conn[Tab] = "off" /\ ChatsExpire(u))
  /\ UNCHANGED <<pageVars, toServer, toBrowser, theirs, ghosts>>

PageStep ==
  \/ Loads
  \/ \E u \in Partners : Clicks(u)
  \/ \E i \in DOMAIN rail : ClosesRow(i)
  \/ ShowsRestored \/ ShowsInvite \/ ShowsOffline \/ ShowsOnline
  \/ ShowsDenied \/ ShowsMessage

ConsumerStep ==
  \/ RestoresRail \/ ReadsRegister \/ JoinsInvite \/ TellsInvite
  \/ \E u \in Partners :
       \/ ReadsInvite(u) \/ ReadsClose(u) \/ InvitedBy(u) \/ ToldOffline(u)
       \/ \E type \in {"message", "online"}, g \in Groups : Relays(type, u, g)
  \/ ClosesTab \/ GoneTab \/ DiesTab

OthersStep ==
  \/ \E u \in Partners \ Bots : Comes(u) \/ Invites(u) \/ Goes(u)
  \/ \E u \in Users : Expires(u)

RailNext == PageStep \/ ConsumerStep \/ OthersStep

RailSpec == RailInit /\ [][RailNext]_railVars
-------------------------------------------------------------------------------
\* Page and consumer have nothing left to tell each other.
Quiet ==
  /\ conn[Tab] = "idle" /\ registered[Tab]
  /\ toServer = <<>> /\ toBrowser = <<>> /\ inbox[Tab] = <<>>

(* What the consumer counts against the ceiling the user can get at: it    *)
(* has a row, or is an invite without a message yet, which opens with a    *)
(* click.  restorePrivateChatsState exists for this: without it "the       *)
(* consumer would still be counting chats the user can no longer see".     *)
CountedIsKnown ==
  Quiet => \A u \in Open(Tab) \ crossed :
             mapping[u] # NoGroup /\ (Shows(u) \/ u \in silent)

(* Nobody writes into the void: the composer of a row is enabled only when *)
(* the consumer is in a group of these two users; a refused, offline or    *)
(* unknown partner leaves no such row behind.                              *)
WritableIsJoined ==
  Quiet => \A i \in DOMAIN rail : rail[i].live => groups[Tab] \cap Ours(rail[i].user) # {}

(* A row the user closed does not come back, not by a reload either (the   *)
(* chat is "dropped from Redis as well, so a reconnect does not silently   *)
(* restore" it, close_private_chat.py:26), until one of the two opens it   *)
(* again.  A close the consumer returns early from, because the partner    *)
(* has gone offline before, drops nothing: that row does come back.        *)
ClosedStaysClosed ==
  Quiet => \A u \in dismissed : ~Shows(u)
===============================================================================
