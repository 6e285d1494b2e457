------------------------------ MODULE GuestIdentity ------------------------------
(***************************************************************************)
(* Nicknames of guests and accounts.  The browser of a guest carries a     *)
(* signed token of a nickname and an id; Redis holds which id owns a       *)
(* nickname, which nickname an id has, and the set of active nicknames.    *)
(* The chat page (submitted, or visited again), login and signup, the      *)
(* WebSocket handshake, the disconnect and the logout are sequences of     *)
(* single Redis commands; those of several browsers, and of several tabs   *)
(* of one, interleave.  An account enters under its user name with its     *)
(* primary key as id, and without a look at who has the nickname.          *)
(***************************************************************************)
EXTENDS Naturals

CONSTANTS Browsers,  \* guests
          Tabs,      \* sockets
          BrowserOf, \* the browser of each tab
          Nicks,     \* nicknames and user names, lower case
          MaxIds,    \* bound on the ids of guests
          NoToken,
          NoUser     \* nobody is logged in

NoId == 0
\* The primary key of an account stands as its nickname: it has no other.
Token == [nick : Nicks, id : 1 .. MaxIds \cup Nicks]
OfAccount(n) == [nick |-> n, id |-> n]
Guests == {k \in Token : k.id \notin Nicks}

ASSUME GuestAssumption ==
  /\ BrowserOf \in [Tabs -> Browsers]
  /\ MaxIds \in Nat
  /\ NoToken \notin Token /\ NoUser \notin Nicks
  /\ Nicks \cap (0 .. MaxIds) = {}

VARIABLES
  owner,      \* USERNAME_TO_UUID_KEY of each nickname, NoId when absent
  named,      \* the ids whose ID_TO_USERNAME_KEY exists, each with its nickname
  active,     \* REDIS_ALL_USERNAMES_KEY
  nextId,     \* user:next_id
  accounts,   \* the user names in the database
  user,       \* who is logged in to each browser
  cookie,     \* GUEST_SESSION_COOKIE of each browser
  at,         \* the step of the page or logout request of each browser
  work,       \* the token it works with
  sock,       \* the stage of each socket
  as,         \* the identity of each socket
  lost,       \* ghost: the sockets whose nickname was cleaned up under them
  overlapped, \* ghost: nicknames two browsers were admitted to at the same time
  elder       \* ghost: browsers that had a nickname when an account was made of it

redisVars == <<owner, named, active, nextId>>
pageVars == <<cookie, at, work>>
userVars == <<accounts, user, elder>>
sockVars == <<sock, as>>
vars == <<redisVars, pageVars, userVars, sockVars, lost, overlapped>>

GuestTypeOK ==
  /\ owner \in [Nicks -> 0 .. MaxIds \cup Nicks]
  /\ named \subseteq Token
  /\ active \subseteq Nicks
  /\ nextId \in 0 .. MaxIds
  /\ accounts \subseteq Nicks
  /\ user \in [Browsers -> accounts \cup {NoUser}]
  /\ elder \subseteq Browsers \X accounts
  /\ cookie \in [Browsers -> Guests \cup {NoToken}]
  /\ at \in [Browsers -> {"idle", "read", "register", "own", "revoke"}]
  /\ work \in [Browsers -> Token \cup {NoToken}]
  /\ \A b \in Browsers : at[b] = "idle" <=> work[b] = NoToken
  /\ sock \in [Tabs -> {"closed", "read", "opening", "open"}]
  /\ as \in [Tabs -> Token \cup {NoToken}]
  /\ \A t \in Tabs : sock[t] = "closed" <=> as[t] = NoToken
  /\ lost \subseteq {t \in Tabs : sock[t] \in {"opening", "open"}}
  /\ overlapped \subseteq Nicks

GuestInit ==
  /\ owner = [n \in Nicks |-> NoId]
  /\ named = {} /\ active = {} /\ nextId = 0
  /\ accounts = {} /\ elder = {}
  /\ user = [b \in Browsers |-> NoUser]
  /\ cookie = [b \in Browsers |-> NoToken]
  /\ at = [b \in Browsers |-> "idle"]
  /\ work = [b \in Browsers |-> NoToken]
  /\ sock = [t \in Tabs |-> "closed"]
  /\ as = [t \in Tabs |-> NoToken]
  /\ lost = {} /\ overlapped = {}
-------------------------------------------------------------------------------
Works(b, step, token) ==
  /\ at' = [at EXCEPT ![b] = step]
  /\ work' = [work EXCEPT ![b] = token]

Connects(t, stage, token) ==
  /\ sock' = [sock EXCEPT ![t] = stage]
  /\ as' = [as EXCEPT ![t] = token]

\* The identities a browser has in its cookie, its request and its sockets.
Tokens(b) ==
  ({cookie[b], work[b]} \cup {as[t] : t \in {u \in Tabs : BrowserOf[u] = b}}) \ {NoToken}

Owns(token) == owner[token.nick] = token.id

\* Browsers other than b that were admitted to n and have not finished entering.
Entering(b, n) ==
  {c \in Browsers \ {b} :
     \/ at[c] \in {"register", "own"} /\ work[c].nick = n
     \/ \E t \in Tabs : BrowserOf[t] = c /\ sock[t] = "opening" /\ as[t].nick = n}

Admitted(b, n) ==
  overlapped' = IF Entering(b, n) = {} THEN overlapped ELSE overlapped \cup {n}

\* The sockets that outlive a cleanup of n.
Loses(n) ==
  lost' = lost \cup {t \in Tabs : sock[t] \in {"opening", "open"} /\ as[t].nick = n}

(* claim_guest_identity and aclaim_guest_identity: SET NX, then GET.  The   *)
(* id's own key, which nothing here reads, is written in the same step, and *)
(* the timeout of a mapping that was found is renewed in it: no mapping     *)
(* runs out between its GET and its EXPIRE.                                 *)

Takes(token) ==
  /\ owner[token.nick] = NoId
  /\ owner' = [owner EXCEPT ![token.nick] = token.id]
  /\ named' = named \cup {token}

\* Mutant: membership of the active nicknames is read instead of the owner.
ConfirmsActive(token) ==
  /\ Owns(token) \/ token.nick \in active
  /\ named' = named \cup {token}
  /\ UNCHANGED owner

Confirms(token) ==
  /\ Owns(token)
  /\ named' = named \cup {token}
  /\ UNCHANGED owner
-------------------------------------------------------------------------------
(* The chat page.                                                          *)

\* Mutant: ids are numbered by a read and a write.
SubmitsOldId(b, n) ==
  /\ at[b] = "idle"
  /\ user[b] = NoUser /\ n \notin active \cup accounts
  /\ nextId < MaxIds
  /\ Works(b, "register", [nick |-> n, id |-> nextId + 1])
  /\ Admitted(b, n)
  /\ nextId' \in {nextId, nextId + 1}
  /\ UNCHANGED <<userVars, owner, named, active, cookie, sockVars, lost>>

\* Mutant: only the active nicknames are asked.
SubmitsAccountName(b, n) ==
  /\ at[b] = "idle"
  /\ user[b] = NoUser /\ n \notin active
  /\ nextId < MaxIds
  /\ nextId' = nextId + 1
  /\ Works(b, "register", [nick |-> n, id |-> nextId'])
  /\ Admitted(b, n)
  /\ UNCHANGED <<userVars, owner, named, active, cookie, sockVars, lost>>

\* ChatView.post: the nickname is neither active nor an account's; create_user_id.
Submits(b, n) ==
  /\ at[b] = "idle"
  /\ user[b] = NoUser /\ n \notin active \cup accounts
  /\ nextId < MaxIds
  /\ nextId' = nextId + 1
  /\ Works(b, "register", [nick |-> n, id |-> nextId'])
  /\ Admitted(b, n)
  /\ UNCHANGED <<userVars, owner, named, active, cookie, sockVars, lost>>

\* ChatView.get with a token: the nickname is free, or somebody has it.
Visits(b) ==
  /\ at[b] = "idle" /\ user[b] = NoUser /\ cookie[b] # NoToken
  /\ LET token == cookie[b]
     IN \/ /\ Takes(token)
           /\ Works(b, "register", token) /\ Admitted(b, token.nick)
        \/ /\ owner[token.nick] # NoId
           /\ Works(b, "read", token)
           /\ UNCHANGED <<owner, named, overlapped>>
  /\ UNCHANGED <<userVars, active, nextId, cookie, sockVars, lost>>

Revisits(b) ==
  /\ at[b] = "read"
  /\ LET token == work[b]
     IN \/ /\ Confirms(token)
           /\ Works(b, "register", token) /\ Admitted(b, token.nick)
           /\ UNCHANGED cookie
        \/ /\ ~ Owns(token)
           /\ cookie' = [cookie EXCEPT ![b] = NoToken]
           /\ Works(b, "idle", NoToken)
           /\ UNCHANGED <<owner, named, overlapped>>
  /\ UNCHANGED <<userVars, active, nextId, sockVars, lost>>

\* register_user_on_redis, up to the nickname's own key.
Registers(b) ==
  /\ at[b] = "register" /\ Works(b, "own", work[b])
  /\ active' = active \cup {work[b].nick}
  /\ named' = named \cup {work[b]}
  /\ UNCHANGED <<userVars, owner, nextId, cookie, sockVars, lost, overlapped>>

\* The nickname's key is written; a guest's page carries a fresh token, if it
\* arrives.  (Accounts get plain cookies nothing reads.)
Becomes(b) ==
  /\ at[b] = "own" /\ Works(b, "idle", NoToken)
  /\ owner' = [owner EXCEPT ![work[b].nick] = work[b].id]
  /\ \/ user[b] = NoUser /\ cookie' = [cookie EXCEPT ![b] = work[b]]
     \/ UNCHANGED cookie
  /\ UNCHANGED <<userVars, named, active, nextId, sockVars, lost, overlapped>>

\* ChatView of an account: it registers with its own id.
VisitsAccount(b) ==
  /\ at[b] = "idle" /\ user[b] # NoUser
  /\ Works(b, "register", OfAccount(user[b]))
  /\ UNCHANGED <<userVars, redisVars, cookie, sockVars, lost, overlapped>>

\* SignUpView.form_valid: the database alone says whether the name is free;
\* register_user_on_redis without an id.
SignsUp(b, n) ==
  /\ at[b] = "idle" /\ user[b] = NoUser
  /\ n \notin accounts
  /\ nextId < MaxIds
  /\ nextId' = nextId + 1
  /\ accounts' = accounts \cup {n}
  /\ user' = [user EXCEPT ![b] = n]
  /\ elder' = elder \cup {<<c, n>> : c \in {d \in Browsers : n \in {k.nick : k \in Tokens(d)}}}
  /\ Works(b, "register", [nick |-> n, id |-> nextId'])
  /\ UNCHANGED <<owner, named, active, cookie, sockVars, lost, overlapped>>

\* CustomLoginView.form_valid
LogsIn(b, n) ==
  /\ at[b] = "idle" /\ user[b] = NoUser
  /\ n \in accounts
  /\ user' = [user EXCEPT ![b] = n]
  /\ Works(b, "register", OfAccount(n))
  /\ UNCHANGED <<redisVars, accounts, elder, cookie, sockVars, lost, overlapped>>

\* The worker dies, or Redis fails.
Aborts(b) ==
  /\ at[b] # "idle" /\ Works(b, "idle", NoToken)
  /\ UNCHANGED <<userVars, redisVars, cookie, sockVars, lost, overlapped>>
-------------------------------------------------------------------------------
(* The socket.                                                             *)

\* The socket of an account: the session is all it is asked for.
HandshakesAccount(t) ==
  /\ sock[t] = "closed" /\ user[BrowserOf[t]] # NoUser
  /\ Connects(t, "opening", OfAccount(user[BrowserOf[t]]))
  /\ UNCHANGED <<userVars, redisVars, pageVars, lost, overlapped>>

Handshakes(t) ==
  /\ sock[t] = "closed" /\ user[BrowserOf[t]] = NoUser /\ cookie[BrowserOf[t]] # NoToken
  /\ LET token == cookie[BrowserOf[t]]
     IN \/ /\ Takes(token)
           /\ Connects(t, "opening", token) /\ Admitted(BrowserOf[t], token.nick)
        \/ /\ owner[token.nick] # NoId
           /\ Connects(t, "read", token)
           /\ UNCHANGED <<owner, named, overlapped>>
  /\ UNCHANGED <<userVars, active, nextId, pageVars, lost>>

Accepts(t) ==
  /\ sock[t] = "read"
  /\ LET token == as[t]
     IN \/ /\ Confirms(token)
           /\ Connects(t, "opening", token) /\ Admitted(BrowserOf[t], token.nick)
        \/ /\ ~ Owns(token)
           /\ Connects(t, "closed", NoToken)
           /\ UNCHANGED <<owner, named, overlapped>>
  /\ UNCHANGED <<userVars, active, nextId, pageVars, lost>>

\* Mutant: a connection does not restore the active nickname.
OpensQuietly(t) ==
  /\ sock[t] = "opening" /\ Connects(t, "open", as[t])
  /\ UNCHANGED <<userVars, redisVars, pageVars, lost, overlapped>>

\* accept, mark_user_online, register_username_as_active
Opens(t) ==
  /\ sock[t] = "opening" /\ Connects(t, "open", as[t])
  /\ active' = active \cup {as[t].nick}
  /\ UNCHANGED <<userVars, owner, named, nextId, pageVars, lost, overlapped>>

\* disconnect: cleanup_user_presence.  It waits for connect to end.
Disconnects(t) ==
  /\ sock[t] = "open" /\ Connects(t, "closed", NoToken)
  /\ active' = active \ {as[t].nick}
  /\ lost' = {u \in Tabs \ {t} : sock[u] \in {"opening", "open"} /\ (u \in lost \/ as[u].nick = as[t].nick)}
  /\ UNCHANGED <<userVars, owner, named, nextId, pageVars, overlapped>>

\* The server process dies: nothing is cleaned up.
Vanishes(t) ==
  /\ sock[t] # "closed" /\ Connects(t, "closed", NoToken)
  /\ lost' = lost \ {t}
  /\ UNCHANGED <<userVars, redisVars, pageVars, overlapped>>
-------------------------------------------------------------------------------
(* CloseChatSessionView and expiry.                                        *)

\* get_chat_identity: the guest token a browser still has comes first.
Identity(b) ==
  IF cookie[b] # NoToken THEN cookie[b]
  ELSE IF user[b] # NoUser THEN OfAccount(user[b]) ELSE NoToken

LogsOut(b) ==
  /\ at[b] = "idle" /\ Identity(b) # NoToken
  /\ Works(b, "revoke", Identity(b))
  /\ active' = active \ {Identity(b).nick}
  /\ Loses(Identity(b).nick)
  /\ UNCHANGED <<userVars, owner, named, nextId, cookie, sockVars, overlapped>>

\* revoke_guest_identity, the session ends and the cookie is deleted.
Revokes(b) ==
  /\ at[b] = "revoke" /\ Works(b, "idle", NoToken)
  /\ owner' = [owner EXCEPT ![work[b].nick] = NoId]
  /\ named' = {k \in named : k.id # work[b].id}
  /\ cookie' = [cookie EXCEPT ![b] = NoToken]
  /\ user' = [user EXCEPT ![b] = NoUser]
  /\ Loses(work[b].nick)
  /\ UNCHANGED <<active, nextId, accounts, elder, sockVars, overlapped>>

\* GUEST_SESSION_MAX_AGE after the last refresh: the open socket of a guest
\* refreshes the mapping with every heartbeat, and whoever is being admitted has
\* just done so.
MappingExpires(n) ==
  /\ owner[n] # NoId
  /\ \A t \in Tabs : sock[t] \in {"opening", "open"} => as[t].nick # n \/ as[t].id = n
  /\ \A b \in Browsers : at[b] \in {"register", "own"} => ~ (work[b].nick = n /\ Owns(work[b]))
  /\ owner' = [owner EXCEPT ![n] = NoId]
  /\ named' = {k \in named : k.nick # n}
  /\ UNCHANGED <<userVars, active, nextId, pageVars, sockVars, lost, overlapped>>

\* A token lives as long as the mapping it was issued with.
TokenExpires(b) ==
  /\ cookie[b] # NoToken
  /\ cookie' = [cookie EXCEPT ![b] = NoToken]
  /\ UNCHANGED <<userVars, redisVars, at, work, sockVars, lost, overlapped>>

GuestNext ==
  \/ \E b \in Browsers :
       \/ \E n \in Nicks : Submits(b, n) \/ SignsUp(b, n) \/ LogsIn(b, n)
       \/ VisitsAccount(b) \/ Visits(b) \/ Revisits(b) \/ Registers(b) \/ Becomes(b) \/ Aborts(b)
       \/ LogsOut(b) \/ Revokes(b) \/ TokenExpires(b)
  \/ \E t \in Tabs : HandshakesAccount(t) \/ Handshakes(t) \/ Accepts(t) \/ Opens(t) \/ Disconnects(t) \/ Vanishes(t)
  \/ \E n \in Nicks : MappingExpires(n)

GuestSpec == GuestInit /\ [][GuestNext]_vars
-------------------------------------------------------------------------------
(* "A nickname can never be claimed by a different id": ids are of one     *)
(* guest or account and one nickname, in tokens, requests, sockets and     *)
(* both mappings, whatever expired or was taken over.                      *)
IdsNameOne ==
  /\ \A b, c \in Browsers : \A k \in Tokens(b), l \in Tokens(c) :
       k.id = l.id => k = l /\ (b = c \/ k \notin Guests)
  /\ \A k, l \in named : k.id = l.id => k = l
  /\ \A k \in named : \A n \in Nicks : owner[n] = k.id => n = k.nick

(* The nickname of an open socket stays reserved, refreshes of the page    *)
(* included, unless another socket or a logout of that nickname cleans up. *)
OpenIsReserved ==
  \A t \in Tabs \ lost : sock[t] = "open" => as[t].nick \in active

(* A nickname that is an account's goes to no other guest: who is there    *)
(* under it, or holds a token of it, already did when the account was      *)
(* made, whatever logouts and expiry have freed since.                     *)
AccountNamesAreClosed ==
  \A b \in Browsers : \A k \in Tokens(b) :
    k.nick \in accounts /\ k.id # k.nick /\ user[b] # k.nick => <<b, k.nick>> \in elder

(* Two guests are in the room under one nickname only if they entered at   *)
(* the same time, or its reservation was cleaned up under an open socket.  *)
OneGuestPerNick ==
  \A t, u \in Tabs \ lost :
    /\ sock[t] = "open" /\ sock[u] = "open"
    /\ as[t].nick = as[u].nick /\ {as[t], as[u]} \subseteq Guests
    /\ as[t].nick \notin overlapped
    => BrowserOf[t] = BrowserOf[u]
===============================================================================
