-------------------------- MODULE GuestIdentity_proofs --------------------------
(***************************************************************************)
(* For any browsers, tabs, nicknames and ids.  Ids name one holder because *)
(* a step learns no token but a fresh one or an account's own (Learns): all*)
(* others it copies from one that is already there.  The names of accounts *)
(* are closed because the token of a signup is the only one with another   *)
(* id that is made for such a name, and it is never kept (NamesClosed).    *)
(* A nickname has one guest because whoever has a seat keeps every other   *)
(* browser from being admitted to it: their tokens do not own it, nobody   *)
(* is about to write its owner, and it is active (SeatInv).                *)
(***************************************************************************)
EXTENDS GuestIdentity, TLAPS

\* A guest's page works with a guest's token.
WorksAsGuest ==
  \A b \in Browsers :
    user[b] = NoUser /\ at[b] \in {"read", "register", "own"} => work[b] \in Guests

GuestTypes == GuestTypeOK /\ WorksAsGuest
-------------------------------------------------------------------------------
\* Tokens: whose they are, and that none of them is absent.
LEMMA TokenFacts ==
  /\ Guests \subseteq Token
  /\ NoToken \notin Token
  /\ \A k \in Token : k.nick \in Nicks /\ k.id \in 1 .. MaxIds \cup Nicks
  /\ \A n \in Nicks : OfAccount(n) \in Token /\ OfAccount(n).nick = n /\ OfAccount(n).id = n
  /\ \A n \in Nicks : \A i \in 1 .. MaxIds :
       /\ [nick |-> n, id |-> i] \in Guests
       /\ [nick |-> n, id |-> i].nick = n /\ [nick |-> n, id |-> i].id = i
<1>1. \A n \in Nicks : \A i \in 1 .. MaxIds : [nick |-> n, id |-> i] \in Token /\ i \notin Nicks
  BY GuestAssumption DEF GuestAssumption, Token
<1>2. NoToken \notin Token
  BY GuestAssumption DEF GuestAssumption
<1>3. \A n \in Nicks : OfAccount(n) \in Token /\ OfAccount(n).nick = n /\ OfAccount(n).id = n
  BY DEF OfAccount, Token
<1>4. \A k \in Token : k.nick \in Nicks /\ k.id \in 1 .. MaxIds \cup Nicks
  BY DEF Token
<1> QED BY <1>1, <1>2, <1>3, <1>4 DEF Guests

\* Nobody is anybody at first.
LEMMA GuestTypesInit == GuestInit => GuestTypes
<1> SUFFICES ASSUME GuestInit PROVE GuestTypes
  OBVIOUS
<1>1. 0 \in 0 .. MaxIds
  BY GuestAssumption DEF GuestAssumption
<1>2. WorksAsGuest
  BY DEF GuestInit, WorksAsGuest
<1>3. /\ owner \in [Nicks -> 0 .. MaxIds \cup Nicks]
      /\ user \in [Browsers -> accounts \cup {NoUser}]
      /\ cookie \in [Browsers -> Guests \cup {NoToken}]
      /\ at \in [Browsers -> {"idle", "read", "register", "own", "revoke"}]
      /\ work \in [Browsers -> Token \cup {NoToken}]
      /\ \A b \in Browsers : at[b] = "idle" <=> work[b] = NoToken
      /\ sock \in [Tabs -> {"closed", "read", "opening", "open"}]
      /\ as \in [Tabs -> Token \cup {NoToken}]
      /\ \A t \in Tabs : sock[t] = "closed" <=> as[t] = NoToken
  BY <1>1 DEF GuestInit, NoId
<1> QED BY <1>1, <1>2, <1>3 DEF GuestInit, GuestTypes, GuestTypeOK

\* The page of b goes to a step with a token, or ends.
LEMMA WorksTyped ==
  ASSUME GuestTypeOK, NEW b \in Browsers, NEW step, NEW token, Works(b, step, token),
         \/ step \in {"read", "register", "own", "revoke"} /\ token \in Token
         \/ step = "idle" /\ token = NoToken
  PROVE  /\ at' \in [Browsers -> {"idle", "read", "register", "own", "revoke"}]
         /\ work' \in [Browsers -> Token \cup {NoToken}]
         /\ \A c \in Browsers : at'[c] = "idle" <=> work'[c] = NoToken
         /\ at'[b] = step /\ work'[b] = token
         /\ \A c \in Browsers \ {b} : at'[c] = at[c] /\ work'[c] = work[c]
BY TokenFacts DEF GuestTypeOK, Works

\* The socket t goes to a stage with an identity, or closes.
LEMMA ConnectsTyped ==
  ASSUME GuestTypeOK, NEW t \in Tabs, NEW stage, NEW token, Connects(t, stage, token),
         \/ stage \in {"read", "opening", "open"} /\ token \in Token
         \/ stage = "closed" /\ token = NoToken
  PROVE  /\ sock' \in [Tabs -> {"closed", "read", "opening", "open"}]
         /\ as' \in [Tabs -> Token \cup {NoToken}]
         /\ \A u \in Tabs : sock'[u] = "closed" <=> as'[u] = NoToken
         /\ sock'[t] = stage /\ as'[t] = token
         /\ \A u \in Tabs \ {t} : sock'[u] = sock[u] /\ as'[u] = as[u]
<1>1. /\ sock \in [Tabs -> {"closed", "read", "opening", "open"}]
      /\ as \in [Tabs -> Token \cup {NoToken}]
      /\ \A u \in Tabs : sock[u] = "closed" <=> as[u] = NoToken
  BY DEF GuestTypeOK
<1>2. sock' = [sock EXCEPT ![t] = stage] /\ as' = [as EXCEPT ![t] = token]
  BY DEF Connects
<1>3. sock' \in [Tabs -> {"closed", "read", "opening", "open"}] /\ sock'[t] = stage
  BY <1>1, <1>2
<1>4. as' \in [Tabs -> Token \cup {NoToken}] /\ as'[t] = token
  BY <1>1, <1>2
<1>5. \A u \in Tabs \ {t} : sock'[u] = sock[u] /\ as'[u] = as[u]
  BY <1>1, <1>2
<1>6. stage = "closed" <=> token = NoToken
  BY TokenFacts
<1>7. ASSUME NEW u \in Tabs PROVE sock'[u] = "closed" <=> as'[u] = NoToken
  <2>1. CASE u = t
    BY <1>3, <1>4, <1>6, <2>1
  <2>2. CASE u # t
    BY <1>1, <1>5, <2>2
  <2> QED BY <2>1, <2>2
<1> QED BY <1>3, <1>4, <1>5, <1>7

\* A claim writes the owner and the id's own key, for a token that exists.
LEMMA ClaimsTyped ==
  ASSUME GuestTypeOK, NEW token \in Token, Takes(token) \/ Confirms(token)
  PROVE  owner' \in [Nicks -> 0 .. MaxIds \cup Nicks] /\ named' \subseteq Token
<1>1. token.nick \in Nicks /\ token.id \in 0 .. MaxIds \cup Nicks
  BY TokenFacts, GuestAssumption DEF GuestAssumption
<1> QED BY <1>1 DEF GuestTypeOK, Takes, Confirms

\* Who overlapped whom is a set of nicknames.
LEMMA AdmittedTyped ==
  ASSUME GuestTypeOK, NEW b, NEW n \in Nicks, Admitted(b, n)
  PROVE  overlapped' \subseteq Nicks
BY DEF GuestTypeOK, Admitted

\* What a page request leaves well typed, given what it did to its own variables.
LEMMA PageStep ==
  ASSUME GuestTypes,
         owner' \in [Nicks -> 0 .. MaxIds \cup Nicks], named' \subseteq Token,
         active' \subseteq Nicks, nextId' \in 0 .. MaxIds, accounts' \subseteq Nicks,
         user' \in [Browsers -> accounts' \cup {NoUser}],
         elder' \subseteq Browsers \X accounts',
         cookie' \in [Browsers -> Guests \cup {NoToken}],
         at' \in [Browsers -> {"idle", "read", "register", "own", "revoke"}],
         work' \in [Browsers -> Token \cup {NoToken}],
         \A c \in Browsers : at'[c] = "idle" <=> work'[c] = NoToken,
         WorksAsGuest',
         UNCHANGED sockVars,
         lost' \subseteq {t \in Tabs : sock[t] \in {"opening", "open"}},
         overlapped' \subseteq Nicks
  PROVE  GuestTypes'
BY DEF GuestTypes, GuestTypeOK, sockVars

\* The same of a step of a socket.
LEMMA SockStep ==
  ASSUME GuestTypes, UNCHANGED <<userVars, pageVars, nextId>>,
         owner' \in [Nicks -> 0 .. MaxIds \cup Nicks], named' \subseteq Token,
         active' \subseteq Nicks,
         sock' \in [Tabs -> {"closed", "read", "opening", "open"}],
         as' \in [Tabs -> Token \cup {NoToken}],
         \A u \in Tabs : sock'[u] = "closed" <=> as'[u] = NoToken,
         lost' \subseteq {t \in Tabs : sock'[t] \in {"opening", "open"}},
         overlapped' \subseteq Nicks
  PROVE  GuestTypes'
BY DEF GuestTypes, GuestTypeOK, WorksAsGuest, userVars, pageVars

\* Logging in or out changes one browser; who is logged in is somebody.
LEMMA UserTyped ==
  ASSUME GuestTypeOK, NEW b \in Browsers, NEW name, user' = [user EXCEPT ![b] = name]
  PROVE  /\ user'[b] = name
         /\ \A c \in Browsers \ {b} : user'[c] = user[c]
         /\ accounts \subseteq accounts' /\ name \in accounts' \cup {NoUser}
              => user' \in [Browsers -> accounts' \cup {NoUser}]
<1>1. user \in [Browsers -> accounts \cup {NoUser}]
  BY DEF GuestTypeOK
<1> QED BY <1>1

\* Every step of a page keeps the types.
LEMMA PagesTyped ==
  ASSUME GuestTypes, NEW b \in Browsers,
         \/ \E n \in Nicks : Submits(b, n) \/ SignsUp(b, n) \/ LogsIn(b, n)
         \/ VisitsAccount(b) \/ Visits(b) \/ Revisits(b) \/ Registers(b) \/ Becomes(b)
         \/ Aborts(b) \/ LogsOut(b) \/ Revokes(b) \/ TokenExpires(b)
  PROVE  GuestTypes'
<1>0. /\ GuestTypeOK /\ WorksAsGuest
      /\ MaxIds \in Nat /\ nextId \in 0 .. MaxIds
      /\ lost \subseteq {t \in Tabs : sock[t] \in {"opening", "open"}}
      /\ work[b] # NoToken => work[b] \in Token /\ work[b].nick \in Nicks
      /\ cookie[b] # NoToken => cookie[b] \in Guests
      /\ user[b] # NoUser => user[b] \in accounts /\ user[b] \in Nicks
  <2>1. GuestTypeOK /\ WorksAsGuest /\ MaxIds \in Nat
    BY GuestAssumption DEF GuestAssumption, GuestTypes
  <2>2. nextId \in 0 .. MaxIds /\ lost \subseteq {t \in Tabs : sock[t] \in {"opening", "open"}}
    BY <2>1 DEF GuestTypeOK
  <2>3. work[b] \in Token \cup {NoToken} /\ cookie[b] \in Guests \cup {NoToken}
    BY <2>1 DEF GuestTypeOK
  <2>4. user[b] \in accounts \cup {NoUser} /\ accounts \subseteq Nicks
    BY <2>1 DEF GuestTypeOK
  <2> QED BY <2>1, <2>2, <2>3, <2>4, TokenFacts
<1>1. ASSUME NEW n \in Nicks, Submits(b, n) PROVE GuestTypes'
  <2> DEFINE new == [nick |-> n, id |-> nextId + 1]
  <2>1. new \in Guests /\ new \in Token /\ nextId' = nextId + 1 /\ nextId' \in 0 .. MaxIds
    BY <1>0, <1>1, TokenFacts DEF Submits
  <2>2. Works(b, "register", new)
    BY <1>1 DEF Submits
  <2>3. overlapped' \subseteq Nicks
    BY <1>0, <1>1, AdmittedTyped DEF Submits
  <2> HIDE DEF new
  <2>4. /\ UNCHANGED <<userVars, owner, named, active, cookie, sockVars, lost>>
        /\ WorksAsGuest'
    BY <1>0, <1>1, <2>1, <2>2, WorksTyped DEF Submits, WorksAsGuest, userVars
  <2> QED BY <1>0, <2>1, <2>2, <2>3, <2>4, WorksTyped, PageStep DEF GuestTypeOK, userVars
<1>2. ASSUME NEW n \in Nicks, SignsUp(b, n) PROVE GuestTypes'
  <2> DEFINE new == [nick |-> n, id |-> nextId + 1]
  <2>1. new \in Token /\ nextId' = nextId + 1 /\ nextId' \in 0 .. MaxIds
    BY <1>0, <1>2, TokenFacts DEF SignsUp
  <2>2. Works(b, "register", new)
    BY <1>2 DEF SignsUp
  <2> HIDE DEF new
  <2>3. /\ accounts' = accounts \cup {n} /\ user' = [user EXCEPT ![b] = n]
        /\ UNCHANGED <<owner, named, active, cookie, sockVars, lost, overlapped>>
    BY <1>2 DEF SignsUp
  <2>4. elder' \subseteq Browsers \X accounts'
    BY <1>0, <1>2, <2>3 DEF SignsUp, GuestTypeOK
  <2>5. user' \in [Browsers -> accounts' \cup {NoUser}] /\ accounts' \subseteq Nicks
    <3>1. accounts \subseteq Nicks
      BY <1>0 DEF GuestTypeOK
    <3> QED BY <1>0, <2>3, <3>1, UserTyped
  <2>6. WorksAsGuest'
    <3>1. user'[b] # NoUser /\ \A c \in Browsers \ {b} : user'[c] = user[c]
      BY <1>0, <2>3, UserTyped, GuestAssumption DEF GuestAssumption
    <3> QED BY <1>0, <2>1, <2>2, <3>1, WorksTyped DEF WorksAsGuest
  <2> QED BY <1>0, <2>1, <2>2, <2>3, <2>4, <2>5, <2>6, WorksTyped, PageStep DEF GuestTypeOK
<1>3. ASSUME NEW n \in Nicks, LogsIn(b, n) PROVE GuestTypes'
  <2>1. OfAccount(n) \in Token /\ Works(b, "register", OfAccount(n))
    BY <1>3, TokenFacts DEF LogsIn
  <2>2. /\ n \in accounts /\ user' = [user EXCEPT ![b] = n]
        /\ UNCHANGED <<redisVars, accounts, elder, cookie, sockVars, lost, overlapped>>
    BY <1>3 DEF LogsIn
  <2>3. user' \in [Browsers -> accounts' \cup {NoUser}]
    BY <1>0, <2>2, UserTyped
  <2>4. WorksAsGuest'
    <3>1. user'[b] # NoUser /\ \A c \in Browsers \ {b} : user'[c] = user[c]
      BY <1>0, <2>2, UserTyped, GuestAssumption DEF GuestAssumption
    <3> QED BY <1>0, <2>1, <2>2, <3>1, WorksTyped DEF WorksAsGuest
  <2> QED BY <1>0, <2>1, <2>2, <2>3, <2>4, WorksTyped, PageStep DEF GuestTypeOK, redisVars
<1>4. CASE VisitsAccount(b)
  <2>1. OfAccount(user[b]) \in Token /\ Works(b, "register", OfAccount(user[b])) /\ user[b] # NoUser
    BY <1>0, <1>4, TokenFacts DEF VisitsAccount
  <2>2. UNCHANGED <<userVars, redisVars, cookie, sockVars, lost, overlapped>>
    BY <1>4 DEF VisitsAccount
  <2>3. WorksAsGuest'
    BY <1>0, <2>1, <2>2, WorksTyped DEF WorksAsGuest, userVars
  <2> QED BY <1>0, <2>1, <2>2, <2>3, WorksTyped, PageStep DEF GuestTypeOK, redisVars, userVars
<1>5. CASE Visits(b)
  <2>1. cookie[b] \in Guests /\ cookie[b] \in Token /\ cookie[b].nick \in Nicks
    BY <1>0, <1>5, TokenFacts DEF Visits
  <2>2. UNCHANGED <<userVars, active, nextId, cookie, sockVars, lost>>
    BY <1>5 DEF Visits
  <2>3. \/ Takes(cookie[b]) /\ Admitted(b, cookie[b].nick)
        \/ UNCHANGED <<owner, named, overlapped>>
    BY <1>5 DEF Visits
  <2>4. PICK step \in {"read", "register"} : Works(b, step, cookie[b])
    BY <1>5 DEF Visits
  <2>5. /\ owner' \in [Nicks -> 0 .. MaxIds \cup Nicks] /\ named' \subseteq Token
        /\ overlapped' \subseteq Nicks
    BY <1>0, <2>1, <2>3, ClaimsTyped, AdmittedTyped DEF GuestTypeOK
  <2>6. WorksAsGuest'
    BY <1>0, <2>1, <2>2, <2>4, WorksTyped DEF WorksAsGuest, userVars
  <2> QED BY <1>0, <2>1, <2>2, <2>4, <2>5, <2>6, WorksTyped, PageStep DEF GuestTypeOK, userVars
<1>6. CASE Revisits(b)
  <2>1. work[b] \in Token /\ work[b].nick \in Nicks /\ at[b] = "read"
    BY <1>0, <1>6 DEF Revisits, GuestTypeOK
  <2>2. UNCHANGED <<userVars, active, nextId, sockVars, lost>>
    BY <1>6 DEF Revisits
  <2>3. CASE Confirms(work[b]) /\ Works(b, "register", work[b]) /\ Admitted(b, work[b].nick) /\ UNCHANGED cookie
    <3>1. /\ owner' \in [Nicks -> 0 .. MaxIds \cup Nicks] /\ named' \subseteq Token
          /\ overlapped' \subseteq Nicks
      BY <1>0, <2>1, <2>3, ClaimsTyped, AdmittedTyped
    <3>2. WorksAsGuest'
      BY <1>0, <2>1, <2>2, <2>3, WorksTyped DEF WorksAsGuest, userVars
    <3> QED BY <1>0, <2>1, <2>2, <2>3, <3>1, <3>2, WorksTyped, PageStep DEF GuestTypeOK, userVars
  <2>4. CASE /\ cookie' = [cookie EXCEPT ![b] = NoToken] /\ Works(b, "idle", NoToken)
             /\ UNCHANGED <<owner, named, overlapped>>
    <3>1. WorksAsGuest'
      BY <1>0, <2>2, <2>4, WorksTyped DEF WorksAsGuest, userVars
    <3>2. cookie' \in [Browsers -> Guests \cup {NoToken}]
      BY <1>0, <2>4 DEF GuestTypeOK
    <3> QED BY <1>0, <2>2, <2>4, <3>1, <3>2, WorksTyped, PageStep DEF GuestTypeOK, userVars
  <2> QED BY <1>6, <2>3, <2>4 DEF Revisits
<1>7. CASE Registers(b)
  <2>1. work[b] \in Token /\ work[b].nick \in Nicks /\ at[b] = "register" /\ Works(b, "own", work[b])
    BY <1>0, <1>7 DEF Registers, GuestTypeOK
  <2>2. /\ active' = active \cup {work[b].nick} /\ named' = named \cup {work[b]}
        /\ UNCHANGED <<userVars, owner, nextId, cookie, sockVars, lost, overlapped>>
    BY <1>7 DEF Registers
  <2>3. active' \subseteq Nicks /\ named' \subseteq Token
    BY <1>0, <2>1, <2>2 DEF GuestTypeOK
  <2>4. WorksAsGuest'
    BY <1>0, <2>1, <2>2, WorksTyped DEF WorksAsGuest, userVars
  <2> QED BY <1>0, <2>1, <2>2, <2>3, <2>4, WorksTyped, PageStep DEF GuestTypeOK, userVars
<1>8. CASE Becomes(b)
  <2>1. work[b] \in Token /\ at[b] = "own" /\ Works(b, "idle", NoToken)
    BY <1>0, <1>8 DEF Becomes, GuestTypeOK
  <2>2. /\ owner' = [owner EXCEPT ![work[b].nick] = work[b].id]
        /\ UNCHANGED <<userVars, named, active, nextId, sockVars, lost, overlapped>>
    BY <1>8 DEF Becomes
  <2>3. work[b].nick \in Nicks /\ work[b].id \in 0 .. MaxIds \cup Nicks
    BY <1>0, <2>1, TokenFacts
  <2>4. owner' \in [Nicks -> 0 .. MaxIds \cup Nicks]
    BY <1>0, <2>2, <2>3 DEF GuestTypeOK
  <2>5. cookie' \in [Browsers -> Guests \cup {NoToken}]
    <3>1. user[b] = NoUser => work[b] \in Guests
      BY <1>0, <2>1 DEF WorksAsGuest
    <3>2. cookie' = cookie \/ (user[b] = NoUser /\ cookie' = [cookie EXCEPT ![b] = work[b]])
      BY <1>8 DEF Becomes
    <3>3. cookie \in [Browsers -> Guests \cup {NoToken}]
      BY <1>0 DEF GuestTypeOK
    <3> QED BY <3>1, <3>2, <3>3
  <2>6. WorksAsGuest'
    BY <1>0, <2>1, <2>2, WorksTyped DEF WorksAsGuest, userVars
  <2> QED BY <1>0, <2>1, <2>2, <2>4, <2>5, <2>6, WorksTyped, PageStep DEF GuestTypeOK, userVars
<1>9. CASE Aborts(b)
  <2>1. /\ Works(b, "idle", NoToken)
        /\ UNCHANGED <<userVars, redisVars, cookie, sockVars, lost, overlapped>>
    BY <1>9 DEF Aborts
  <2>2. WorksAsGuest'
    BY <1>0, <2>1, WorksTyped DEF WorksAsGuest, userVars
  <2> QED BY <1>0, <2>1, <2>2, WorksTyped, PageStep DEF GuestTypeOK, redisVars, userVars
<1>10. CASE LogsOut(b)
  <2>1. Identity(b) \in Token /\ Identity(b).nick \in Nicks
    BY <1>0, <1>10, TokenFacts DEF LogsOut, Identity
  <2>2. /\ Works(b, "revoke", Identity(b)) /\ active' = active \ {Identity(b).nick}
        /\ UNCHANGED <<userVars, owner, named, nextId, cookie, sockVars, overlapped>>
    BY <1>10 DEF LogsOut
  <2>3. active' \subseteq Nicks
    BY <1>0, <2>2 DEF GuestTypeOK
  <2>4. lost' \subseteq {t \in Tabs : sock[t] \in {"opening", "open"}}
    BY <1>0, <1>10 DEF LogsOut, Loses
  <2>5. WorksAsGuest'
    BY <1>0, <2>1, <2>2, WorksTyped DEF WorksAsGuest, userVars
  <2> QED BY <1>0, <2>1, <2>2, <2>3, <2>4, <2>5, WorksTyped, PageStep DEF GuestTypeOK, userVars
<1>11. CASE Revokes(b)
  <2>1. /\ Works(b, "idle", NoToken)
        /\ owner' = [owner EXCEPT ![work[b].nick] = NoId]
        /\ named' \subseteq named
        /\ cookie' = [cookie EXCEPT ![b] = NoToken]
        /\ user' = [user EXCEPT ![b] = NoUser]
        /\ UNCHANGED <<active, nextId, accounts, elder, sockVars, overlapped>>
    BY <1>11 DEF Revokes
  <2>2. lost' \subseteq {t \in Tabs : sock[t] \in {"opening", "open"}}
    BY <1>0, <1>11 DEF Revokes, Loses
  <2>3. /\ owner' \in [Nicks -> 0 .. MaxIds \cup Nicks] /\ named' \subseteq Token
        /\ cookie' \in [Browsers -> Guests \cup {NoToken}]
        /\ user' \in [Browsers -> accounts' \cup {NoUser}]
    <3>1. /\ owner \in [Nicks -> 0 .. MaxIds \cup Nicks] /\ named \subseteq Token
          /\ cookie \in [Browsers -> Guests \cup {NoToken}]
          /\ 0 \in 0 .. MaxIds
      BY <1>0 DEF GuestTypeOK
    <3>2. owner' \in [Nicks -> 0 .. MaxIds \cup Nicks] /\ named' \subseteq Token
      BY <2>1, <3>1 DEF NoId
    <3>3. cookie' \in [Browsers -> Guests \cup {NoToken}]
      BY <2>1, <3>1
    <3> QED BY <1>0, <2>1, <3>2, <3>3, UserTyped
  <2>4. WorksAsGuest'
    <3>1. \A c \in Browsers \ {b} : user'[c] = user[c]
      BY <1>0, <2>1, UserTyped
    <3> QED BY <1>0, <2>1, <3>1, WorksTyped DEF WorksAsGuest
  <2> QED BY <1>0, <2>1, <2>2, <2>3, <2>4, WorksTyped, PageStep DEF GuestTypeOK
<1>12. CASE TokenExpires(b)
  <2>1. /\ cookie' = [cookie EXCEPT ![b] = NoToken]
        /\ UNCHANGED <<userVars, redisVars, at, work, sockVars, lost, overlapped>>
    BY <1>12 DEF TokenExpires
  <2>2. cookie' \in [Browsers -> Guests \cup {NoToken}] /\ WorksAsGuest'
    BY <1>0, <2>1 DEF GuestTypeOK, WorksAsGuest, userVars
  <2> QED BY <1>0, <2>1, <2>2, PageStep DEF GuestTypes, GuestTypeOK, redisVars, userVars
<1> QED
  BY <1>1, <1>2, <1>3, <1>4, <1>5, <1>6, <1>7, <1>8, <1>9, <1>10, <1>11, <1>12

\* Every step of a socket keeps the types.
LEMMA SocksTyped ==
  ASSUME GuestTypes, NEW t \in Tabs,
         \/ HandshakesAccount(t) \/ Handshakes(t) \/ Accepts(t)
         \/ Opens(t) \/ Disconnects(t) \/ Vanishes(t)
  PROVE  GuestTypes'
<1> DEFINE b == BrowserOf[t]
<1>0. GuestTypeOK /\ b \in Browsers
  BY GuestAssumption DEF GuestAssumption, GuestTypes
<1>1. /\ lost \subseteq {u \in Tabs : sock[u] \in {"opening", "open"}}
      /\ owner \in [Nicks -> 0 .. MaxIds \cup Nicks] /\ named \subseteq Token
      /\ active \subseteq Nicks /\ overlapped \subseteq Nicks
  BY <1>0 DEF GuestTypeOK
<1>2. /\ cookie[b] # NoToken => cookie[b] \in Token /\ cookie[b].nick \in Nicks
      /\ as[t] # NoToken => as[t] \in Token /\ as[t].nick \in Nicks
      /\ user[b] # NoUser => user[b] \in Nicks
      /\ sock[t] = "closed" <=> as[t] = NoToken
  <2>1. cookie[b] \in Guests \cup {NoToken} /\ as[t] \in Token \cup {NoToken}
    BY <1>0 DEF GuestTypeOK
  <2>2. user[b] \in accounts \cup {NoUser} /\ accounts \subseteq Nicks
    BY <1>0 DEF GuestTypeOK
  <2> QED BY <1>0, <2>1, <2>2, TokenFacts DEF GuestTypeOK
<1> HIDE DEF b
<1>3. CASE HandshakesAccount(t)
  <2>1. /\ sock[t] = "closed" /\ user[b] # NoUser /\ Connects(t, "opening", OfAccount(user[b]))
        /\ UNCHANGED <<userVars, redisVars, pageVars, lost, overlapped>>
    BY <1>3 DEF HandshakesAccount, b
  <2>2. OfAccount(user[b]) \in Token
    BY <1>2, <2>1, TokenFacts
  <2>3. lost' \subseteq {u \in Tabs : sock'[u] \in {"opening", "open"}}
    BY <1>0, <1>1, <2>1, <2>2, ConnectsTyped
  <2> QED BY <1>0, <1>1, <2>1, <2>2, <2>3, ConnectsTyped, SockStep DEF redisVars
<1>4. CASE Handshakes(t)
  <2>1. /\ sock[t] = "closed" /\ cookie[b] # NoToken
        /\ UNCHANGED <<userVars, active, nextId, pageVars, lost>>
    BY <1>4 DEF Handshakes, b
  <2>2. \/ Takes(cookie[b]) /\ Admitted(b, cookie[b].nick)
        \/ UNCHANGED <<owner, named, overlapped>>
    BY <1>4 DEF Handshakes, b
  <2>3. PICK stage \in {"read", "opening"} : Connects(t, stage, cookie[b])
    BY <1>4 DEF Handshakes, b
  <2>4. /\ owner' \in [Nicks -> 0 .. MaxIds \cup Nicks] /\ named' \subseteq Token
        /\ overlapped' \subseteq Nicks
    BY <1>0, <1>1, <1>2, <2>1, <2>2, ClaimsTyped, AdmittedTyped
  <2>5. lost' \subseteq {u \in Tabs : sock'[u] \in {"opening", "open"}}
    BY <1>0, <1>1, <1>2, <2>1, <2>3, ConnectsTyped
  <2> QED BY <1>0, <1>1, <1>2, <2>1, <2>3, <2>4, <2>5, ConnectsTyped, SockStep
<1>5. CASE Accepts(t)
  <2>1. /\ sock[t] = "read" /\ UNCHANGED <<userVars, active, nextId, pageVars, lost>>
    BY <1>5 DEF Accepts
  <2>2. \/ Confirms(as[t]) /\ Admitted(b, as[t].nick)
        \/ UNCHANGED <<owner, named, overlapped>>
    BY <1>5 DEF Accepts, b
  <2>3. Connects(t, "opening", as[t]) \/ Connects(t, "closed", NoToken)
    BY <1>5 DEF Accepts
  <2>4. /\ owner' \in [Nicks -> 0 .. MaxIds \cup Nicks] /\ named' \subseteq Token
        /\ overlapped' \subseteq Nicks
    BY <1>0, <1>1, <1>2, <2>1, <2>2, ClaimsTyped, AdmittedTyped
  <2>5. lost' \subseteq {u \in Tabs : sock'[u] \in {"opening", "open"}}
    BY <1>0, <1>1, <1>2, <2>1, <2>3, ConnectsTyped
  <2> QED BY <1>0, <1>1, <1>2, <2>1, <2>3, <2>4, <2>5, ConnectsTyped, SockStep
<1>6. CASE Opens(t)
  <2>1. /\ sock[t] = "opening" /\ Connects(t, "open", as[t])
        /\ active' = active \cup {as[t].nick}
        /\ UNCHANGED <<userVars, owner, named, nextId, pageVars, lost, overlapped>>
    BY <1>6 DEF Opens
  <2>2. active' \subseteq Nicks
    BY <1>1, <1>2, <2>1
  <2>3. lost' \subseteq {u \in Tabs : sock'[u] \in {"opening", "open"}}
    BY <1>0, <1>1, <1>2, <2>1, ConnectsTyped
  <2> QED BY <1>0, <1>1, <1>2, <2>1, <2>2, <2>3, ConnectsTyped, SockStep
<1>7. CASE Disconnects(t)
  <2>1. /\ Connects(t, "closed", NoToken) /\ active' = active \ {as[t].nick}
        /\ lost' \subseteq {u \in Tabs \ {t} : sock[u] \in {"opening", "open"}}
        /\ UNCHANGED <<userVars, owner, named, nextId, pageVars, overlapped>>
    BY <1>7 DEF Disconnects
  <2>2. active' \subseteq Nicks
    BY <1>1, <2>1
  <2>3. lost' \subseteq {u \in Tabs : sock'[u] \in {"opening", "open"}}
    BY <1>0, <2>1, ConnectsTyped
  <2> QED BY <1>0, <1>1, <2>1, <2>2, <2>3, ConnectsTyped, SockStep
<1>8. CASE Vanishes(t)
  <2>1. /\ Connects(t, "closed", NoToken) /\ lost' = lost \ {t}
        /\ UNCHANGED <<userVars, redisVars, pageVars, overlapped>>
    BY <1>8 DEF Vanishes
  <2>2. lost' \subseteq {u \in Tabs : sock'[u] \in {"opening", "open"}}
    BY <1>0, <1>1, <2>1, ConnectsTyped
  <2> QED BY <1>0, <1>1, <2>1, <2>2, ConnectsTyped, SockStep DEF redisVars
<1> QED BY <1>3, <1>4, <1>5, <1>6, <1>7, <1>8

\* The expiry of a mapping keeps the types.
LEMMA ExpiryTyped ==
  ASSUME GuestTypes, NEW n \in Nicks, MappingExpires(n)
  PROVE  GuestTypes'
<1>1. /\ owner' = [owner EXCEPT ![n] = NoId] /\ named' \subseteq named
      /\ UNCHANGED <<userVars, active, nextId, pageVars, sockVars, lost, overlapped>>
  BY DEF MappingExpires
<1>2. /\ owner \in [Nicks -> 0 .. MaxIds \cup Nicks] /\ named \subseteq Token
      /\ 0 \in 0 .. MaxIds
  BY GuestAssumption DEF GuestAssumption, GuestTypes, GuestTypeOK
<1>3. owner' \in [Nicks -> 0 .. MaxIds \cup Nicks] /\ named' \subseteq Token
  BY <1>1, <1>2 DEF NoId
<1>4. UNCHANGED <<active, nextId, accounts, user, elder, cookie, at, work, sock, as, lost, overlapped>>
  BY <1>1 DEF userVars, pageVars, sockVars
<1>5. GuestTypeOK'
  BY <1>3, <1>4 DEF GuestTypes, GuestTypeOK
<1>6. WorksAsGuest'
  BY <1>4 DEF GuestTypes, WorksAsGuest
<1> QED BY <1>5, <1>6 DEF GuestTypes

\* The types hold in every reachable state, of any number of browsers and tabs.
THEOREM GuestTyping == GuestSpec => []GuestTypes
<1>1. ASSUME GuestTypes, [GuestNext]_vars PROVE GuestTypes'
  <2>1. CASE UNCHANGED vars
    <3>1. UNCHANGED <<redisVars, pageVars, userVars, sockVars, lost, overlapped>>
      BY <2>1 DEF vars
    <3>2. GuestTypeOK'
      BY <1>1, <3>1 DEF GuestTypes, GuestTypeOK, redisVars, pageVars, userVars, sockVars
    <3>3. WorksAsGuest'
      BY <1>1, <3>1 DEF GuestTypes, WorksAsGuest, pageVars, userVars
    <3> QED BY <3>2, <3>3 DEF GuestTypes
  <2>2. CASE GuestNext
    BY <1>1, <2>2, PagesTyped, SocksTyped, ExpiryTyped DEF GuestNext
  <2> QED BY <1>1, <2>1, <2>2
<1> QED BY <1>1, GuestTypesInit, PTL DEF GuestSpec
-------------------------------------------------------------------------------
\* A socket that is not lost keeps its nickname active: only a disconnect of the
\* nickname or a logout takes it out, and both count their sockets as lost.
THEOREM OpensAreReserved == GuestSpec => []OpenIsReserved
<1>1. GuestInit => OpenIsReserved
  BY DEF GuestInit, OpenIsReserved
<1>2. ASSUME GuestTypes, OpenIsReserved, [GuestNext]_vars PROVE OpenIsReserved'
  <2> SUFFICES ASSUME NEW t \in Tabs, t \notin lost', sock'[t] = "open"
               PROVE  as'[t].nick \in active'
    BY DEF OpenIsReserved
  <2>0. GuestTypeOK
    BY <1>2 DEF GuestTypes
  <2>1. CASE /\ UNCHANGED sockVars /\ active \subseteq active' /\ lost \subseteq lost'
    BY <1>2, <2>1 DEF OpenIsReserved, sockVars
  <2>2. ASSUME NEW b \in Browsers, LogsOut(b) PROVE as'[t].nick \in active'
    BY <1>2, <2>2 DEF LogsOut, Loses, OpenIsReserved, sockVars
  <2>3. ASSUME NEW u \in Tabs, NEW stage, NEW token, Connects(u, stage, token),
               stage # "open", UNCHANGED active, lost \subseteq lost' \cup {u}
        PROVE  as'[t].nick \in active'
    <3>1. t # u /\ sock[t] = "open" /\ as'[t] = as[t]
      BY <2>0, <2>3 DEF Connects, GuestTypeOK
    <3> QED BY <1>2, <2>3, <3>1 DEF OpenIsReserved
  <2>4. ASSUME NEW u \in Tabs, Opens(u) PROVE as'[t].nick \in active'
    <3>1. \/ t = u /\ as'[t] = as[u]
          \/ t # u /\ sock[t] = "open" /\ as'[t] = as[t]
      BY <2>0, <2>4 DEF Opens, Connects, GuestTypeOK
    <3> QED BY <1>2, <2>4, <3>1 DEF Opens, OpenIsReserved
  <2>5. ASSUME NEW u \in Tabs, Disconnects(u) PROVE as'[t].nick \in active'
    <3>1. t # u /\ sock[t] = "open" /\ as'[t] = as[t]
      BY <2>0, <2>5 DEF Disconnects, Connects, GuestTypeOK
    <3>2. t \notin lost /\ as[t].nick # as[u].nick
      BY <2>5, <3>1 DEF Disconnects
    <3> QED BY <1>2, <2>5, <3>1, <3>2 DEF Disconnects, OpenIsReserved
  <2>6. CASE UNCHANGED vars
    BY <2>1, <2>6 DEF vars, redisVars
  <2>7. ASSUME NEW b \in Browsers, NEW n \in Nicks, Submits(b, n) \/ SignsUp(b, n) \/ LogsIn(b, n)
        PROVE  as'[t].nick \in active'
    BY <2>1, <2>7 DEF Submits, SignsUp, LogsIn, redisVars
  <2>8. ASSUME NEW b \in Browsers,
               VisitsAccount(b) \/ Visits(b) \/ Revisits(b) \/ Registers(b) \/ Becomes(b)
        PROVE  as'[t].nick \in active'
    BY <2>1, <2>8 DEF VisitsAccount, Visits, Revisits, Registers, Becomes, redisVars
  <2>9. ASSUME NEW b \in Browsers, Aborts(b) \/ Revokes(b) \/ TokenExpires(b)
        PROVE  as'[t].nick \in active'
    BY <2>1, <2>9 DEF Aborts, Revokes, Loses, TokenExpires, redisVars
  <2>10. ASSUME NEW u \in Tabs, HandshakesAccount(u) \/ Handshakes(u) PROVE as'[t].nick \in active'
    <3>1. PICK stage, token : stage # "open" /\ Connects(u, stage, token)
      BY <2>10 DEF HandshakesAccount, Handshakes
    <3>2. UNCHANGED <<active, lost>>
      BY <2>10 DEF HandshakesAccount, Handshakes, redisVars
    <3> QED BY <2>3, <3>1, <3>2
  <2>11. ASSUME NEW u \in Tabs, Accepts(u) \/ Vanishes(u) PROVE as'[t].nick \in active'
    <3>1. PICK stage, token : stage # "open" /\ Connects(u, stage, token)
      BY <2>11 DEF Accepts, Vanishes
    <3>2. active' = active /\ lost \subseteq lost' \cup {u}
      BY <2>11 DEF Accepts, Vanishes, redisVars
    <3> QED BY <2>3, <3>1, <3>2
  <2>12. ASSUME NEW n \in Nicks, MappingExpires(n) PROVE as'[t].nick \in active'
    BY <2>1, <2>12 DEF MappingExpires
  <2> QED
    BY <1>2, <2>2, <2>4, <2>5, <2>6, <2>7, <2>8, <2>9, <2>10, <2>11, <2>12 DEF GuestNext
<1> QED BY <1>1, <1>2, GuestTyping, PTL DEF GuestSpec
-------------------------------------------------------------------------------
\* Every token somebody holds or Redis remembers.
AllTokens == UNION {Tokens(b) : b \in Browsers}
Held == AllTokens \cup named \cup {k \in Token : Owns(k)}

\* An id was handed out, or is the account's own; it has one token and one holder.
IdsApart ==
  /\ Held \subseteq Token
  /\ \A k \in Held : IF k.id \in Nicks THEN k = OfAccount(k.nick) ELSE k.id <= nextId
  /\ \A k, l \in Held : k.id = l.id => k = l
  /\ \A b, c \in Browsers : \A k \in Tokens(b) \cap Tokens(c) : b = c \/ k \notin Guests

\* A step of b: what is not there before it is one of X.
Learns(b, X) ==
  /\ \A c \in Browsers :
       /\ cookie'[c] = cookie[c] \/ (c = b /\ cookie'[c] \in Tokens(b) \cup {NoToken})
       /\ work'[c] = work[c] \/ (c = b /\ work'[c] \in Tokens(b) \cup X \cup {NoToken})
  /\ \A t \in Tabs :
       as'[t] = as[t] \/ (BrowserOf[t] = b /\ as'[t] \in Tokens(b) \cup X \cup {NoToken})
  /\ named' \subseteq named \cup Tokens(b)
  /\ \A n \in Nicks :
       \/ owner'[n] \in {owner[n], NoId}
       \/ \E k \in Tokens(b) : n = k.nick /\ owner'[n] = k.id

\* What b may learn: a token with the next id, or an account's.
MayLearn(X) ==
  \/ X = {} /\ nextId' = nextId
  \/ nextId' = nextId + 1 /\ nextId' \in 1 .. MaxIds /\ \E n \in Nicks : X = {[nick |-> n, id |-> nextId']}
  \/ nextId' = nextId /\ \E n \in Nicks : X = {OfAccount(n)}

\* The tokens a browser has.
LEMMA HasTokens ==
  ASSUME NEW b \in Browsers
  PROVE  /\ NoToken \notin Tokens(b)
         /\ cookie[b] # NoToken => cookie[b] \in Tokens(b)
         /\ work[b] # NoToken => work[b] \in Tokens(b)
         /\ \A t \in Tabs : BrowserOf[t] = b /\ as[t] # NoToken => as[t] \in Tokens(b)
         /\ \A k \in Tokens(b) :
              k = cookie[b] \/ k = work[b] \/ \E t \in Tabs : BrowserOf[t] = b /\ k = as[t]
BY DEF Tokens

\* And has them next.
LEMMA NextTokens ==
  ASSUME NEW b \in Browsers, NEW k \in Tokens(b)'
  PROVE  /\ k # NoToken
         /\ k = cookie'[b] \/ k = work'[b] \/ \E t \in Tabs : BrowserOf[t] = b /\ k = as'[t]
BY DEF Tokens

\* They are tokens.
LEMMA TokensTyped ==
  ASSUME GuestTypeOK, NEW b \in Browsers, NEW k \in Tokens(b)
  PROVE  k \in Token /\ k.nick \in Nicks /\ k.id \in 1 .. MaxIds \cup Nicks
<1>1. cookie[b] \in Guests \cup {NoToken} /\ work[b] \in Token \cup {NoToken}
  BY DEF GuestTypeOK
<1>2. \A t \in Tabs : as[t] \in Token \cup {NoToken}
  BY DEF GuestTypeOK
<1>3. k # NoToken /\ (k = cookie[b] \/ k = work[b] \/ \E t \in Tabs : k = as[t])
  BY DEF Tokens
<1>4. k \in Token
  BY <1>1, <1>2, <1>3, TokenFacts
<1> QED BY <1>4, TokenFacts

\* A step of b that learns X adds no more than X.
LEMMA LearnsNoMore ==
  ASSUME NEW b \in Browsers, NEW X, Learns(b, X), GuestTypeOK, GuestTypeOK'
  PROVE  /\ Tokens(b)' \subseteq Tokens(b) \cup X
         /\ \A c \in Browsers \ {b} : Tokens(c)' \subseteq Tokens(c)
         /\ Held' \subseteq Held \cup X
<1>1. Tokens(b)' \subseteq Tokens(b) \cup X
  <2> SUFFICES ASSUME NEW k \in Tokens(b)' PROVE k \in Tokens(b) \cup X
    OBVIOUS
  <2>1. k # NoToken /\ (k = cookie'[b] \/ k = work'[b] \/ \E t \in Tabs : BrowserOf[t] = b /\ k = as'[t])
    BY NextTokens
  <2>2. CASE k = cookie'[b]
    <3>1. cookie'[b] = cookie[b] \/ cookie'[b] \in Tokens(b) \cup {NoToken}
      BY DEF Learns
    <3>2. cookie[b] # NoToken => cookie[b] \in Tokens(b)
      BY HasTokens
    <3> QED BY <2>1, <2>2, <3>1, <3>2
  <2>3. CASE k = work'[b]
    BY <2>1, <2>3, HasTokens DEF Learns
  <2>4. ASSUME NEW t \in Tabs, BrowserOf[t] = b, k = as'[t] PROVE k \in Tokens(b) \cup X
    <3>1. as'[t] = as[t] \/ as'[t] \in Tokens(b) \cup X \cup {NoToken}
      BY DEF Learns
    <3>2. as[t] # NoToken => as[t] \in Tokens(b)
      BY <2>4, HasTokens
    <3> QED BY <2>1, <2>4, <3>1, <3>2
  <2> QED BY <2>1, <2>2, <2>3, <2>4
<1>2. ASSUME NEW c \in Browsers \ {b} PROVE Tokens(c)' \subseteq Tokens(c)
  <2> SUFFICES ASSUME NEW k \in Tokens(c)' PROVE k \in Tokens(c)
    OBVIOUS
  <2>1. k # NoToken /\ (k = cookie'[c] \/ k = work'[c] \/ \E t \in Tabs : BrowserOf[t] = c /\ k = as'[t])
    BY NextTokens
  <2>2. cookie'[c] = cookie[c] /\ work'[c] = work[c]
    BY DEF Learns
  <2>3. \A t \in Tabs : BrowserOf[t] = c => as'[t] = as[t]
    BY DEF Learns
  <2>4. /\ cookie[c] # NoToken => cookie[c] \in Tokens(c)
        /\ work[c] # NoToken => work[c] \in Tokens(c)
        /\ \A t \in Tabs : BrowserOf[t] = c /\ as[t] # NoToken => as[t] \in Tokens(c)
    BY HasTokens
  <2>5. ASSUME NEW t \in Tabs, BrowserOf[t] = c, k = as'[t] PROVE k \in Tokens(c)
    <3>1. k = as[t]
      BY <2>3, <2>5
    <3> QED BY <2>1, <2>4, <2>5, <3>1
  <2> QED BY <2>1, <2>2, <2>4, <2>5
<1>3. AllTokens' \subseteq AllTokens \cup X
  BY <1>1, <1>2 DEF AllTokens
<1>4. Tokens(b) \subseteq Held
  BY DEF Held, AllTokens
<1>5. ASSUME NEW k \in Token, Owns(k)' PROVE k \in Held
  <2>1. owner'[k.nick] = k.id /\ k.nick \in Nicks /\ k.id # NoId
    BY <1>5, TokenFacts, GuestAssumption DEF Owns, NoId, GuestAssumption
  <2>2. CASE owner[k.nick] = k.id
    BY <2>2 DEF Held, Owns
  <2>3. CASE \E l \in Tokens(b) : k.nick = l.nick /\ owner'[k.nick] = l.id
    <3>1. PICK l \in Tokens(b) : k.nick = l.nick /\ k.id = l.id
      BY <2>1, <2>3
    <3>2. l \in Token
      BY TokensTyped
    <3>3. k = l
      BY <3>1, <3>2 DEF Token
    <3> QED BY <1>4, <3>1, <3>3
  <2> QED BY <2>1, <2>2, <2>3 DEF Learns
<1>6. named' \subseteq Held
  BY <1>4 DEF Learns, Held
<1> QED BY <1>1, <1>2, <1>3, <1>5, <1>6 DEF Held

\* What may be learnt keeps the ids apart.
LEMMA ApartStep ==
  ASSUME IdsApart, GuestTypeOK, GuestTypeOK', NEW b \in Browsers, NEW X, Learns(b, X), MayLearn(X)
  PROVE  IdsApart'
<1>1. /\ Tokens(b)' \subseteq Tokens(b) \cup X
      /\ \A c \in Browsers \ {b} : Tokens(c)' \subseteq Tokens(c)
      /\ Held' \subseteq Held \cup X
  BY LearnsNoMore
<1>2. nextId \in Nat /\ nextId' \in Nat /\ nextId <= nextId' /\ MaxIds \in Nat
  BY GuestAssumption DEF GuestAssumption, GuestTypeOK, MayLearn
<1>3. \A i \in 1 .. MaxIds : i \notin Nicks
  BY GuestAssumption DEF GuestAssumption
<1>4. \A c \in Browsers : Tokens(c) \subseteq Held
  BY DEF Held, AllTokens
<1>5. X \subseteq Token
  BY <1>2, TokenFacts DEF MayLearn
<1>6. ASSUME NEW x \in X PROVE IF x.id \in Nicks THEN x = OfAccount(x.nick) ELSE x.id <= nextId'
  BY <1>2, <1>3, <1>6, TokenFacts DEF MayLearn
<1>7. ASSUME NEW x \in X, NEW k \in Held \cup X, k.id = x.id PROVE k = x
  BY <1>2, <1>3, <1>7, TokenFacts DEF MayLearn, IdsApart
<1>8. ASSUME NEW x \in X, x \in Guests PROVE x \notin Held
  BY <1>2, <1>3, <1>8, TokenFacts DEF MayLearn, IdsApart, Guests
<1>9. Held' \subseteq Token
  BY <1>1, <1>5 DEF IdsApart
<1>10. \A k \in Held' : IF k.id \in Nicks THEN k = OfAccount(k.nick) ELSE k.id <= nextId'
  BY <1>1, <1>2, <1>6, TokenFacts DEF IdsApart
<1>11. \A k, l \in Held' : k.id = l.id => k = l
  BY <1>1, <1>7 DEF IdsApart
<1>12. \A c, d \in Browsers : \A k \in Tokens(c)' \cap Tokens(d)' : c = d \/ k \notin Guests
  BY <1>1, <1>4, <1>8 DEF IdsApart
<1> QED BY <1>9, <1>10, <1>11, <1>12 DEF IdsApart

\* Redis learns no token but those of b.
RedisLearns(b) ==
  /\ named' \subseteq named \cup Tokens(b)
  /\ \A n \in Nicks :
       \/ owner'[n] \in {owner[n], NoId}
       \/ \E k \in Tokens(b) : n = k.nick /\ owner'[n] = k.id

\* A claim is of a token b has.
LEMMA ClaimLearns ==
  ASSUME GuestTypeOK, NEW b \in Browsers, NEW k \in Tokens(b), Takes(k) \/ Confirms(k)
  PROVE  RedisLearns(b)
<1>1. owner \in [Nicks -> 0 .. MaxIds \cup Nicks]
  BY DEF GuestTypeOK
<1>2. named' = named \cup {k} /\ (owner' = owner \/ owner' = [owner EXCEPT ![k.nick] = k.id])
  BY DEF Takes, Confirms
<1>3. \A n \in Nicks : owner'[n] = owner[n] \/ (n = k.nick /\ owner'[n] = k.id)
  BY <1>1, <1>2
<1> QED BY <1>2, <1>3 DEF RedisLearns

\* A key that is deleted is learnt by nobody.
LEMMA ForgetLearns ==
  ASSUME GuestTypeOK, NEW b \in Browsers, NEW n,
         owner' = owner \/ owner' = [owner EXCEPT ![n] = NoId], named' \subseteq named
  PROVE  RedisLearns(b)
<1>1. owner \in [Nicks -> 0 .. MaxIds \cup Nicks]
  BY DEF GuestTypeOK
<1>2. \A m \in Nicks : owner'[m] \in {owner[m], NoId}
  BY <1>1
<1> QED BY <1>2 DEF RedisLearns

\* The page of b works with a token it has, or learns.
LEMMA PageLearns ==
  ASSUME GuestTypeOK, NEW b \in Browsers, NEW X, NEW step, NEW token, Works(b, step, token),
         token \in Tokens(b) \cup X \cup {NoToken}, UNCHANGED sockVars, RedisLearns(b),
         \/ cookie' = cookie
         \/ \E k \in Tokens(b) \cup {NoToken} : cookie' = [cookie EXCEPT ![b] = k]
  PROVE  Learns(b, X)
<1>1. \A c \in Browsers : work'[c] = work[c] \/ (c = b /\ work'[c] = token)
  BY DEF Works, GuestTypeOK
<1>2. \A c \in Browsers : cookie'[c] = cookie[c] \/ (c = b /\ cookie'[c] \in Tokens(b) \cup {NoToken})
  <2>1. cookie \in [Browsers -> Guests \cup {NoToken}]
    BY DEF GuestTypeOK
  <2> QED BY <2>1
<1> QED BY <1>1, <1>2 DEF Learns, RedisLearns, sockVars

\* So does a socket of its tab.
LEMMA SockLearns ==
  ASSUME GuestTypeOK, NEW t \in Tabs, NEW X, NEW stage, NEW token, Connects(t, stage, token),
         token \in Tokens(BrowserOf[t]) \cup X \cup {NoToken},
         UNCHANGED <<cookie, work>>, RedisLearns(BrowserOf[t])
  PROVE  Learns(BrowserOf[t], X)
<1>1. \A u \in Tabs : as'[u] = as[u] \/ (u = t /\ as'[u] = token)
  BY DEF Connects, GuestTypeOK
<1> QED BY <1>1 DEF Learns, RedisLearns

\* A step of a browser learns what it may.
LEMMA PagesLearn ==
  ASSUME GuestTypeOK, NEW b \in Browsers,
         \/ \E n \in Nicks : Submits(b, n) \/ SignsUp(b, n) \/ LogsIn(b, n)
         \/ VisitsAccount(b) \/ Visits(b) \/ Revisits(b) \/ Registers(b) \/ Becomes(b)
         \/ Aborts(b) \/ LogsOut(b) \/ Revokes(b) \/ TokenExpires(b)
  PROVE  \E X : Learns(b, X) /\ MayLearn(X)
<1>1. nextId \in 0 .. MaxIds /\ MaxIds \in Nat /\ accounts \subseteq Nicks
  BY GuestAssumption DEF GuestAssumption, GuestTypeOK
<1>2. /\ user[b] # NoUser => user[b] \in Nicks
      /\ at[b] # "idle" => work[b] # NoToken
  BY DEF GuestTypeOK
<1>3. UNCHANGED <<owner, named>> => RedisLearns(b)
  BY ForgetLearns
<1>4. MayLearn({}) <=> nextId' = nextId
  BY DEF MayLearn
<1>5. ASSUME NEW n \in Nicks, Submits(b, n) \/ SignsUp(b, n) PROVE \E X : Learns(b, X) /\ MayLearn(X)
  <2> DEFINE new == [nick |-> n, id |-> nextId']
  <2>1. Works(b, "register", new) /\ UNCHANGED <<owner, named, cookie, sockVars>>
    BY <1>5 DEF Submits, SignsUp
  <2>2. nextId' = nextId + 1 /\ nextId' \in 1 .. MaxIds
    BY <1>1, <1>5 DEF Submits, SignsUp
  <2>3. MayLearn({new})
    BY <2>2 DEF MayLearn
  <2> HIDE DEF new
  <2> QED BY <1>3, <2>1, <2>3, PageLearns
<1>6. ASSUME NEW n \in Nicks, LogsIn(b, n) \/ (VisitsAccount(b) /\ n = user[b])
      PROVE  \E X : Learns(b, X) /\ MayLearn(X)
  <2>1. /\ Works(b, "register", OfAccount(n))
        /\ UNCHANGED <<owner, named, nextId, cookie, sockVars>>
    BY <1>6 DEF LogsIn, VisitsAccount, redisVars
  <2>2. MayLearn({OfAccount(n)})
    BY <2>1 DEF MayLearn
  <2> QED BY <1>3, <2>1, <2>2, PageLearns
<1>7. CASE Visits(b)
  <2>1. cookie[b] \in Tokens(b) /\ UNCHANGED <<nextId, cookie, sockVars>>
    BY <1>7, HasTokens DEF Visits
  <2>2. RedisLearns(b)
    BY <1>3, <1>7, <2>1, ClaimLearns DEF Visits
  <2>3. PICK step \in {"read", "register"} : Works(b, step, cookie[b])
    BY <1>7 DEF Visits
  <2> QED BY <1>4, <2>1, <2>2, <2>3, PageLearns
<1>8. CASE Revisits(b)
  <2>1. work[b] \in Tokens(b) /\ UNCHANGED <<nextId, sockVars>>
    BY <1>2, <1>8, HasTokens DEF Revisits
  <2>2. CASE Confirms(work[b]) /\ Works(b, "register", work[b]) /\ UNCHANGED cookie
    BY <1>4, <2>1, <2>2, ClaimLearns, PageLearns
  <2>3. CASE /\ cookie' = [cookie EXCEPT ![b] = NoToken] /\ Works(b, "idle", NoToken)
             /\ UNCHANGED <<owner, named>>
    BY <1>3, <1>4, <2>1, <2>3, PageLearns
  <2> QED BY <1>8, <2>2, <2>3 DEF Revisits
<1>9. CASE Registers(b)
  <2>1. work[b] \in Tokens(b) /\ Works(b, "own", work[b]) /\ named' = named \cup {work[b]}
    BY <1>2, <1>9, HasTokens DEF Registers
  <2>2. UNCHANGED <<owner, nextId, cookie, sockVars>>
    BY <1>9 DEF Registers
  <2>3. RedisLearns(b)
    BY <2>1, <2>2 DEF RedisLearns
  <2> QED BY <1>4, <2>1, <2>2, <2>3, PageLearns
<1>10. CASE Becomes(b)
  <2>1. work[b] \in Tokens(b) /\ Works(b, "idle", NoToken)
    BY <1>2, <1>10, HasTokens DEF Becomes
  <2>2. /\ owner' = [owner EXCEPT ![work[b].nick] = work[b].id]
        /\ cookie' = cookie \/ cookie' = [cookie EXCEPT ![b] = work[b]]
        /\ UNCHANGED <<named, nextId, sockVars>>
    BY <1>10 DEF Becomes
  <2>3. RedisLearns(b)
    <3>1. owner \in [Nicks -> 0 .. MaxIds \cup Nicks]
      BY DEF GuestTypeOK
    <3>2. \A n \in Nicks : owner'[n] = owner[n] \/ (n = work[b].nick /\ owner'[n] = work[b].id)
      BY <2>2, <3>1
    <3> QED BY <2>1, <2>2, <3>2 DEF RedisLearns
  <2> QED BY <1>4, <2>1, <2>2, <2>3, PageLearns
<1>11. CASE Aborts(b)
  <2>1. Works(b, "idle", NoToken) /\ UNCHANGED <<owner, named, nextId, cookie, sockVars>>
    BY <1>11 DEF Aborts, redisVars
  <2> QED BY <1>3, <1>4, <2>1, PageLearns
<1>12. CASE LogsOut(b)
  <2>1. /\ Works(b, "revoke", Identity(b)) /\ Identity(b) # NoToken
        /\ UNCHANGED <<owner, named, nextId, cookie, sockVars>>
    BY <1>12 DEF LogsOut
  <2>2. CASE cookie[b] # NoToken
    <3>1. Identity(b) \in Tokens(b)
      BY <2>2, HasTokens DEF Identity
    <3> QED BY <1>3, <1>4, <2>1, <3>1, PageLearns
  <2>3. CASE cookie[b] = NoToken
    <3>1. user[b] \in Nicks /\ Identity(b) = OfAccount(user[b])
      BY <1>2, <2>1, <2>3 DEF Identity
    <3>2. MayLearn({Identity(b)})
      BY <2>1, <3>1 DEF MayLearn
    <3> QED BY <1>3, <2>1, <3>2, PageLearns
  <2> QED BY <2>2, <2>3
<1>13. CASE Revokes(b)
  <2>1. /\ Works(b, "idle", NoToken) /\ cookie' = [cookie EXCEPT ![b] = NoToken]
        /\ owner' = [owner EXCEPT ![work[b].nick] = NoId] /\ named' \subseteq named
        /\ UNCHANGED <<nextId, sockVars>>
    BY <1>13 DEF Revokes
  <2> QED BY <1>4, <2>1, ForgetLearns, PageLearns
<1>14. CASE TokenExpires(b)
  <2>1. /\ cookie' = [cookie EXCEPT ![b] = NoToken] /\ UNCHANGED <<owner, named, nextId, work, sockVars>>
    BY <1>14 DEF TokenExpires, redisVars
  <2>2. \A c \in Browsers : cookie'[c] = cookie[c] \/ (c = b /\ cookie'[c] = NoToken)
    BY <2>1 DEF GuestTypeOK
  <2>3. Learns(b, {})
    BY <1>3, <2>1, <2>2 DEF Learns, RedisLearns, sockVars
  <2> QED BY <1>4, <2>1, <2>3
<1> QED
  BY <1>2, <1>5, <1>6, <1>7, <1>8, <1>9, <1>10, <1>11, <1>12, <1>13, <1>14 DEF VisitsAccount

\* So does a step of a socket of it.
LEMMA SocksLearn ==
  ASSUME GuestTypeOK, NEW t \in Tabs,
         \/ HandshakesAccount(t) \/ Handshakes(t) \/ Accepts(t)
         \/ Opens(t) \/ Disconnects(t) \/ Vanishes(t)
  PROVE  \E X : Learns(BrowserOf[t], X) /\ MayLearn(X)
<1> DEFINE b == BrowserOf[t]
<1>1. b \in Browsers /\ (user[b] # NoUser => user[b] \in Nicks)
  BY GuestAssumption DEF GuestAssumption, GuestTypeOK
<1>2. sock[t] # "closed" => as[t] \in Tokens(b)
  BY <1>1, HasTokens DEF GuestTypeOK
<1>3. UNCHANGED <<owner, named>> => RedisLearns(b)
  BY <1>1, ForgetLearns
<1>4. MayLearn({}) <=> nextId' = nextId
  BY DEF MayLearn
<1> HIDE DEF b
<1>5. CASE HandshakesAccount(t)
  <2>1. /\ Connects(t, "opening", OfAccount(user[b])) /\ user[b] \in Nicks
        /\ UNCHANGED <<owner, named, nextId, cookie, work>>
    BY <1>1, <1>5 DEF HandshakesAccount, b, redisVars, pageVars
  <2>2. MayLearn({OfAccount(user[b])})
    BY <2>1 DEF MayLearn
  <2> QED BY <1>3, <2>1, <2>2, SockLearns DEF b
<1>6. CASE Handshakes(t)
  <2>1. cookie[b] \in Tokens(b) /\ UNCHANGED <<nextId, cookie, work>>
    BY <1>1, <1>6, HasTokens DEF Handshakes, b, pageVars
  <2>2. RedisLearns(b)
    BY <1>1, <1>3, <1>6, <2>1, ClaimLearns DEF Handshakes, b
  <2>3. PICK stage \in {"read", "opening"} : Connects(t, stage, cookie[b])
    BY <1>6 DEF Handshakes, b
  <2> QED BY <1>4, <2>1, <2>2, <2>3, SockLearns DEF b
<1>7. CASE Accepts(t)
  <2>1. as[t] \in Tokens(b) /\ UNCHANGED <<nextId, cookie, work>>
    BY <1>2, <1>7 DEF Accepts, pageVars
  <2>2. RedisLearns(b)
    BY <1>1, <1>3, <1>7, <2>1, ClaimLearns DEF Accepts
  <2>3. Connects(t, "opening", as[t]) \/ Connects(t, "closed", NoToken)
    BY <1>7 DEF Accepts
  <2> QED BY <1>4, <2>1, <2>2, <2>3, SockLearns DEF b
<1>8. CASE Opens(t) \/ Disconnects(t) \/ Vanishes(t)
  <2>1. /\ (Connects(t, "open", as[t]) /\ as[t] \in Tokens(b)) \/ Connects(t, "closed", NoToken)
        /\ UNCHANGED <<owner, named, nextId, cookie, work>>
    BY <1>2, <1>8 DEF Opens, Disconnects, Vanishes, redisVars, pageVars
  <2> QED BY <1>3, <1>4, <2>1, SockLearns DEF b
<1> QED BY <1>5, <1>6, <1>7, <1>8

\* Nothing is held at first.
LEMMA ApartInit == GuestInit => IdsApart
<1> SUFFICES ASSUME GuestInit PROVE IdsApart
  OBVIOUS
<1>1. \A b \in Browsers : Tokens(b) = {}
  BY DEF GuestInit, Tokens
<1>2. \A k \in Token : ~ Owns(k)
  BY TokenFacts, GuestAssumption DEF GuestInit, Owns, NoId, GuestAssumption
<1>3. Held = {}
  BY <1>1, <1>2 DEF Held, AllTokens, GuestInit
<1> QED BY <1>1, <1>3 DEF IdsApart

\* Ids that are apart name one holder and one nickname.
LEMMA ApartNames == GuestTypeOK /\ IdsApart => IdsNameOne
<1> SUFFICES ASSUME GuestTypeOK, IdsApart PROVE IdsNameOne
  OBVIOUS
<1>1. \A b \in Browsers : Tokens(b) \subseteq Held
  BY DEF Held, AllTokens
<1>2. named \subseteq Held
  BY DEF Held
<1>3. ASSUME NEW k \in named, NEW n \in Nicks, owner[n] = k.id PROVE n = k.nick
  <2> DEFINE l == [nick |-> n, id |-> k.id]
  <2>1. l \in Token
    BY TokenFacts DEF GuestTypeOK, Token
  <2>2. l \in Held
    BY <1>3, <2>1 DEF Held, Owns
  <2>3. l = k
    BY <1>2, <2>2 DEF IdsApart
  <2> QED BY <2>3
<1> QED BY <1>1, <1>2, <1>3 DEF IdsApart, IdsNameOne

\* Ids stay apart in every behaviour.
LEMMA ApartInvariant == GuestSpec => []IdsApart
<1>1. ASSUME GuestTypes, GuestTypes', IdsApart, [GuestNext]_vars PROVE IdsApart'
  <2>0. GuestTypeOK /\ GuestTypeOK'
    BY <1>1 DEF GuestTypes
  <2>1. CASE UNCHANGED vars
    <3>1. UNCHANGED <<owner, named, nextId, cookie, work, as>>
      BY <2>1 DEF vars, redisVars, pageVars, sockVars
    <3>2. \A b \in Browsers : Tokens(b)' = Tokens(b)
      BY <3>1 DEF Tokens
    <3>3. Held' = Held
      BY <3>1, <3>2 DEF Held, AllTokens, Owns
    <3> QED BY <1>1, <3>1, <3>2, <3>3 DEF IdsApart
  <2>2. ASSUME NEW b \in Browsers, NEW X, Learns(b, X), MayLearn(X) PROVE IdsApart'
    BY <1>1, <2>0, <2>2, ApartStep
  <2>3. ASSUME NEW n \in Nicks, MappingExpires(n) PROVE IdsApart'
    <3>1. /\ owner' = [owner EXCEPT ![n] = NoId] /\ named' \subseteq named
          /\ UNCHANGED <<nextId, cookie, work, as>>
      BY <2>3 DEF MappingExpires, pageVars, sockVars
    <3>2. \A k \in Token : Owns(k)' => Owns(k)
      <4>1. owner \in [Nicks -> 0 .. MaxIds \cup Nicks]
        BY <2>0 DEF GuestTypeOK
      <4>2. \A k \in Token : k.nick \in Nicks /\ k.id # NoId
        BY TokenFacts, GuestAssumption DEF GuestAssumption, NoId
      <4> QED BY <3>1, <4>1, <4>2 DEF Owns
    <3>3. \A b \in Browsers : Tokens(b)' = Tokens(b)
      BY <3>1 DEF Tokens
    <3>4. Held' \subseteq Held
      BY <3>1, <3>2, <3>3 DEF Held, AllTokens
    <3>5. Held' \subseteq Token /\ \A k, l \in Held' : k.id = l.id => k = l
      BY <1>1, <3>4 DEF IdsApart
    <3>6. \A k \in Held' : IF k.id \in Nicks THEN k = OfAccount(k.nick) ELSE k.id <= nextId'
      BY <1>1, <3>1, <3>4 DEF IdsApart
    <3>7. \A b, c \in Browsers : \A k \in Tokens(b)' \cap Tokens(c)' : b = c \/ k \notin Guests
      BY <1>1, <3>3 DEF IdsApart
    <3> QED BY <3>5, <3>6, <3>7 DEF IdsApart
  <2>4. CASE GuestNext
    <3>1. \A t \in Tabs : BrowserOf[t] \in Browsers
      BY GuestAssumption DEF GuestAssumption
    <3> QED BY <2>0, <2>2, <2>3, <2>4, <3>1, PagesLearn, SocksLearn DEF GuestNext
  <2> QED BY <1>1, <2>1, <2>4
<1> QED BY <1>1, ApartInit, GuestTyping, PTL DEF GuestSpec

\* Any number of browsers that submit, claim, renew, lose and free nicknames in
\* any order: an id is one holder's and one nickname's.
THEOREM IdsAreApart == GuestSpec => []IdsNameOne
<1>1. GuestTypes /\ IdsApart => IdsNameOne
  BY ApartNames DEF GuestTypes
<1> QED BY <1>1, ApartInvariant, GuestTyping, PTL
-------------------------------------------------------------------------------
\* b may have k: its nickname is no account's, k is the account's own, or b had
\* the nickname first.  NoToken is no identity.
MayHave(b, k) ==
  k = NoToken \/ k.nick \notin accounts \/ k.id = k.nick \/ <<b, k.nick>> \in elder

\* Only the request of a signup works with another token, and it is never kept.
Registering(b) == user[b] = work[b].nick /\ at[b] \in {"register", "own"}

NamesClosed ==
  /\ \A b \in Browsers : MayHave(b, cookie[b]) /\ (MayHave(b, work[b]) \/ Registering(b))
  /\ \A t \in Tabs : MayHave(BrowserOf[t], as[t])

\* A step of b that makes no account gives it what it may have.
LEMMA ClosedStep ==
  ASSUME NamesClosed, NEW b \in Browsers, UNCHANGED <<accounts, elder>>,
         \A c \in Browsers \ {b} :
           cookie'[c] = cookie[c] /\ work'[c] = work[c] /\ at'[c] = at[c] /\ user'[c] = user[c],
         MayHave(b, cookie'[b]), MayHave(b, work'[b]) \/ Registering(b)',
         \A t \in Tabs : as'[t] = as[t] \/ MayHave(BrowserOf[t], as'[t])
  PROVE  NamesClosed'
BY DEF NamesClosed, MayHave, Registering

\* A request of b that keeps its cookie, the user and the sockets.
LEMMA ClosedPage ==
  ASSUME GuestTypeOK, NamesClosed, NEW b \in Browsers, NEW step, NEW token,
         Works(b, step, token), MayHave(b, token), UNCHANGED <<accounts, elder, user, sockVars>>,
         cookie' = cookie \/ \E k : cookie' = [cookie EXCEPT ![b] = k] /\ MayHave(b, k)
  PROVE  NamesClosed'
<1>1. /\ \A c \in Browsers \ {b} : work'[c] = work[c] /\ at'[c] = at[c]
      /\ work'[b] = token
  BY DEF Works, GuestTypeOK
<1>2. MayHave(b, cookie'[b]) /\ \A c \in Browsers \ {b} : cookie'[c] = cookie[c]
  <2>1. cookie \in [Browsers -> Guests \cup {NoToken}] /\ MayHave(b, cookie[b])
    BY DEF GuestTypeOK, NamesClosed
  <2> QED BY <2>1
<1> QED BY <1>1, <1>2, ClosedStep DEF sockVars

\* A step of a socket.
LEMMA ClosedSock ==
  ASSUME GuestTypeOK, NamesClosed, NEW t \in Tabs, NEW stage, NEW token,
         Connects(t, stage, token), MayHave(BrowserOf[t], token), UNCHANGED <<userVars, pageVars>>
  PROVE  NamesClosed'
<1>1. \A u \in Tabs : as'[u] = as[u] \/ (u = t /\ as'[u] = token)
  BY DEF Connects, GuestTypeOK
<1>2. UNCHANGED <<accounts, elder, user, cookie, work, at>>
  BY DEF userVars, pageVars
<1>3. BrowserOf[t] \in Browsers
  BY GuestAssumption DEF GuestAssumption
<1> QED BY <1>1, <1>2, <1>3, ClosedStep DEF NamesClosed, Registering

\* A name that becomes an account's: who has it is an elder from now on.
LEMMA ClosedSignUp ==
  ASSUME GuestTypeOK, NamesClosed, NEW b \in Browsers, NEW n \in Nicks, SignsUp(b, n)
  PROVE  NamesClosed'
<1>1. /\ accounts' = accounts \cup {n} /\ user' = [user EXCEPT ![b] = n]
      /\ Works(b, "register", [nick |-> n, id |-> nextId']) /\ UNCHANGED <<cookie, sockVars>>
  BY DEF SignsUp
<1>2. elder \subseteq elder' /\ \A c \in Browsers : \A k \in Tokens(c) : k.nick = n => <<c, n>> \in elder'
  BY DEF SignsUp
<1>3. \A c \in Browsers : \A k : MayHave(c, k) /\ (k = NoToken \/ k \in Tokens(c)) => MayHave(c, k)'
  BY <1>1, <1>2 DEF MayHave
<1>4. /\ \A c \in Browsers \ {b} : work'[c] = work[c] /\ at'[c] = at[c] /\ user'[c] = user[c]
      /\ work'[b] = [nick |-> n, id |-> nextId'] /\ at'[b] = "register" /\ user'[b] = n
  BY <1>1 DEF Works, GuestTypeOK
<1>5. Registering(b)'
  BY <1>4 DEF Registering
<1>6. ASSUME NEW c \in Browsers PROVE MayHave(c, cookie[c])' /\ (MayHave(c, work[c])' \/ Registering(c)')
  <2>1. MayHave(c, cookie[c])'
    BY <1>1, <1>3, HasTokens DEF NamesClosed
  <2>2. CASE c = b
    BY <1>5, <2>1, <2>2
  <2>3. CASE c # b
    <3>1. work'[c] = work[c] /\ (Registering(c) => Registering(c)')
      BY <1>4, <2>3 DEF Registering
    <3>2. work[c] = NoToken \/ work[c] \in Tokens(c)
      BY HasTokens
    <3> QED BY <1>3, <2>1, <3>1, <3>2 DEF NamesClosed
  <2> QED BY <2>2, <2>3
<1>7. ASSUME NEW t \in Tabs PROVE MayHave(BrowserOf[t], as[t])'
  <2>1. BrowserOf[t] \in Browsers
    BY GuestAssumption DEF GuestAssumption
  <2>2. as'[t] = as[t] /\ (as[t] = NoToken \/ as[t] \in Tokens(BrowserOf[t]))
    BY <1>1, <2>1, HasTokens DEF sockVars
  <2> QED BY <1>3, <2>1, <2>2 DEF NamesClosed
<1> QED BY <1>6, <1>7 DEF NamesClosed

\* The other steps of a page.
LEMMA ClosedPages ==
  ASSUME GuestTypeOK, NamesClosed, NEW b \in Browsers,
         \/ \E n \in Nicks : Submits(b, n) \/ LogsIn(b, n)
         \/ VisitsAccount(b) \/ Visits(b) \/ Revisits(b) \/ Registers(b) \/ Becomes(b)
         \/ Aborts(b) \/ LogsOut(b) \/ Revokes(b) \/ TokenExpires(b)
  PROVE  NamesClosed'
<1>1. MayHave(b, cookie[b]) /\ (MayHave(b, work[b]) \/ Registering(b)) /\ MayHave(b, NoToken)
  BY DEF NamesClosed, MayHave
<1>2. \A n : MayHave(b, OfAccount(n))
  BY DEF MayHave, OfAccount
<1>3. user[b] # NoUser => user[b] \in Nicks
  BY DEF GuestTypeOK
<1>4. ASSUME NEW n \in Nicks, Submits(b, n) PROVE NamesClosed'
  <2>1. /\ Works(b, "register", [nick |-> n, id |-> nextId']) /\ n \notin accounts
        /\ UNCHANGED <<accounts, elder, user, cookie, sockVars>>
    BY <1>4 DEF Submits, userVars
  <2>2. MayHave(b, [nick |-> n, id |-> nextId'])
    BY <2>1 DEF MayHave
  <2> QED BY <2>1, <2>2, ClosedPage
<1>5. ASSUME NEW n \in Nicks, LogsIn(b, n) PROVE NamesClosed'
  <2>1. /\ Works(b, "register", OfAccount(n)) /\ user' = [user EXCEPT ![b] = n]
        /\ UNCHANGED <<accounts, elder, cookie, sockVars>>
    BY <1>5 DEF LogsIn
  <2>2. /\ \A c \in Browsers \ {b} : work'[c] = work[c] /\ at'[c] = at[c] /\ user'[c] = user[c]
        /\ work'[b] = OfAccount(n)
    BY <2>1 DEF Works, GuestTypeOK
  <2> QED BY <1>1, <1>2, <2>1, <2>2, ClosedStep DEF sockVars
<1>6. CASE VisitsAccount(b)
  BY <1>2, <1>6, ClosedPage DEF VisitsAccount, userVars
<1>7. CASE Visits(b)
  <2>1. UNCHANGED <<accounts, elder, user, cookie, sockVars>>
    BY <1>7 DEF Visits, userVars
  <2>2. PICK step : Works(b, step, cookie[b])
    BY <1>7 DEF Visits
  <2> QED BY <1>1, <2>1, <2>2, ClosedPage
<1>8. CASE Revisits(b)
  <2>1. UNCHANGED <<accounts, elder, user, sockVars>> /\ MayHave(b, work[b])
    BY <1>1, <1>8 DEF Revisits, userVars, Registering
  <2>2. \/ Works(b, "register", work[b]) /\ cookie' = cookie
        \/ Works(b, "idle", NoToken) /\ cookie' = [cookie EXCEPT ![b] = NoToken]
    BY <1>8 DEF Revisits
  <2> QED BY <1>1, <2>1, <2>2, ClosedPage
<1>9. CASE Registers(b)
  <2>1. Works(b, "own", work[b]) /\ UNCHANGED <<accounts, elder, user, cookie, sockVars>>
    BY <1>9 DEF Registers, userVars
  <2>2. /\ \A c \in Browsers \ {b} : work'[c] = work[c] /\ at'[c] = at[c]
        /\ work'[b] = work[b] /\ at'[b] = "own"
    BY <2>1 DEF Works, GuestTypeOK
  <2>3. MayHave(b, work'[b]) \/ Registering(b)'
    BY <1>1, <2>1, <2>2 DEF Registering
  <2> QED BY <1>1, <2>1, <2>2, <2>3, ClosedStep DEF sockVars
<1>10. CASE Becomes(b)
  <2>1. Works(b, "idle", NoToken) /\ UNCHANGED <<accounts, elder, user, sockVars>> /\ at[b] = "own"
    BY <1>10 DEF Becomes, userVars
  <2>2. user[b] = NoUser => MayHave(b, work[b])
    <3>1. work[b] \in Token
      BY <2>1 DEF GuestTypeOK
    <3> QED BY <1>1, <3>1, TokenFacts, GuestAssumption DEF Registering, GuestAssumption
  <2>3. cookie' = cookie \/ (user[b] = NoUser /\ cookie' = [cookie EXCEPT ![b] = work[b]])
    BY <1>10 DEF Becomes
  <2> QED BY <1>1, <2>1, <2>2, <2>3, ClosedPage
<1>11. CASE Aborts(b)
  BY <1>1, <1>11, ClosedPage DEF Aborts, userVars
<1>12. CASE LogsOut(b)
  <2>1. MayHave(b, Identity(b))
    BY <1>1, <1>2 DEF Identity
  <2> QED BY <1>12, <2>1, ClosedPage DEF LogsOut, userVars
<1>13. CASE Revokes(b)
  <2>1. /\ Works(b, "idle", NoToken) /\ cookie' = [cookie EXCEPT ![b] = NoToken]
        /\ user' = [user EXCEPT ![b] = NoUser] /\ UNCHANGED <<accounts, elder, sockVars>>
    BY <1>13 DEF Revokes
  <2>2. /\ \A c \in Browsers \ {b} : work'[c] = work[c] /\ at'[c] = at[c]
        /\ work'[b] = NoToken
    BY <2>1 DEF Works, GuestTypeOK
  <2>3. /\ \A c \in Browsers \ {b} : cookie'[c] = cookie[c] /\ user'[c] = user[c]
        /\ cookie'[b] = NoToken
    BY <2>1 DEF GuestTypeOK
  <2> QED BY <1>1, <2>1, <2>2, <2>3, ClosedStep DEF sockVars
<1>14. CASE TokenExpires(b)
  <2>1. /\ cookie' = [cookie EXCEPT ![b] = NoToken]
        /\ UNCHANGED <<accounts, elder, user, at, work, sockVars>>
    BY <1>14 DEF TokenExpires, userVars
  <2>2. cookie'[b] = NoToken /\ \A c \in Browsers \ {b} : cookie'[c] = cookie[c]
    BY <2>1 DEF GuestTypeOK
  <2> QED BY <1>1, <2>1, <2>2, ClosedStep DEF sockVars, Registering
<1> QED
  BY <1>4, <1>5, <1>6, <1>7, <1>8, <1>9, <1>10, <1>11, <1>12, <1>13, <1>14

\* The steps of a socket.
LEMMA ClosedSocks ==
  ASSUME GuestTypeOK, NamesClosed, NEW t \in Tabs,
         \/ HandshakesAccount(t) \/ Handshakes(t) \/ Accepts(t)
         \/ Opens(t) \/ Disconnects(t) \/ Vanishes(t)
  PROVE  NamesClosed'
<1>1. /\ MayHave(BrowserOf[t], cookie[BrowserOf[t]]) /\ MayHave(BrowserOf[t], as[t])
      /\ MayHave(BrowserOf[t], NoToken)
  BY GuestAssumption DEF GuestAssumption, NamesClosed, MayHave
<1>2. \A n : MayHave(BrowserOf[t], OfAccount(n))
  BY DEF MayHave, OfAccount
<1>3. UNCHANGED <<userVars, pageVars>>
  BY DEF HandshakesAccount, Handshakes, Accepts, Opens, Disconnects, Vanishes
<1>4. PICK stage, token : Connects(t, stage, token) /\ MayHave(BrowserOf[t], token)
  BY <1>1, <1>2 DEF HandshakesAccount, Handshakes, Accepts, Opens, Disconnects, Vanishes
<1> QED BY <1>3, <1>4, ClosedSock

\* Guests come and go and mappings expire, and still the name of an account goes to
\* no guest who did not have it when the account was made.
THEOREM AccountNamesStayClosed == GuestSpec => []AccountNamesAreClosed
<1>1. GuestInit => NamesClosed
  <2> SUFFICES ASSUME GuestInit PROVE NamesClosed
    OBVIOUS
  <2>1. \A t \in Tabs : BrowserOf[t] \in Browsers
    BY GuestAssumption DEF GuestAssumption
  <2> QED BY <2>1 DEF GuestInit, NamesClosed, MayHave
<1>2. ASSUME GuestTypes, NamesClosed, [GuestNext]_vars PROVE NamesClosed'
  <2>0. GuestTypeOK
    BY <1>2 DEF GuestTypes
  <2>1. CASE UNCHANGED vars
    BY <1>2, <2>1 DEF vars, pageVars, userVars, sockVars, NamesClosed, MayHave, Registering
  <2>2. ASSUME NEW n \in Nicks, MappingExpires(n) PROVE NamesClosed'
    BY <1>2, <2>2 DEF MappingExpires, pageVars, userVars, sockVars, NamesClosed, MayHave, Registering
  <2>3. CASE GuestNext
    BY <1>2, <2>0, <2>2, <2>3, ClosedPages, ClosedSignUp, ClosedSocks DEF GuestNext
  <2> QED BY <1>2, <2>1, <2>3
<1>3. GuestTypes /\ NamesClosed => AccountNamesAreClosed
  <2> SUFFICES ASSUME GuestTypes, NamesClosed, NEW b \in Browsers, NEW k \in Tokens(b),
                      k.nick \in accounts, k.id # k.nick, user[b] # k.nick
               PROVE  <<b, k.nick>> \in elder
    BY DEF AccountNamesAreClosed
  <2>1. k # NoToken /\ (k = cookie[b] \/ k = work[b] \/ \E t \in Tabs : BrowserOf[t] = b /\ k = as[t])
    BY HasTokens
  <2>2. MayHave(b, k) => <<b, k.nick>> \in elder
    BY <2>1 DEF MayHave
  <2>3. CASE k = cookie[b] \/ k = work[b]
    BY <2>2, <2>3 DEF NamesClosed, Registering
  <2>4. ASSUME NEW t \in Tabs, BrowserOf[t] = b, k = as[t] PROVE <<b, k.nick>> \in elder
    BY <2>2, <2>4 DEF NamesClosed
  <2> QED BY <2>1, <2>3, <2>4
<1> QED BY <1>1, <1>2, <1>3, GuestTyping, PTL DEF GuestSpec
-------------------------------------------------------------------------------
\* A guest in the room, or about to be, whose nickname nobody cleaned up and
\* nobody was admitted to at the same time.
Seat(t) ==
  /\ t \notin lost /\ sock[t] \in {"opening", "open"}
  /\ as[t] \in Guests /\ as[t].nick \notin overlapped

\* The browser c can still ask to be admitted with the token l.
Shows(c, l) ==
  \/ l = cookie[c]
  \/ at[c] = "read" /\ l = work[c]
  \/ \E t \in Tabs : BrowserOf[t] = c /\ l = as[t]

\* No browser but b can be admitted to n, or is about to write its owner.
Clear(b, n) ==
  /\ owner[n] # NoId
  /\ \A c \in Browsers \ {b} :
       /\ \A l \in Guests : Shows(c, l) /\ l.nick = n => ~ Owns(l)
       /\ user[c] = NoUser /\ at[c] \in {"register", "own"} => work[c].nick # n

\* A guest's seat is its browser's alone.
SeatInv ==
  \A t \in Tabs : Seat(t) =>
    /\ Clear(BrowserOf[t], as[t].nick)
    /\ \A u \in Tabs : Seat(u) /\ as[u].nick = as[t].nick => BrowserOf[u] = BrowserOf[t]

\* The token of a signup is shown nowhere, and only guests read the owner.
SignUpInv ==
  \A b \in Browsers :
    /\ at[b] = "read" => user[b] = NoUser
    /\ \A l \in Guests :
         user[b] # NoUser /\ at[b] \in {"register", "own"} /\ l = work[b] => ~ Shows(b, l)

\* A step of d leaves the others alone.
StepOf(d) ==
  /\ \A c \in Browsers \ {d} :
       cookie'[c] = cookie[c] /\ at'[c] = at[c] /\ work'[c] = work[c] /\ user'[c] = user[c]
  /\ \A t \in Tabs : BrowserOf[t] # d => as'[t] = as[t]

\* What is written as the owner of n is no token that another than b can show.
Safe(b, n) ==
  /\ owner'[n] # NoId
  /\ \A c \in Browsers \ {b} : \A l \in Guests : Shows(c, l) /\ l.nick = n => owner'[n] # l.id

\* The step shows no token of d with nickname n that was not shown before.
ShowsNoMore(d, n) == \A l \in Guests : Shows(d, l)' /\ l.nick = n => Shows(d, l)

\* After the step d is not about to write the owner of n, unless as an account.
StaysOut(d, n) == user'[d] = NoUser /\ at'[d] \in {"register", "own"} => work'[d].nick # n

\* Others show what they showed.
LEMMA OthersShow ==
  ASSUME NEW d \in Browsers, StepOf(d), NEW c \in Browsers \ {d}, NEW l
  PROVE  Shows(c, l)' <=> Shows(c, l)
<1>1. cookie'[c] = cookie[c] /\ at'[c] = at[c] /\ work'[c] = work[c]
  BY DEF StepOf
<1>2. \A t \in Tabs : BrowserOf[t] = c => as'[t] = as[t]
  BY DEF StepOf
<1> QED BY <1>1, <1>2 DEF Shows

\* What is clear of others stays so.
LEMMA ClearStays ==
  ASSUME NEW d \in Browsers, StepOf(d), NEW b \in Browsers, NEW n \in Nicks, Clear(b, n),
         owner'[n] = owner[n] \/ Safe(b, n),
         d = b \/ (ShowsNoMore(d, n) /\ StaysOut(d, n))
  PROVE  Clear(b, n)'
<1>1. Safe(b, n)
  BY DEF Safe, Clear, Owns
<1>2. ASSUME NEW c \in Browsers \ {b}, NEW l \in Guests, Shows(c, l)', l.nick = n
      PROVE  ~ Owns(l)'
  <2>1. Shows(c, l)
    BY <1>2, OthersShow DEF ShowsNoMore
  <2> QED BY <1>1, <1>2, <2>1 DEF Safe, Owns
<1>3. ASSUME NEW c \in Browsers \ {b}, user'[c] = NoUser, at'[c] \in {"register", "own"}
      PROVE  work'[c].nick # n
  BY <1>3 DEF StepOf, StaysOut, Clear
<1> QED BY <1>1, <1>2, <1>3 DEF Clear, Safe

\* A step that gives nobody a seat.
LEMMA SeatStays ==
  ASSUME GuestTypeOK, SeatInv, NEW d \in Browsers, StepOf(d),
         \A t \in Tabs : Seat(t)' => Seat(t) /\ as'[t] = as[t],
         \A t \in Tabs : Seat(t)' =>
           /\ owner'[as[t].nick] = owner[as[t].nick] \/ Safe(BrowserOf[t], as[t].nick)
           /\ d = BrowserOf[t] \/ (ShowsNoMore(d, as[t].nick) /\ StaysOut(d, as[t].nick))
  PROVE  SeatInv'
<1>1. \A t \in Tabs : BrowserOf[t] \in Browsers
  BY GuestAssumption DEF GuestAssumption
<1>2. ASSUME NEW t \in Tabs, Seat(t)'
      PROVE  Clear(BrowserOf[t], as[t].nick)' /\ as'[t] = as[t]
  <2>1. Seat(t) /\ as'[t] = as[t] /\ Clear(BrowserOf[t], as[t].nick)
    BY <1>2 DEF SeatInv
  <2>2. PICK n \in Nicks : n = as[t].nick
    BY <2>1, TokenFacts DEF Seat
  <2>3. Clear(BrowserOf[t], n)'
    BY <1>1, <1>2, <2>1, <2>2, ClearStays
  <2> QED BY <2>1, <2>2, <2>3
<1>3. ASSUME NEW t \in Tabs, NEW u \in Tabs, Seat(t)', Seat(u)', as'[u].nick = as'[t].nick
      PROVE  BrowserOf[u] = BrowserOf[t]
  BY <1>3 DEF SeatInv
<1> QED BY <1>2, <1>3 DEF SeatInv

\* A step of d on what is shown of a signup.
LEMMA SignUpStays ==
  ASSUME SignUpInv, NEW d \in Browsers, StepOf(d),
         at'[d] = "read" => user'[d] = NoUser,
         \A l \in Guests :
           user'[d] # NoUser /\ at'[d] \in {"register", "own"} /\ l = work'[d] => ~ Shows(d, l)'
  PROVE  SignUpInv'
<1>1. ASSUME NEW c \in Browsers \ {d}
      PROVE  /\ at'[c] = "read" => user'[c] = NoUser
             /\ \A l \in Guests :
                  user'[c] # NoUser /\ at'[c] \in {"register", "own"} /\ l = work'[c] => ~ Shows(c, l)'
  <2>1. at'[c] = at[c] /\ work'[c] = work[c] /\ user'[c] = user[c]
    BY DEF StepOf
  <2>2. \A l : Shows(c, l)' <=> Shows(c, l)
    BY OthersShow
  <2> QED BY <2>1, <2>2 DEF SignUpInv
<1> QED BY <1>1 DEF SignUpInv
-------------------------------------------------------------------------------
\* Who is admitted to a nickname alone finds no other guest in a seat: the one
\* who enters would count as overlapped, and the one who is in has the nickname
\* active and its owner unknown to others.
LEMMA NoSeatOfOthers ==
  ASSUME GuestTypes, OpenIsReserved, SeatInv, NEW d \in Browsers, NEW k \in Guests,
         Admitted(d, k.nick), k.nick \notin overlapped',
         k.nick \notin active \/ Takes(k) \/ (Owns(k) /\ Shows(d, k)),
         NEW t \in Tabs, Seat(t), as[t].nick = k.nick
  PROVE  BrowserOf[t] = d
<1> SUFFICES ASSUME BrowserOf[t] # d PROVE FALSE
  OBVIOUS
<1>1. BrowserOf[t] \in Browsers
  BY GuestAssumption DEF GuestAssumption
<1>2. Entering(d, k.nick) = {}
  BY DEF Admitted
<1>3. sock[t] # "opening"
  BY <1>1, <1>2 DEF Entering
<1>4. k.nick \in active
  BY <1>3 DEF Seat, OpenIsReserved
<1>5. Clear(BrowserOf[t], k.nick)
  BY DEF SeatInv
<1>6. ~ Takes(k)
  BY <1>5 DEF Clear, Takes
<1>7. ~ (Owns(k) /\ Shows(d, k))
  BY <1>5 DEF Clear
<1> QED BY <1>4, <1>6, <1>7

\* A claim leaves the owner of a taken nickname as it is.
LEMMA ClaimKeepsOwner ==
  ASSUME GuestTypeOK, NEW k, Takes(k) \/ Confirms(k) \/ owner' = owner,
         NEW b, NEW n \in Nicks, Clear(b, n)
  PROVE  owner'[n] = owner[n]
BY DEF GuestTypeOK, Takes, Confirms, Clear

\* A request of d keeps to its own cookie, user, step and token.
LEMMA PageFrame ==
  ASSUME GuestTypeOK, NEW d \in Browsers, NEW step, NEW token, Works(d, step, token),
         UNCHANGED sockVars,
         user' = user \/ \E v : user' = [user EXCEPT ![d] = v],
         cookie' = cookie \/ \E k : cookie' = [cookie EXCEPT ![d] = k]
  PROVE  /\ StepOf(d) /\ at'[d] = step /\ work'[d] = token
         /\ as' = as /\ sock' = sock
<1>1. /\ \A c \in Browsers \ {d} : at'[c] = at[c] /\ work'[c] = work[c]
      /\ at'[d] = step /\ work'[d] = token
  BY DEF Works, GuestTypeOK
<1>2. \A c \in Browsers \ {d} : user'[c] = user[c]
  <2>1. user \in [Browsers -> accounts \cup {NoUser}]
    BY DEF GuestTypeOK
  <2> QED BY <2>1
<1>3. \A c \in Browsers \ {d} : cookie'[c] = cookie[c]
  <2>1. cookie \in [Browsers -> Guests \cup {NoToken}]
    BY DEF GuestTypeOK
  <2> QED BY <2>1
<1> QED BY <1>1, <1>2, <1>3 DEF StepOf, sockVars

\* So does a step of one of its sockets.
LEMMA SockFrame ==
  ASSUME GuestTypeOK, NEW t \in Tabs, NEW stage, NEW token, Connects(t, stage, token),
         UNCHANGED <<userVars, pageVars>>
  PROVE  /\ StepOf(BrowserOf[t]) /\ BrowserOf[t] \in Browsers
         /\ sock'[t] = stage /\ as'[t] = token
         /\ \A u \in Tabs \ {t} : sock'[u] = sock[u] /\ as'[u] = as[u]
         /\ UNCHANGED <<cookie, at, work, user>>
<1>1. /\ sock'[t] = stage /\ as'[t] = token
      /\ \A u \in Tabs \ {t} : sock'[u] = sock[u] /\ as'[u] = as[u]
  BY DEF Connects, GuestTypeOK
<1>2. UNCHANGED <<cookie, at, work, user>>
  BY DEF userVars, pageVars
<1>3. BrowserOf[t] \in Browsers
  BY GuestAssumption DEF GuestAssumption
<1> QED BY <1>1, <1>2, <1>3 DEF StepOf

\* What a browser shows, it has.
LEMMA ShownIsHad ==
  ASSUME GuestTypeOK, NEW c \in Browsers, NEW l \in Guests, Shows(c, l)
  PROVE  l \in Tokens(c) /\ l \in Held
<1>1. l # NoToken
  BY TokenFacts
<1>2. l = cookie[c] \/ l = work[c] => l \in Tokens(c)
  BY <1>1, HasTokens
<1>3. ASSUME NEW v \in Tabs, BrowserOf[v] = c, l = as[v] PROVE l \in Tokens(c)
  <2>1. \A u \in Tabs : BrowserOf[u] = c /\ as[u] # NoToken => as[u] \in Tokens(c)
    BY HasTokens
  <2> QED BY <1>1, <1>3, <2>1
<1>4. l \in Tokens(c)
  BY <1>2, <1>3 DEF Shows
<1>5. Tokens(c) \subseteq Held
  BY DEF Held, AllTokens
<1> QED BY <1>4, <1>5

\* A new seat: whoever takes or confirms a nickname that nobody else is entering.
LEMMA NewSeat ==
  ASSUME GuestTypes, OpenIsReserved, IdsApart, SeatInv, NEW t \in Tabs, t \notin lost,
         NEW k \in Guests, k \in Tokens(BrowserOf[t]), Shows(BrowserOf[t], k),
         Takes(k) \/ Confirms(k), Connects(t, "opening", k),
         sock[t] \notin {"opening", "open"},
         Admitted(BrowserOf[t], k.nick), UNCHANGED <<pageVars, userVars, lost>>
  PROVE  SeatInv'
<1> DEFINE d == BrowserOf[t]
<1>0. GuestTypeOK /\ k.nick \in Nicks /\ k.id # NoId
  BY TokenFacts, GuestAssumption DEF GuestTypes, NoId, GuestAssumption
<1>1. /\ StepOf(d) /\ d \in Browsers
      /\ sock'[t] = "opening" /\ as'[t] = k
      /\ \A u \in Tabs \ {t} : sock'[u] = sock[u] /\ as'[u] = as[u]
      /\ UNCHANGED <<cookie, at, work, user>>
  BY <1>0, SockFrame
<1> HIDE DEF d
<1>2. \A l \in Guests : Shows(d, l)' => Shows(d, l)
  BY <1>1 DEF Shows, d
<1>3. overlapped \subseteq overlapped' /\ lost' = lost
  BY DEF Admitted
<1>4. \A u \in Tabs \ {t} : Seat(u)' => Seat(u) /\ as'[u] = as[u]
  BY <1>1, <1>3 DEF Seat
<1>5. owner'[k.nick] = k.id
  BY <1>0 DEF Takes, Confirms, Owns, GuestTypeOK
<1>6. ASSUME NEW u \in Tabs \ {t}, Seat(u)' PROVE Clear(BrowserOf[u], as[u].nick)'
  <2>1. Seat(u) /\ as'[u] = as[u] /\ Clear(BrowserOf[u], as[u].nick)
    BY <1>4, <1>6 DEF SeatInv
  <2>2. PICK n \in Nicks : n = as[u].nick
    BY <2>1, TokenFacts DEF Seat
  <2>3. BrowserOf[u] \in Browsers
    BY GuestAssumption DEF GuestAssumption
  <2>4. owner'[n] = owner[n]
    BY <1>0, <2>1, <2>2, ClaimKeepsOwner
  <2>5. d = BrowserOf[u] \/ (ShowsNoMore(d, n) /\ StaysOut(d, n))
    BY <1>1, <1>2, <2>1, <2>2 DEF ShowsNoMore, StaysOut, Clear
  <2>6. Clear(BrowserOf[u], n)'
    BY <1>1, <2>1, <2>2, <2>3, <2>4, <2>5, ClearStays
  <2> QED BY <2>1, <2>2, <2>6
<1>7. ASSUME Seat(t)' PROVE Clear(d, k.nick)'
  <2>1. k.nick \notin overlapped'
    BY <1>1, <1>7 DEF Seat
  <2>2. Entering(d, k.nick) = {}
    BY <2>1 DEF Admitted, d
  <2>3. ASSUME NEW c \in Browsers \ {d}, NEW l \in Guests, Shows(c, l)', l.nick = k.nick
        PROVE  ~ Owns(l)'
    <3>1. Shows(c, l)
      BY <1>1, <2>3, OthersShow
    <3>2. l \in Tokens(c) /\ l \in Held
      BY <1>0, <3>1, ShownIsHad
    <3>3. k \in Held
      BY <1>0, <1>1, ShownIsHad DEF d
    <3>4. l # k
      BY <1>1, <2>3, <3>2 DEF IdsApart, d
    <3> QED BY <1>5, <2>3, <3>2, <3>3, <3>4 DEF IdsApart, Owns
  <2>4. ASSUME NEW c \in Browsers \ {d}, at'[c] \in {"register", "own"}
        PROVE  work'[c].nick # k.nick
    BY <1>1, <2>2, <2>4 DEF Entering
  <2> QED BY <1>0, <1>5, <2>3, <2>4 DEF Clear
<1>8. ASSUME NEW u \in Tabs, NEW v \in Tabs, Seat(u)', Seat(v)', as'[v].nick = as'[u].nick
      PROVE  BrowserOf[v] = BrowserOf[u]
  <2>1. CASE u # t /\ v # t
    BY <1>4, <1>8, <2>1 DEF SeatInv
  <2>2. ASSUME NEW w \in Tabs \ {t}, Seat(w)', Seat(t)', as'[w].nick = as'[t].nick
        PROVE  BrowserOf[w] = d
    <3>1. Seat(w) /\ as[w].nick = k.nick /\ k.nick \notin overlapped'
      BY <1>1, <1>4, <2>2 DEF Seat
    <3>2. Takes(k) \/ (Owns(k) /\ Shows(d, k))
      BY DEF Confirms, d
    <3>3. Admitted(d, k.nick)
      BY DEF d
    <3> QED BY <1>1, <3>1, <3>2, <3>3, NoSeatOfOthers
  <2> QED BY <1>8, <2>1, <2>2 DEF d
<1>9. ASSUME NEW u \in Tabs, Seat(u)' PROVE Clear(BrowserOf[u], as[u].nick)'
  BY <1>1, <1>6, <1>7, <1>9 DEF d
<1> QED BY <1>8, <1>9 DEF SeatInv
-------------------------------------------------------------------------------
\* A request of d: no seat is new, and what it shows was shown or is of another
\* nickname.
LEMMA PageSeat ==
  ASSUME GuestTypeOK, SeatInv, NEW d \in Browsers, StepOf(d), as' = as, sock' = sock,
         overlapped \subseteq overlapped', lost \subseteq lost',
         at'[d] = "read" => work'[d] = cookie[d],
         \A t \in Tabs : Seat(t) /\ Seat(t)' =>
           /\ owner'[as[t].nick] = owner[as[t].nick] \/ Safe(BrowserOf[t], as[t].nick)
           /\ BrowserOf[t] = d \/
                /\ cookie'[d] \in {cookie[d], NoToken} \/ cookie'[d].nick # as[t].nick
                /\ StaysOut(d, as[t].nick)
  PROVE  SeatInv'
<1>2. \A t \in Tabs : Seat(t)' => Seat(t) /\ as'[t] = as[t]
  BY DEF Seat
<1>3. ASSUME NEW t \in Tabs, Seat(t)', BrowserOf[t] # d
      PROVE  ShowsNoMore(d, as[t].nick) /\ StaysOut(d, as[t].nick)
  <2>1. /\ cookie'[d] \in {cookie[d], NoToken} \/ cookie'[d].nick # as[t].nick
        /\ StaysOut(d, as[t].nick)
    BY <1>2, <1>3
  <2>2. ASSUME NEW l \in Guests, Shows(d, l)', l.nick = as[t].nick PROVE Shows(d, l)
    <3>1. l # NoToken
      BY TokenFacts
    <3>2. CASE l = cookie'[d]
      BY <2>1, <2>2, <3>1, <3>2 DEF Shows
    <3>3. CASE at'[d] = "read" /\ l = work'[d]
      BY <3>3 DEF Shows
    <3>4. CASE \E u \in Tabs : BrowserOf[u] = d /\ l = as'[u]
      BY <3>4 DEF Shows
    <3> QED BY <2>2, <3>2, <3>3, <3>4 DEF Shows
  <2> QED BY <2>1, <2>2 DEF ShowsNoMore
<1>4. ASSUME NEW t \in Tabs, Seat(t)'
      PROVE  /\ owner'[as[t].nick] = owner[as[t].nick] \/ Safe(BrowserOf[t], as[t].nick)
             /\ d = BrowserOf[t] \/ (ShowsNoMore(d, as[t].nick) /\ StaysOut(d, as[t].nick))
  BY <1>2, <1>3, <1>4
<1> QED BY <1>2, <1>4, SeatStays

\* What d works with is shown only if it was, when its cookie and sockets stay.
LEMMA PageSignUp ==
  ASSUME GuestTypeOK, SignUpInv, NEW d \in Browsers, NEW step, NEW token,
         Works(d, step, token), UNCHANGED sockVars,
         user' = user \/ \E v : user' = [user EXCEPT ![d] = v],
         cookie' = cookie \/ \E k : cookie' = [cookie EXCEPT ![d] = k],
         step = "read" => user'[d] = NoUser,
         user'[d] # NoUser /\ step \in {"register", "own"} /\ token \in Guests =>
           cookie' = cookie /\ ~ Shows(d, token)
  PROVE  SignUpInv'
<1>1. /\ StepOf(d) /\ at'[d] = step /\ work'[d] = token
      /\ as' = as /\ sock' = sock
  BY PageFrame
<1>2. ASSUME NEW l \in Guests, user'[d] # NoUser, at'[d] \in {"register", "own"}, l = work'[d]
      PROVE  ~ Shows(d, l)'
  <2>1. cookie' = cookie /\ ~ Shows(d, l) /\ at'[d] # "read"
    BY <1>1, <1>2
  <2> QED BY <1>1, <2>1 DEF Shows
<1> QED BY <1>1, <1>2, SignUpStays

\* All that is known of the guests.
GuestFacts == GuestTypes /\ OpenIsReserved /\ IdsApart /\ SeatInv /\ SignUpInv

\* A page that is admitted: nobody else has a seat under its nickname.
LEMMA PageAdmitted ==
  ASSUME GuestFacts, NEW d \in Browsers, NEW k \in Guests, Works(d, "register", k),
         Admitted(d, k.nick), user' = user, user[d] = NoUser,
         UNCHANGED <<cookie, sockVars, lost>>,
         \/ owner' = owner /\ k.nick \notin active
         \/ Takes(k)
         \/ Confirms(k) /\ Shows(d, k)
  PROVE  SeatInv' /\ SignUpInv'
<1>0. GuestTypeOK /\ SeatInv /\ SignUpInv /\ overlapped \subseteq overlapped'
  BY DEF GuestFacts, GuestTypes, Admitted
<1>1. ASSUME NEW t \in Tabs, Seat(t), Seat(t)' PROVE owner'[as[t].nick] = owner[as[t].nick]
  <2>1. PICK n \in Nicks : n = as[t].nick
    BY <1>1, TokenFacts DEF Seat
  <2>2. Clear(BrowserOf[t], n)
    BY <1>0, <1>1, <2>1 DEF SeatInv
  <2>3. owner'[n] = owner[n]
    BY <1>0, <2>2, ClaimKeepsOwner
  <2> QED BY <2>1, <2>3
<1>2. ASSUME NEW t \in Tabs, Seat(t), Seat(t)', BrowserOf[t] # d PROVE k.nick # as[t].nick
  <2> SUFFICES ASSUME k.nick = as[t].nick PROVE FALSE
    OBVIOUS
  <2>1. k.nick \notin overlapped'
    BY <1>2 DEF Seat, sockVars
  <2>2. k.nick \notin active \/ Takes(k) \/ (Owns(k) /\ Shows(d, k))
    BY DEF Confirms
  <2> QED BY <1>2, <2>1, <2>2, NoSeatOfOthers DEF GuestFacts
<1>3. SeatInv'
  <2>1. /\ StepOf(d) /\ at'[d] = "register" /\ work'[d] = k
        /\ as' = as /\ sock' = sock
    BY <1>0, PageFrame
  <2>2. \A t \in Tabs : Seat(t) /\ Seat(t)' =>
          /\ owner'[as[t].nick] = owner[as[t].nick] \/ Safe(BrowserOf[t], as[t].nick)
          /\ BrowserOf[t] = d \/
               /\ cookie'[d] \in {cookie[d], NoToken} \/ cookie'[d].nick # as[t].nick
               /\ StaysOut(d, as[t].nick)
    BY <1>1, <1>2, <2>1 DEF StaysOut
  <2> QED BY <1>0, <2>1, <2>2, PageSeat
<1>4. SignUpInv'
  BY <1>0, PageSignUp
<1> QED BY <1>3, <1>4

\* A request of d that admits it to nothing as a guest.
LEMMA PageLeaves ==
  ASSUME GuestFacts, NEW d \in Browsers, NEW step, NEW token, Works(d, step, token),
         UNCHANGED sockVars,
         user' = user \/ \E v : user' = [user EXCEPT ![d] = v],
         cookie' = cookie \/ cookie' = [cookie EXCEPT ![d] = NoToken],
         overlapped \subseteq overlapped', lost \subseteq lost',
         step = "read" => token = cookie[d] /\ user'[d] = NoUser,
         step \in {"register", "own"} =>
           user'[d] # NoUser /\ cookie' = cookie /\ (token \in Guests => ~ Shows(d, token)),
         \A t \in Tabs : Seat(t) /\ Seat(t)' => owner'[as[t].nick] = owner[as[t].nick]
  PROVE  SeatInv' /\ SignUpInv'
<1>0. GuestTypeOK /\ SeatInv /\ SignUpInv
  BY DEF GuestFacts, GuestTypes
<1>1. cookie' = cookie \/ \E k : cookie' = [cookie EXCEPT ![d] = k]
  OBVIOUS
<1>2. /\ StepOf(d) /\ at'[d] = step /\ work'[d] = token
      /\ as' = as /\ sock' = sock
  BY <1>0, <1>1, PageFrame
<1>3. cookie'[d] \in {cookie[d], NoToken}
  BY <1>0 DEF GuestTypeOK
<1>4. \A n : StaysOut(d, n)
  BY <1>2 DEF StaysOut
<1>5. SeatInv'
  BY <1>0, <1>2, <1>3, <1>4, PageSeat
<1>6. /\ step = "read" => user'[d] = NoUser
      /\ user'[d] # NoUser /\ step \in {"register", "own"} /\ token \in Guests =>
           cookie' = cookie /\ ~ Shows(d, token)
  OBVIOUS
<1>7. SignUpInv'
  BY <1>0, <1>1, <1>6, PageSignUp
<1> QED BY <1>5, <1>7

\* What leaves pages, sockets and the owners of seats alone.
LEMMA SeatFrame ==
  ASSUME SeatInv, SignUpInv, UNCHANGED <<cookie, at, work, user, as, sock, lost, overlapped>>,
         \A t \in Tabs : Seat(t) => owner'[as[t].nick] = owner[as[t].nick]
  PROVE  SeatInv' /\ SignUpInv'
<1>1. \A c, l : Shows(c, l)' <=> Shows(c, l)
  BY DEF Shows
<1>2. \A t \in Tabs : Seat(t)' <=> Seat(t)
  BY DEF Seat
<1>3. SignUpInv'
  BY <1>1 DEF SignUpInv
<1>4. ASSUME NEW t \in Tabs, Seat(t) PROVE Clear(BrowserOf[t], as[t].nick)'
  <2>1. Clear(BrowserOf[t], as[t].nick) /\ owner'[as[t].nick] = owner[as[t].nick]
    BY <1>4 DEF SeatInv
  <2> QED BY <1>1, <2>1 DEF Clear, Owns
<1>5. SeatInv'
  BY <1>2, <1>4 DEF SeatInv
<1> QED BY <1>3, <1>5

\* Every step of a page.
LEMMA SeatPages ==
  ASSUME GuestFacts, NEW b \in Browsers,
         \/ \E n \in Nicks : Submits(b, n) \/ SignsUp(b, n) \/ LogsIn(b, n)
         \/ VisitsAccount(b) \/ Visits(b) \/ Revisits(b) \/ Registers(b) \/ Becomes(b)
         \/ Aborts(b) \/ LogsOut(b) \/ Revokes(b) \/ TokenExpires(b)
  PROVE  SeatInv' /\ SignUpInv'
<1>0. /\ GuestTypeOK /\ WorksAsGuest /\ IdsApart /\ SeatInv /\ SignUpInv
      /\ MaxIds \in Nat /\ nextId \in 0 .. MaxIds /\ NoUser \notin Nicks
  <2>1. GuestTypeOK /\ WorksAsGuest /\ IdsApart /\ SeatInv /\ SignUpInv
    BY DEF GuestFacts, GuestTypes
  <2> QED BY <2>1, GuestAssumption DEF GuestAssumption, GuestTypeOK
<1>a. /\ cookie[b] \in Guests \cup {NoToken} /\ work[b] \in Token \cup {NoToken}
      /\ user[b] \in Nicks \cup {NoUser}
      /\ at[b] = "idle" <=> work[b] = NoToken
  <2>1. cookie[b] \in Guests \cup {NoToken} /\ work[b] \in Token \cup {NoToken}
    BY <1>0 DEF GuestTypeOK
  <2>2. user[b] \in accounts \cup {NoUser} /\ accounts \subseteq Nicks
    BY <1>0 DEF GuestTypeOK
  <2>3. at[b] = "idle" <=> work[b] = NoToken
    BY <1>0 DEF GuestTypeOK
  <2> QED BY <2>1, <2>2, <2>3
<1>b. \A n \in Nicks : OfAccount(n) \notin Guests
  BY TokenFacts DEF Guests
<1>c. ASSUME NEW v, user' = [user EXCEPT ![b] = v] PROVE user'[b] = v
  BY <1>0, <1>c, UserTyped
<1>1. ASSUME NEW n \in Nicks, Submits(b, n) PROVE SeatInv' /\ SignUpInv'
  <2>1. nextId' \in 1 .. MaxIds
    BY <1>0, <1>1 DEF Submits
  <2>2. PICK k \in Guests : k = [nick |-> n, id |-> nextId'] /\ k.nick = n
    BY <2>1, TokenFacts
  <2>3. /\ Works(b, "register", k) /\ Admitted(b, k.nick) /\ k.nick \notin active
        /\ user' = user /\ user[b] = NoUser /\ owner' = owner
        /\ UNCHANGED <<cookie, sockVars, lost>>
    BY <1>1, <2>2 DEF Submits, userVars
  <2> QED BY <2>3, PageAdmitted
<1>2. ASSUME NEW n \in Nicks, SignsUp(b, n) PROVE SeatInv' /\ SignUpInv'
  <2>1. nextId' \in 1 .. MaxIds /\ nextId' = nextId + 1
    BY <1>0, <1>2 DEF SignsUp
  <2>2. PICK k \in Guests : k = [nick |-> n, id |-> nextId'] /\ k.id = nextId'
    BY <2>1, TokenFacts
  <2>3. ~ Shows(b, k)
    <3>1. k \notin Held
      BY <1>0, <2>1, <2>2, GuestAssumption DEF IdsApart, Guests, GuestAssumption
    <3> QED BY <1>0, <3>1, ShownIsHad
  <2>4. /\ Works(b, "register", k) /\ user' = [user EXCEPT ![b] = n] /\ owner' = owner
        /\ UNCHANGED <<cookie, sockVars, lost, overlapped>>
    BY <1>2, <2>2 DEF SignsUp
  <2>5. user'[b] # NoUser
    BY <1>0, <1>c, <2>4
  <2> QED BY <2>3, <2>4, <2>5, PageLeaves
<1>3. ASSUME NEW n \in Nicks, LogsIn(b, n) PROVE SeatInv' /\ SignUpInv'
  <2>1. /\ Works(b, "register", OfAccount(n)) /\ user' = [user EXCEPT ![b] = n] /\ owner' = owner
        /\ UNCHANGED <<cookie, sockVars, lost, overlapped>>
    BY <1>3 DEF LogsIn, redisVars
  <2>2. user'[b] # NoUser
    BY <1>0, <1>c, <2>1
  <2> QED BY <1>b, <2>1, <2>2, PageLeaves
<1>4. CASE VisitsAccount(b)
  <2>1. /\ Works(b, "register", OfAccount(user[b])) /\ user[b] # NoUser
        /\ UNCHANGED <<user, owner, cookie, sockVars, lost, overlapped>>
    BY <1>4 DEF VisitsAccount, redisVars, userVars
  <2>2. OfAccount(user[b]) \notin Guests
    BY <1>a, <1>b, <2>1
  <2> QED BY <2>1, <2>2, PageLeaves
<1>5. CASE Visits(b)
  <2>1. /\ user[b] = NoUser /\ cookie[b] \in Guests
        /\ user' = user /\ UNCHANGED <<cookie, sockVars, lost>>
    BY <1>5, <1>a DEF Visits, userVars
  <2>2. CASE Takes(cookie[b]) /\ Works(b, "register", cookie[b]) /\ Admitted(b, cookie[b].nick)
    BY <2>1, <2>2, PageAdmitted
  <2>3. CASE Works(b, "read", cookie[b]) /\ UNCHANGED <<owner, named, overlapped>>
    BY <2>1, <2>3, PageLeaves
  <2> QED BY <1>5, <2>2, <2>3 DEF Visits
<1>6. CASE Revisits(b)
  <2>1. /\ at[b] = "read" /\ user[b] = NoUser /\ work[b] \in Guests
        /\ user' = user /\ UNCHANGED <<sockVars, lost>>
    BY <1>0, <1>6 DEF Revisits, userVars, SignUpInv, WorksAsGuest
  <2>2. CASE /\ Confirms(work[b]) /\ Works(b, "register", work[b])
             /\ Admitted(b, work[b].nick) /\ UNCHANGED cookie
    <3>1. Shows(b, work[b])
      BY <2>1 DEF Shows
    <3> QED BY <2>1, <2>2, <3>1, PageAdmitted
  <2>3. CASE /\ cookie' = [cookie EXCEPT ![b] = NoToken] /\ Works(b, "idle", NoToken)
             /\ UNCHANGED <<owner, named, overlapped>>
    BY <2>1, <2>3, PageLeaves
  <2> QED BY <1>6, <2>2, <2>3 DEF Revisits
<1>7. CASE Registers(b)
  <2>1. /\ at[b] = "register" /\ Works(b, "own", work[b])
        /\ UNCHANGED <<user, owner, cookie, sockVars, lost, overlapped>>
    BY <1>7 DEF Registers, userVars
  <2>2. /\ StepOf(b) /\ at'[b] = "own" /\ work'[b] = work[b]
        /\ as' = as /\ sock' = sock
    BY <1>0, <2>1, PageFrame
  <2>3. ASSUME NEW t \in Tabs, Seat(t), BrowserOf[t] # b PROVE StaysOut(b, as[t].nick)
    BY <1>0, <2>1, <2>2, <2>3 DEF SeatInv, Clear, StaysOut
  <2>4. SeatInv'
    BY <1>0, <2>1, <2>2, <2>3, PageSeat
  <2>5. user[b] # NoUser /\ work[b] \in Guests => ~ Shows(b, work[b])
    BY <1>0, <2>1 DEF SignUpInv
  <2>6. SignUpInv'
    BY <1>0, <2>1, <2>5, PageSignUp
  <2> QED BY <2>4, <2>6
<1>8. CASE Becomes(b)
  <2>1. /\ at[b] = "own" /\ Works(b, "idle", NoToken) /\ work[b] \in Token
        /\ owner' = [owner EXCEPT ![work[b].nick] = work[b].id]
        /\ UNCHANGED <<user, sockVars, lost, overlapped>>
    BY <1>8, <1>a DEF Becomes, userVars
  <2>2. cookie' = cookie \/ (user[b] = NoUser /\ cookie' = [cookie EXCEPT ![b] = work[b]])
    BY <1>8 DEF Becomes
  <2>3. /\ StepOf(b) /\ at'[b] = "idle"
        /\ as' = as /\ sock' = sock
    BY <1>0, <2>1, <2>2, PageFrame
  <2>4. cookie'[b] = cookie[b] \/ (user[b] = NoUser /\ cookie'[b] = work[b])
    BY <1>0, <2>2 DEF GuestTypeOK
  <2>5. ASSUME NEW t \in Tabs, Seat(t), BrowserOf[t] # b, user[b] = NoUser
        PROVE  work[b].nick # as[t].nick
    BY <1>0, <2>1, <2>5 DEF SeatInv, Clear
  <2>6. ASSUME NEW t \in Tabs, Seat(t), work[b].nick = as[t].nick
        PROVE  Safe(BrowserOf[t], as[t].nick)
    <3>1. owner'[as[t].nick] = work[b].id /\ work[b].id # NoId
      <4>1. /\ owner \in [Nicks -> 0 .. MaxIds \cup Nicks]
            /\ work[b].nick \in Nicks /\ work[b].id \in 1 .. MaxIds \cup Nicks
        BY <1>0, <2>1, TokenFacts DEF GuestTypeOK
      <4>2. work[b].id # NoId
        BY <4>1, GuestAssumption DEF NoId, GuestAssumption
      <4> QED BY <2>1, <2>6, <4>1, <4>2
    <3>2. ASSUME NEW c \in Browsers \ {BrowserOf[t]}, NEW l \in Guests, Shows(c, l),
                 l.nick = as[t].nick, work[b].id = l.id
          PROVE  FALSE
      <4>1. l \in Tokens(c) /\ l \in Held
        BY <1>0, <3>2, ShownIsHad
      <4>2. work[b] \in Tokens(b)
        BY <2>1, TokenFacts, HasTokens
      <4>3. work[b] \in Held
        BY <4>2 DEF Held, AllTokens
      <4>4. work[b] = l
        BY <1>0, <3>2, <4>1, <4>3 DEF IdsApart
      <4>5. b = c
        BY <1>0, <4>1, <4>2, <4>4 DEF IdsApart
      <4>6. user[b] = NoUser
        BY <1>0, <2>1, <3>2, <4>4, <4>5 DEF SignUpInv
      <4> QED BY <2>5, <2>6, <3>2, <4>5, <4>6
    <3> QED BY <3>1, <3>2 DEF Safe
  <2>7. ASSUME NEW t \in Tabs, Seat(t)
        PROVE  owner'[as[t].nick] = owner[as[t].nick] \/ Safe(BrowserOf[t], as[t].nick)
    <3>1. work[b].nick # as[t].nick => owner'[as[t].nick] = owner[as[t].nick]
      <4>1. owner \in [Nicks -> 0 .. MaxIds \cup Nicks] /\ as[t].nick \in Nicks
        BY <1>0, <2>7, TokenFacts DEF GuestTypeOK, Seat
      <4> QED BY <2>1, <4>1
    <3> QED BY <2>6, <2>7, <3>1
  <2>8. ASSUME NEW t \in Tabs, Seat(t), BrowserOf[t] # b
        PROVE  /\ cookie'[b] \in {cookie[b], NoToken} \/ cookie'[b].nick # as[t].nick
               /\ StaysOut(b, as[t].nick)
    BY <2>3, <2>4, <2>5, <2>8 DEF StaysOut
  <2>9. SeatInv'
    BY <1>0, <2>1, <2>3, <2>7, <2>8, PageSeat
  <2>10. SignUpInv'
    BY <1>0, <2>1, <2>2, PageSignUp
  <2> QED BY <2>9, <2>10
<1>9. CASE Aborts(b)
  BY <1>9, PageLeaves DEF Aborts, redisVars, userVars
<1>10. CASE LogsOut(b)
  BY <1>10, PageLeaves DEF LogsOut, Loses, userVars
<1>11. CASE Revokes(b)
  <2>1. /\ Works(b, "idle", NoToken) /\ owner' = [owner EXCEPT ![work[b].nick] = NoId]
        /\ cookie' = [cookie EXCEPT ![b] = NoToken] /\ user' = [user EXCEPT ![b] = NoUser]
        /\ Loses(work[b].nick) /\ UNCHANGED <<sockVars, overlapped>>
    BY <1>11 DEF Revokes
  <2>2. ASSUME NEW t \in Tabs, Seat(t), Seat(t)' PROVE owner'[as[t].nick] = owner[as[t].nick]
    <3>1. owner \in [Nicks -> 0 .. MaxIds \cup Nicks] /\ as[t].nick \in Nicks
      BY <1>0, <2>2, TokenFacts DEF GuestTypeOK, Seat
    <3>2. as[t].nick # work[b].nick
      BY <2>1, <2>2 DEF Seat, Loses
    <3> QED BY <2>1, <3>1, <3>2
  <2>3. lost \subseteq lost'
    BY <2>1 DEF Loses
  <2> QED BY <2>1, <2>2, <2>3, PageLeaves
<1>12. CASE TokenExpires(b)
  <2>1. /\ cookie' = [cookie EXCEPT ![b] = NoToken]
        /\ UNCHANGED <<user, owner, at, work, sock, as, lost, overlapped>>
    BY <1>12 DEF TokenExpires, userVars, redisVars, sockVars
  <2>2. cookie'[b] = NoToken /\ \A c \in Browsers \ {b} : cookie'[c] = cookie[c]
    BY <1>0, <2>1 DEF GuestTypeOK
  <2>3. StepOf(b)
    BY <2>1, <2>2 DEF StepOf
  <2>4. \A l \in Guests : Shows(b, l)' => Shows(b, l)
    BY <2>1, <2>2, TokenFacts DEF Shows
  <2>5. \A t \in Tabs : Seat(t)' => Seat(t) /\ as'[t] = as[t]
    BY <2>1 DEF Seat
  <2>6. ASSUME NEW t \in Tabs, Seat(t)', BrowserOf[t] # b
        PROVE  ShowsNoMore(b, as[t].nick) /\ StaysOut(b, as[t].nick)
    BY <1>0, <2>1, <2>4, <2>5, <2>6 DEF ShowsNoMore, StaysOut, SeatInv, Clear
  <2>7. SeatInv'
    BY <1>0, <2>1, <2>3, <2>5, <2>6, SeatStays
  <2>8. SignUpInv'
    BY <1>0, <2>1, <2>3, <2>4, SignUpStays DEF SignUpInv
  <2> QED BY <2>7, <2>8
<1> QED
  BY <1>1, <1>2, <1>3, <1>4, <1>5, <1>6, <1>7, <1>8, <1>9, <1>10, <1>11, <1>12

\* A step of a socket that seats no guest.
LEMMA SockLeaves ==
  ASSUME GuestFacts, NEW t \in Tabs, NEW stage, NEW token, Connects(t, stage, token),
         UNCHANGED <<userVars, pageVars>>, owner' = owner, overlapped \subseteq overlapped',
         \A u \in Tabs \ {t} : u \in lost /\ sock[u] \in {"opening", "open"} => u \in lost',
         token \in Guests => Shows(BrowserOf[t], token) /\ (Seat(t)' => Seat(t) /\ token = as[t])
  PROVE  SeatInv'
<1>0. GuestTypeOK /\ SeatInv
  BY DEF GuestFacts, GuestTypes
<1>1. /\ StepOf(BrowserOf[t]) /\ BrowserOf[t] \in Browsers
      /\ sock'[t] = stage /\ as'[t] = token
      /\ \A u \in Tabs \ {t} : sock'[u] = sock[u] /\ as'[u] = as[u]
      /\ UNCHANGED <<cookie, at, work, user>>
  BY <1>0, SockFrame
<1>2. PICK d \in Browsers : d = BrowserOf[t]
  BY <1>1
<1>3. StepOf(d)
  BY <1>1, <1>2
<1>4. ASSUME NEW u \in Tabs, Seat(u)' PROVE Seat(u) /\ as'[u] = as[u]
  <2>1. CASE u = t
    <3>1. token \in Guests
      BY <1>1, <1>4, <2>1 DEF Seat
    <3> QED BY <1>1, <1>4, <2>1, <3>1
  <2>2. CASE u # t
    BY <1>1, <1>4, <2>2 DEF Seat
  <2> QED BY <2>1, <2>2
<1>5. \A l \in Guests : Shows(d, l)' => Shows(d, l)
  BY <1>1, <1>2 DEF Shows
<1>6. ASSUME NEW u \in Tabs, Seat(u)'
      PROVE  d = BrowserOf[u] \/ (ShowsNoMore(d, as[u].nick) /\ StaysOut(d, as[u].nick))
  BY <1>0, <1>1, <1>4, <1>5, <1>6 DEF ShowsNoMore, StaysOut, SeatInv, Clear
<1> QED BY <1>0, <1>3, <1>4, <1>6, SeatStays

\* A socket whose token its browser shows shows nothing new of a signup.
LEMMA SockSignUp ==
  ASSUME GuestFacts, NEW t \in Tabs, NEW stage, NEW token, Connects(t, stage, token),
         UNCHANGED <<userVars, pageVars>>,
         token \in Guests => Shows(BrowserOf[t], token)
  PROVE  SignUpInv'
<1>0. GuestTypeOK /\ SignUpInv
  BY DEF GuestFacts, GuestTypes
<1>1. /\ StepOf(BrowserOf[t]) /\ BrowserOf[t] \in Browsers
      /\ sock'[t] = stage /\ as'[t] = token
      /\ \A u \in Tabs \ {t} : sock'[u] = sock[u] /\ as'[u] = as[u]
      /\ UNCHANGED <<cookie, at, work, user>>
  BY <1>0, SockFrame
<1>2. PICK d \in Browsers : d = BrowserOf[t]
  BY <1>1
<1>3. StepOf(d)
  BY <1>1, <1>2
<1>4. \A l \in Guests : Shows(d, l)' => Shows(d, l)
  BY <1>1, <1>2 DEF Shows
<1> QED BY <1>0, <1>1, <1>3, <1>4, SignUpStays DEF SignUpInv

\* Every step of a socket.
LEMMA SeatSocks ==
  ASSUME GuestFacts, NEW t \in Tabs,
         \/ HandshakesAccount(t) \/ Handshakes(t) \/ Accepts(t)
         \/ Opens(t) \/ Disconnects(t) \/ Vanishes(t)
  PROVE  SeatInv' /\ SignUpInv'
<1>0. /\ GuestTypeOK /\ GuestTypes /\ OpenIsReserved /\ IdsApart /\ SeatInv
      /\ BrowserOf[t] \in Browsers
  BY GuestAssumption DEF GuestFacts, GuestTypes, GuestAssumption
<1>1. UNCHANGED <<userVars, pageVars>>
  BY DEF HandshakesAccount, Handshakes, Accepts, Opens, Disconnects, Vanishes
<1>2. /\ cookie[BrowserOf[t]] \in Guests \cup {NoToken} /\ NoToken \notin Guests
      /\ sock[t] \notin {"opening", "open"} => t \notin lost
      /\ user[BrowserOf[t]] # NoUser => OfAccount(user[BrowserOf[t]]) \notin Guests
  <2>1. cookie[BrowserOf[t]] \in Guests \cup {NoToken} /\ NoToken \notin Guests
    BY <1>0, TokenFacts DEF GuestTypeOK
  <2>2. sock[t] \notin {"opening", "open"} => t \notin lost
    BY <1>0 DEF GuestTypeOK
  <2>3. user[BrowserOf[t]] \in accounts \cup {NoUser} /\ accounts \subseteq Nicks
    BY <1>0 DEF GuestTypeOK
  <2> QED BY <2>1, <2>2, <2>3, TokenFacts DEF Guests
<1>3. /\ as[t] \in Guests => Shows(BrowserOf[t], as[t])
      /\ Shows(BrowserOf[t], cookie[BrowserOf[t]])
  BY DEF Shows
<1>4. ASSUME NEW k \in Guests, k \in {cookie[BrowserOf[t]], as[t]}, Takes(k) \/ Confirms(k),
             Connects(t, "opening", k), sock[t] \notin {"opening", "open"},
             Admitted(BrowserOf[t], k.nick), lost' = lost
      PROVE  SeatInv' /\ SignUpInv'
  <2>1. Shows(BrowserOf[t], k)
    BY <1>3, <1>4
  <2>2. k \in Tokens(BrowserOf[t]) /\ t \notin lost
    BY <1>0, <1>2, <1>4, <2>1, ShownIsHad
  <2>3. SeatInv'
    BY <1>0, <1>1, <1>4, <2>1, <2>2, NewSeat
  <2>4. SignUpInv'
    BY <1>1, <1>4, <2>1, SockSignUp
  <2> QED BY <2>3, <2>4
<1>5. CASE HandshakesAccount(t)
  <2>1. /\ Connects(t, "opening", OfAccount(user[BrowserOf[t]])) /\ user[BrowserOf[t]] # NoUser
        /\ UNCHANGED <<owner, lost, overlapped>>
    BY <1>5 DEF HandshakesAccount, redisVars
  <2> QED BY <1>1, <1>2, <2>1, SockLeaves, SockSignUp
<1>6. CASE Handshakes(t)
  <2>1. sock[t] = "closed" /\ cookie[BrowserOf[t]] \in Guests /\ lost' = lost
    BY <1>2, <1>6 DEF Handshakes
  <2>2. CASE /\ Takes(cookie[BrowserOf[t]]) /\ Connects(t, "opening", cookie[BrowserOf[t]])
             /\ Admitted(BrowserOf[t], cookie[BrowserOf[t]].nick)
    BY <1>4, <2>1, <2>2
  <2>3. CASE Connects(t, "read", cookie[BrowserOf[t]]) /\ UNCHANGED <<owner, named, overlapped>>
    <3>1. sock'[t] = "read"
      BY <1>0, <1>1, <2>3, SockFrame
    <3>2. ~ Seat(t)'
      BY <3>1 DEF Seat
    <3> QED BY <1>1, <1>3, <2>1, <2>3, <3>2, SockLeaves, SockSignUp
  <2> QED BY <1>6, <2>2, <2>3 DEF Handshakes
<1>7. CASE Accepts(t)
  <2>1. sock[t] = "read" /\ lost' = lost
    BY <1>7 DEF Accepts
  <2>2. CASE Confirms(as[t]) /\ Connects(t, "opening", as[t]) /\ Admitted(BrowserOf[t], as[t].nick)
    <3>1. CASE as[t] \in Guests
      BY <1>4, <2>1, <2>2, <3>1
    <3>2. CASE as[t] \notin Guests
      <4>1. owner' = owner /\ overlapped \subseteq overlapped'
        BY <2>2 DEF Confirms, Admitted
      <4> QED BY <1>1, <2>1, <2>2, <3>2, <4>1, SockLeaves, SockSignUp
    <3> QED BY <3>1, <3>2
  <2>3. CASE Connects(t, "closed", NoToken) /\ UNCHANGED <<owner, named, overlapped>>
    BY <1>1, <1>2, <2>1, <2>3, SockLeaves, SockSignUp
  <2> QED BY <1>7, <2>2, <2>3 DEF Accepts
<1>8. CASE Opens(t)
  <2>1. /\ sock[t] = "opening" /\ Connects(t, "open", as[t])
        /\ UNCHANGED <<owner, lost, overlapped>>
    BY <1>8 DEF Opens
  <2>2. as'[t] = as[t]
    BY <1>0, <1>1, <2>1, SockFrame
  <2>3. Seat(t)' => Seat(t)
    BY <2>1, <2>2 DEF Seat
  <2> QED BY <1>1, <1>3, <2>1, <2>3, SockLeaves, SockSignUp
<1>9. CASE Disconnects(t)
  <2>1. /\ Connects(t, "closed", NoToken) /\ UNCHANGED <<owner, overlapped>>
        /\ \A u \in Tabs \ {t} : u \in lost /\ sock[u] \in {"opening", "open"} => u \in lost'
    BY <1>9 DEF Disconnects
  <2> QED BY <1>1, <1>2, <2>1, SockLeaves, SockSignUp
<1>10. CASE Vanishes(t)
  <2>1. /\ Connects(t, "closed", NoToken) /\ UNCHANGED <<owner, overlapped>>
        /\ \A u \in Tabs \ {t} : u \in lost /\ sock[u] \in {"opening", "open"} => u \in lost'
    BY <1>10 DEF Vanishes, redisVars
  <2> QED BY <1>1, <1>2, <2>1, SockLeaves, SockSignUp
<1> QED BY <1>5, <1>6, <1>7, <1>8, <1>9, <1>10

\* Seats are their browsers' alone in every behaviour.
LEMMA SeatInvariant == GuestSpec => [](SeatInv /\ SignUpInv)
<1>1. GuestInit => SeatInv /\ SignUpInv
  <2> SUFFICES ASSUME GuestInit PROVE SeatInv /\ SignUpInv
    OBVIOUS
  <2>1. \A t \in Tabs : ~ Seat(t)
    BY DEF GuestInit, Seat
  <2> QED BY <2>1 DEF GuestInit, SeatInv, SignUpInv
<1>2. ASSUME GuestTypes, OpenIsReserved, IdsApart, SeatInv /\ SignUpInv, [GuestNext]_vars
      PROVE  (SeatInv /\ SignUpInv)'
  <2>0. GuestFacts /\ GuestTypeOK
    BY <1>2 DEF GuestFacts, GuestTypes
  <2>1. CASE UNCHANGED vars
    BY <1>2, <2>1, SeatFrame DEF vars, redisVars, pageVars, userVars, sockVars
  <2>2. ASSUME NEW m \in Nicks, MappingExpires(m) PROVE SeatInv' /\ SignUpInv'
    <3>1. /\ owner' = [owner EXCEPT ![m] = NoId]
          /\ UNCHANGED <<cookie, at, work, user, as, sock, lost, overlapped>>
      BY <2>2 DEF MappingExpires, pageVars, userVars, sockVars
    <3>2. ASSUME NEW t \in Tabs, Seat(t) PROVE owner'[as[t].nick] = owner[as[t].nick]
      <4>1. owner \in [Nicks -> 0 .. MaxIds \cup Nicks] /\ as[t].nick \in Nicks
        BY <2>0, <3>2, TokenFacts DEF GuestTypeOK, Seat
      <4>2. as[t].nick # m \/ as[t].id = m
        BY <2>2, <3>2 DEF MappingExpires, Seat
      <4>3. as[t].nick # m
        BY <3>2, <4>2 DEF Seat, Guests
      <4> QED BY <3>1, <4>1, <4>3
    <3> QED BY <1>2, <3>1, <3>2, SeatFrame
  <2>3. CASE GuestNext
    BY <2>0, <2>2, <2>3, SeatPages, SeatSocks DEF GuestNext
  <2> QED BY <1>2, <2>1, <2>3
<1> QED BY <1>1, <1>2, GuestTyping, OpensAreReserved, ApartInvariant, PTL DEF GuestSpec

\* However many browsers submit, revisit, connect, log out and expire, and in any
\* order: two guests share a nickname in the room only if they entered at the same
\* time or its reservation was cleaned up under an open socket.
THEOREM OneGuestPerNickname == GuestSpec => []OneGuestPerNick
<1>1. SeatInv => OneGuestPerNick
  BY DEF SeatInv, Seat, OneGuestPerNick
<1> QED BY <1>1, SeatInvariant, PTL
===============================================================================
