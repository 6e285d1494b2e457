--------------------------- MODULE BotMessages_proofs ---------------------------
(***************************************************************************)
(* For any bots, messages and number of Celery processes: the state keeps  *)
(* its type, a message is repeated at most by processes that had already   *)
(* selected it, and a load that no other overlapped leaves the cache with  *)
(* what it read, of which the bots to pick from run out before their names. *)
(***************************************************************************)
EXTENDS BotMessages, FiniteSetTheorems, TLAPS

\* The processes about to mark m.
Marking(m) == {p \in Processes : at[p] = "mark" /\ message[p] = m}

\* An unmarked message has no marks, so whoever selects it finds room.
Room ==
  \A m \in Messages :
    /\ m \notin sent => marks[m] = 0
    /\ marks[m] + Cardinality(Marking(m)) <= Cardinality(Processes)

\* What the step a load has reached says of the three keys of the bots, and of the
\* timeouts it has set.
Written(p) ==
  /\ at[p] = "read" => ids = {}
  /\ at[p] = "register" => ids = {}
  /\ at[p] \in {"store ids", "store names", "time ids", "time names", "store topics",
                "store texts", "set flag"} => ids = got[p]
  /\ at[p] \in {"read", "register", "store ids"} => userIds = {}
  /\ at[p] \in {"store names", "time ids", "time names", "store topics", "store texts",
                "set flag"} => userIds = got[p]
  /\ at[p] \in {"read", "register", "store ids", "store names"} => names = {}
  /\ at[p] \in {"time ids", "time names", "store topics", "store texts", "set flag"} =>
       names = got[p]
  /\ at[p] \in {"read", "register", "store ids", "store names", "time ids"} =>
       due["users"] = {} /\ due["names"] = {}
  /\ at[p] = "time names" =>
       due["names"] = {} /\ (got[p] # {} => "users" \in due["users"])
  /\ at[p] \in {"store topics", "store texts", "set flag"} /\ got[p] # {} =>
       "users" \in due["names"]

\* The keys of the bots are as the load left them, the bots to pick from to run out
\* before their names; or they have begun to run out.
Kept ==
  /\ ids = loaded
  /\ \/ userIds = loaded /\ names = loaded /\ (loaded # {} => "users" \in due["names"])
     \/ worn /\ userIds = {} /\ names \in {loaded, {}}

\* Of loads that did not overlap there is one, without the flag, and it knows
\* what it has written; afterwards the cache is as it left it.
LoadsAlone ==
  ~ crossed =>
    /\ \A p, q \in Processes : Loading(p) /\ Loading(q) => p = q
    /\ \A p \in Processes : Loading(p) => ~ flag /\ Written(p)
    /\ flag => Kept
-------------------------------------------------------------------------------
\* The idle processes and the empty cache are well typed.
LEMMA BotTypesInit == BotInit => BotTypeOK
<1> SUFFICES ASSUME BotInit PROVE BotTypeOK
  OBVIOUS
<1>1. flag \in BOOLEAN /\ crossed \in BOOLEAN /\ worn \in BOOLEAN
  BY Zenon DEF BotInit
<1>2. /\ marks \in [Messages -> Nat]
      /\ at \in [Processes -> {"idle"} \cup Load \cup Tick]
      /\ got \in [Processes -> SUBSET Bots]
      /\ bot \in [Processes -> Bots \cup {NoBot}]
      /\ message \in [Processes -> Messages \cup {NoMessage}]
      /\ \A p \in Processes : at[p] = "mark" => message[p] # NoMessage
      /\ due \in [Keys -> SUBSET Keys]
  BY DEF BotInit
<1> QED BY <1>1, <1>2 DEF BotInit, BotTypeOK

\* Counters stay natural numbers.
LEMMA CountsUp == \A i \in Nat : i + 1 \in Nat
  OBVIOUS

\* One more mark.
LEMMA MarksUp ==
  \A S : \A f \in [S -> Nat] : \A m \in S : [f EXCEPT ![m] = @ + 1] \in [S -> Nat]
  OBVIOUS

\* What a process that ends leaves of its own variables.
EndsWell(p) ==
  /\ at' \in [Processes -> {"idle"} \cup Load \cup Tick]
  /\ got' \in [Processes -> SUBSET Bots]
  /\ bot' \in [Processes -> Bots \cup {NoBot}]
  /\ message' \in [Processes -> Messages \cup {NoMessage}]
  /\ \A q \in Processes : at'[q] = "mark" => message'[q] # NoMessage

\* A process that ends keeps the types of what it knows.
LEMMA EndsTyped ==
  ASSUME BotTypeOK, NEW p \in Processes, Ends(p)
  PROVE EndsWell(p)
BY DEF BotTypeOK, Ends, Goes, EndsWell, Load, Tick

\* Timeouts name keys.
LEMMA TimesTyped ==
  ASSUME due \in [Keys -> SUBSET Keys], NEW k \in Keys, Times(k)
  PROVE  due' \in [Keys -> SUBSET Keys]
BY DEF Times

\* A new timeout is the last: those of the other keys lose only its key.
LEMMA TimesApart ==
  ASSUME NEW k \in Keys, Times(k)
  PROVE  k \in due'[k] /\ \A j \in Keys \ {k} : due'[j] = due[j] \ {k}
BY DEF Times

\* So do what is left when some are gone.
LEMMA UntimesTyped ==
  ASSUME due \in [Keys -> SUBSET Keys], NEW gone, Untimes(gone)
  PROVE  due' \in [Keys -> SUBSET Keys]
BY DEF Untimes

\* Every step keeps the types.
LEMMA BotTypesStep == BotTypeOK /\ [BotNext]_vars => BotTypeOK'
<1> USE BotAssumption
    DEF BotAssumption, BotTypeOK, Load, Tick, cacheVars, botKeyVars, topicKeyVars, tickVars,
        ghostVars, countVars, Goes, Ends
<1> SUFFICES ASSUME BotTypeOK, [BotNext]_vars PROVE BotTypeOK'
  OBVIOUS
<1>1. ASSUME NEW p \in Processes, Starts(p) PROVE BotTypeOK'
  <2>1. OthersLoad(p) \in BOOLEAN
    BY Zenon DEF OthersLoad
  <2>2. crossed' \in BOOLEAN
    BY <1>1, <2>1, Zenon DEF Starts
  <2>3. at' \in [Processes -> {"idle"} \cup Load \cup Tick]
        /\ \A q \in Processes : at'[q] = "mark" => at[q] = "mark"
    BY <1>1 DEF Starts
  <2> QED BY <1>1, <2>2, <2>3 DEF Starts
<1>2. ASSUME NEW p \in Processes, Clears(p) PROVE BotTypeOK'
  BY <1>2, UntimesTyped DEF Clears
<1>3. ASSUME NEW p \in Processes, ReadsBots(p) PROVE BotTypeOK'
  BY <1>3 DEF ReadsBots
<1>4. ASSUME NEW p \in Processes, RegistersBots(p) PROVE BotTypeOK'
  BY <1>4 DEF RegistersBots
<1>5. ASSUME NEW p \in Processes, StoresIds(p) PROVE BotTypeOK'
  BY <1>5 DEF StoresIds
<1>6. ASSUME NEW p \in Processes, StoresNames(p) PROVE BotTypeOK'
  BY <1>6 DEF StoresNames
<1>20. ASSUME NEW p \in Processes, TimesIds(p) \/ TimesNames(p) PROVE BotTypeOK'
  <2>1. due' \in [Keys -> SUBSET Keys]
    BY <1>20, TimesTyped DEF TimesIds, TimesNames, TimesKey, Keys
  <2>2. /\ at' \in [Processes -> {"idle"} \cup Load \cup Tick]
        /\ \A q \in Processes : at'[q] = "mark" => at[q] = "mark"
    BY <1>20 DEF TimesIds, TimesNames
  <2> QED BY <1>20, <2>1, <2>2 DEF TimesIds, TimesNames, TimesKey
<1>7. ASSUME NEW p \in Processes, StoresTopics(p) PROVE BotTypeOK'
  <2>1. due' \in [Keys -> SUBSET Keys]
    BY <1>7, TimesTyped DEF StoresTopics, Keys
  <2> QED BY <1>7, <2>1 DEF StoresTopics
<1>8. ASSUME NEW p \in Processes, StoresTexts(p) PROVE BotTypeOK'
  <2>1. due' \in [Keys -> SUBSET Keys]
    BY <1>8, TimesTyped DEF StoresTexts, Keys
  <2> QED BY <1>8, <2>1 DEF StoresTexts
<1>9. ASSUME NEW p \in Processes, SetsFlag(p) PROVE BotTypeOK'
  <2>1. due' \in [Keys -> SUBSET Keys]
    BY <1>9, TimesTyped DEF SetsFlag, Keys
  <2>2. loaded' \subseteq Bots
    BY <1>9 DEF SetsFlag
  <2> QED BY <1>9, <2>1, <2>2 DEF SetsFlag
<1>10. ASSUME NEW p \in Processes, Picks(p) PROVE BotTypeOK'
  BY <1>10 DEF Picks
<1>11. ASSUME NEW p \in Processes, Names(p) PROVE BotTypeOK'
  BY <1>11 DEF Names
<1>12. ASSUME NEW p \in Processes, Selects(p) PROVE BotTypeOK'
  BY <1>12 DEF Selects, Cached
<1>13. ASSUME NEW p \in Processes, MarksAndSends(p) PROVE BotTypeOK'
  <2>1. message[p] \in Messages
    BY <1>13 DEF MarksAndSends
  <2>2. sent' \subseteq Messages /\ marks' \in [Messages -> Nat]
    <3>1. sent' = sent \cup {message[p]} /\ marks' = [marks EXCEPT ![message[p]] = @ + 1]
      BY <1>13 DEF MarksAndSends
    <3>2. sent \subseteq Messages /\ marks \in [Messages -> Nat]
      OBVIOUS
    <3>3. [marks EXCEPT ![message[p]] = @ + 1] \in [Messages -> Nat]
      BY <2>1, <3>2, MarksUp, Zenon
    <3> QED BY <2>1, <3>1, <3>2, <3>3, Zenon
  <2>3. UNCHANGED <<isBot, cacheVars, ghostVars, changes, deaths>>
    BY <1>13 DEF MarksAndSends
  <2>4. EndsWell(p)
    BY <1>13, EndsTyped DEF MarksAndSends
  <2> QED BY <2>2, <2>3, <2>4 DEF EndsWell
<1>14. ASSUME NEW p \in Processes, Dies(p) PROVE BotTypeOK'
  <2>1. EndsWell(p)
    BY <1>14, EndsTyped DEF Dies
  <2>2. deaths' \in Nat /\ UNCHANGED <<isBot, cacheVars, sent, marks, ghostVars, changes>>
    BY <1>14, CountsUp, Zenon DEF Dies
  <2> QED BY <2>1, <2>2 DEF EndsWell
<1>15. ASSUME NEW b \in Bots, BotChanges(b) PROVE BotTypeOK'
  <2>1. isBot' \subseteq Bots /\ changes' \in Nat
    <3>1. changes' \in Nat
      BY <1>15, CountsUp, Zenon DEF BotChanges
    <3>2. isBot' \subseteq Bots
      BY <1>15, Zenon DEF BotChanges
    <3> QED BY <3>1, <3>2
  <2>2. UNCHANGED <<cacheVars, sent, marks, at, tickVars, ghostVars, deaths>>
    BY <1>15 DEF BotChanges
  <2> QED BY <2>1, <2>2
<1>16. CASE FlagDeleted
  BY <1>16, UntimesTyped DEF FlagDeleted, Unflagged
<1>17. ASSUME NEW k \in Keys, Expires(k) PROVE BotTypeOK'
  <2>1. due' \in [Keys -> SUBSET Keys]
    BY <1>17, UntimesTyped DEF Expires
  <2>2. texts' \subseteq Messages
    BY <1>17 DEF Expires
  <2>3. flag' \in BOOLEAN /\ worn' \in BOOLEAN /\ loaded' \subseteq Bots
    <3>1. CASE k = "flag"
      BY <1>17, <3>1, Zenon DEF Expires, Unflagged
    <3>2. CASE k # "flag"
      BY <1>17, <3>2, Zenon DEF Expires
    <3> QED BY <3>1, <3>2
  <2>4. /\ userIds' \subseteq Bots /\ names' \subseteq Bots /\ topicIds' \subseteq Topics
        /\ UNCHANGED <<isBot, ids, sent, marks, at, tickVars, crossed, countVars>>
    BY <1>17 DEF Expires
  <2> QED BY <2>1, <2>2, <2>3, <2>4
<1>18. ASSUME NEW m \in Messages, MarkExpires(m) PROVE BotTypeOK'
  BY <1>18 DEF MarkExpires
<1>19. CASE UNCHANGED vars
  BY <1>19 DEF vars
<1> QED
  BY <1>1, <1>2, <1>3, <1>4, <1>5, <1>6, <1>7, <1>8, <1>9, <1>10, <1>11, <1>12, <1>13, <1>14,
     <1>15, <1>16, <1>17, <1>18, <1>19, <1>20
  DEF BotNext, Ticks, Loads, CacheExpires

(* BotTypeOK: a process that is about to mark a message has selected one.  *)
THEOREM BotTyping == BotSpec => []BotTypeOK
  BY BotTypesInit, BotTypesStep, PTL DEF BotSpec
-------------------------------------------------------------------------------
\* Before the first tick nothing is marked.
LEMMA RoomInit == BotInit => Room
<1> SUFFICES ASSUME BotInit, NEW m \in Messages
             PROVE marks[m] = 0 /\ marks[m] + Cardinality(Marking(m)) <= Cardinality(Processes)
  BY DEF Room
<1>1. Marking(m) = {} /\ marks[m] = 0
  BY DEF BotInit, Marking
<1>2. Cardinality(Marking(m)) = 0 /\ Cardinality(Processes) \in Nat
  BY <1>1, FS_EmptySet, FS_CardinalityType, BotAssumption DEF BotAssumption
<1> QED BY <1>1, <1>2

\* What one process selects, marks or forgets leaves room for the others.
LEMMA RoomStep == BotTypeOK /\ Room /\ [BotNext]_vars => Room'
<1> SUFFICES ASSUME BotTypeOK, Room, [BotNext]_vars, NEW m \in Messages
             PROVE /\ m \notin sent' => marks'[m] = 0
                   /\ marks'[m] + Cardinality(Marking(m)') <= Cardinality(Processes)
  BY DEF Room
<1>1. /\ IsFiniteSet(Marking(m)) /\ IsFiniteSet(Marking(m)')
      /\ Cardinality(Marking(m)) \in Nat /\ Cardinality(Marking(m)') \in Nat
      /\ Cardinality(Processes) \in Nat
      /\ Cardinality(Marking(m)') <= Cardinality(Processes)
  <2>1. IsFiniteSet(Processes) /\ Marking(m) \subseteq Processes /\ Marking(m)' \subseteq Processes
    BY BotAssumption DEF BotAssumption, Marking
  <2> QED BY <2>1, FS_Subset, FS_CardinalityType
<1>2. /\ marks[m] \in Nat
      /\ m \notin sent => marks[m] = 0
      /\ marks[m] + Cardinality(Marking(m)) <= Cardinality(Processes)
  BY DEF BotTypeOK, Room
<1>3. ASSUME Marking(m)' \subseteq Marking(m), UNCHANGED <<sent, marks>>
      PROVE /\ m \notin sent' => marks'[m] = 0
            /\ marks'[m] + Cardinality(Marking(m)') <= Cardinality(Processes)
  <2>1. Cardinality(Marking(m)') <= Cardinality(Marking(m))
    BY <1>1, <1>3, FS_Subset
  <2> QED BY <1>1, <1>2, <1>3, <2>1
<1> USE DEF Goes, Ends, Marking
<1>4. ASSUME NEW p \in Processes, Selects(p)
      PROVE /\ m \notin sent' => marks'[m] = 0
            /\ marks'[m] + Cardinality(Marking(m)') <= Cardinality(Processes)
  <2>1. UNCHANGED <<sent, marks>>
    BY <1>4 DEF Selects
  <2>2. CASE message'[p] = m /\ m \notin sent
    BY <1>1, <1>2, <2>1, <2>2
  <2>3. CASE ~ (message'[p] = m /\ m \notin sent)
    <3>1. at'[p] = "mark" => message'[p] \notin sent
      BY <1>4 DEF Selects, BotTypeOK
    <3>2. \A q \in Processes \ {p} : at'[q] = at[q] /\ message'[q] = message[q]
      BY <1>4 DEF Selects, BotTypeOK
    <3>3. CASE at'[p] = "mark" /\ message'[p] = m
      BY <2>3, <3>1, <3>3
    <3>4. CASE ~ (at'[p] = "mark" /\ message'[p] = m)
      <4>1. Marking(m)' \subseteq Marking(m)
        BY <3>2, <3>4
      <4> QED BY <1>3, <2>1, <4>1
    <3> QED BY <3>3, <3>4
  <2> QED BY <2>2, <2>3
<1>5. ASSUME NEW p \in Processes, MarksAndSends(p)
      PROVE /\ m \notin sent' => marks'[m] = 0
            /\ marks'[m] + Cardinality(Marking(m)') <= Cardinality(Processes)
  <2>1. CASE message[p] = m
    <3>1. p \in Marking(m) /\ Marking(m)' = Marking(m) \ {p}
      BY <1>5, <2>1 DEF MarksAndSends, BotTypeOK
    <3>2. Cardinality(Marking(m)') = Cardinality(Marking(m)) - 1
      BY <1>1, <3>1, FS_RemoveElement
    <3>3. marks'[m] = marks[m] + 1 /\ m \in sent'
      BY <1>5, <2>1 DEF MarksAndSends, BotTypeOK
    <3> QED BY <1>1, <1>2, <3>2, <3>3
  <2>2. CASE message[p] # m
    <3>1. marks'[m] = marks[m] /\ sent \subseteq sent' /\ (m \in sent' => m \in sent)
      BY <1>5, <2>2 DEF MarksAndSends, BotTypeOK
    <3>2. Marking(m)' = Marking(m)
      BY <1>5, <2>2 DEF MarksAndSends, BotTypeOK
    <3> QED BY <1>1, <1>2, <3>1, <3>2
  <2> QED BY <2>1, <2>2
<1>6. ASSUME NEW n \in Messages, MarkExpires(n)
      PROVE /\ m \notin sent' => marks'[m] = 0
            /\ marks'[m] + Cardinality(Marking(m)') <= Cardinality(Processes)
  <2>1. Marking(m)' = Marking(m)
    BY <1>6 DEF MarkExpires, tickVars
  <2>2. /\ marks'[m] = IF m = n THEN 0 ELSE marks[m]
        /\ sent' = sent \ {n}
    BY <1>6 DEF MarkExpires, BotTypeOK
  <2> QED BY <1>1, <1>2, <2>1, <2>2
<1>7. \/ Marking(m)' \subseteq Marking(m) /\ UNCHANGED <<sent, marks>>
      \/ \E p \in Processes : Selects(p) \/ MarksAndSends(p)
      \/ \E n \in Messages : MarkExpires(n)
  <2> USE DEF BotTypeOK, tickVars
  <2>1. ASSUME NEW p \in Processes, Starts(p) \/ Picks(p) \/ Names(p) \/ Dies(p)
        PROVE Marking(m)' \subseteq Marking(m) /\ UNCHANGED <<sent, marks>>
    BY <2>1 DEF Starts, Picks, Names, Dies
  <2>2. ASSUME NEW p \in Processes, Loads(p)
        PROVE Marking(m)' \subseteq Marking(m) /\ UNCHANGED <<sent, marks>>
    BY <2>2 DEF Loads, Clears, ReadsBots, RegistersBots, StoresIds, StoresNames, TimesIds,
                TimesNames, TimesKey, StoresTopics, StoresTexts, SetsFlag
  <2>3. CASE (\E b \in Bots : BotChanges(b)) \/ FlagDeleted \/ CacheExpires \/ UNCHANGED vars
    BY <2>3 DEF BotChanges, FlagDeleted, CacheExpires, Expires, vars
  <2> QED BY <2>1, <2>2, <2>3 DEF BotNext, Ticks
<1> QED BY <1>3, <1>4, <1>5, <1>6, <1>7

(* RepeatsBounded: with any number of Celery processes a message is sent   *)
(* at most once by each while its mark lasts.                              *)
THEOREM RepeatsAreFew == BotSpec => []RepeatsBounded
<1>1. BotInit => BotTypeOK /\ Room
  BY BotTypesInit, RoomInit
<1>2. BotTypeOK /\ Room /\ [BotNext]_vars => (BotTypeOK /\ Room)'
  BY BotTypesStep, RoomStep
<1>3. BotTypeOK /\ Room => RepeatsBounded
  <2> SUFFICES ASSUME BotTypeOK, Room, NEW m \in Messages
               PROVE marks[m] <= Cardinality(Processes)
    BY DEF RepeatsBounded
  <2>1. IsFiniteSet(Processes) /\ Marking(m) \subseteq Processes
    BY BotAssumption DEF BotAssumption, Marking
  <2>2. Cardinality(Marking(m)) \in Nat /\ Cardinality(Processes) \in Nat
    BY <2>1, FS_Subset, FS_CardinalityType
  <2> QED BY <2>2 DEF BotTypeOK, Room
<1> QED
  BY <1>1, <1>2, <1>3, PTL DEF BotSpec
-------------------------------------------------------------------------------
\* Nothing is lost when no load moves and the keys of the bots stay as they are.
LEMMA AloneKeeps ==
  ASSUME LoadsAlone, UNCHANGED <<flag, userIds, names, ids, due, loaded, crossed, worn>>,
         \A p \in Processes : Loading(p)' => Loading(p) /\ at'[p] = at[p] /\ got'[p] = got[p]
  PROVE  LoadsAlone'
<1>1. Kept => Kept'
  BY DEF Kept
<1>2. ASSUME NEW p \in Processes, Loading(p)', Written(p) PROVE Written(p)'
  <2>1. at'[p] = at[p] /\ got'[p] = got[p] /\ UNCHANGED <<userIds, names, ids, due>>
    BY <1>2
  <2> QED BY <1>2, <2>1 DEF Written
<1>3. (flag' <=> flag) /\ (crossed' <=> crossed)
  OBVIOUS
<1>4. SUFFICES ASSUME ~ crossed
               PROVE  /\ \A p, q \in Processes : Loading(p)' /\ Loading(q)' => p = q
                      /\ \A p \in Processes : Loading(p)' => ~ flag' /\ Written(p)'
                      /\ flag' => Kept'
  BY <1>3, Zenon DEF LoadsAlone
<1>5. /\ \A p, q \in Processes : Loading(p) /\ Loading(q) => p = q
      /\ \A p \in Processes : Loading(p) => ~ flag /\ Written(p)
      /\ flag => Kept
  BY <1>4, Zenon DEF LoadsAlone
<1>6. \A p \in Processes : Loading(p)' => Loading(p)
  OBVIOUS
<1> QED BY <1>1, <1>2, <1>3, <1>5, <1>6, Zenon

\* A new load is alone, or says that it is not.
LEMMA AloneStarts ==
  ASSUME BotTypeOK, LoadsAlone, NEW p \in Processes, Starts(p)
  PROVE LoadsAlone'
<1> USE DEF BotTypeOK, Goes, cacheVars, botKeyVars, topicKeyVars, tickVars, Load, Tick
<1>1. CASE flag
  <2>1. /\ \A q \in Processes : Loading(q)' => Loading(q) /\ at'[q] = at[q]
        /\ UNCHANGED <<flag, userIds, names, ids, due, got, loaded, crossed, worn>>
    BY <1>1 DEF Starts, Loading
  <2> QED BY <2>1, AloneKeeps
<1>2. CASE ~ flag
  <2>1. crossed' <=> OthersLoad(p)
    BY <1>2, Zenon DEF Starts
  <2>2. UNCHANGED <<cacheVars, got, loaded>> /\ at' = [at EXCEPT ![p] = "clear"]
    BY <1>2 DEF Starts
  <2>3. CASE crossed'
    BY <2>3 DEF LoadsAlone
  <2>4. CASE ~ crossed'
    <3>1. \A q \in Processes \ {p} : at[q] \notin Load
      BY <2>1, <2>4 DEF OthersLoad, Loading
    <3>2. \A q \in Processes : Loading(q)' <=> q = p
      BY <2>2, <3>1 DEF Loading
    <3>3. Written(p)'
      BY <2>2 DEF Written
    <3>4. ~ flag'
      BY <1>2, <2>2
    <3> QED BY <3>2, <3>3, <3>4, Zenon DEF LoadsAlone
  <2> QED BY <2>3, <2>4
<1> QED BY <1>1, <1>2

\* The steps of a load that is alone write what its place says.
LEMMA AloneLoads ==
  ASSUME BotTypeOK, LoadsAlone, NEW p \in Processes, Loads(p)
  PROVE LoadsAlone'
<1> USE DEF cacheVars, botKeyVars, topicKeyVars, tickVars, ghostVars, Goes
<1>1. /\ crossed' = crossed /\ Loading(p)
      /\ \A q \in Processes \ {p} : at'[q] = at[q]
  BY DEF Loads, Clears, ReadsBots, RegistersBots, StoresIds, StoresNames, TimesIds, TimesNames,
         TimesKey, StoresTopics, StoresTexts, SetsFlag, BotTypeOK, Loading, Load
<1>2. CASE crossed
  BY <1>1, <1>2 DEF LoadsAlone
<1>3. CASE ~ crossed
  <2>1. \A q \in Processes \ {p} : ~ Loading(q)
    BY <1>1, <1>3, Zenon DEF LoadsAlone
  <2>2. ~ flag /\ Written(p)
    BY <1>1, <1>3, Zenon DEF LoadsAlone
  <2>3. \A q \in Processes : Loading(q)' => q = p
    BY <1>1, <2>1 DEF Loading
  <2>4. ASSUME ~ flag', Written(p)' PROVE LoadsAlone'
    BY <2>3, <2>4, Zenon DEF LoadsAlone
  <2> USE DEF BotTypeOK
  <2>5. CASE Clears(p)
    <3>1. ~ flag' /\ Written(p)'
      BY <2>2, <2>5 DEF Clears, Written, Untimes, Keys
    <3> QED BY <2>4, <3>1
  <2>6. CASE ReadsBots(p)
    <3>1. ~ flag' /\ Written(p)'
      BY <2>2, <2>6 DEF ReadsBots, Written
    <3> QED BY <2>4, <3>1
  <2>7. CASE RegistersBots(p)
    <3>1. ~ flag' /\ Written(p)'
      BY <2>2, <2>7 DEF RegistersBots, Written
    <3> QED BY <2>4, <3>1
  <2>8. CASE StoresIds(p)
    <3>1. ~ flag' /\ Written(p)'
      BY <2>2, <2>8 DEF StoresIds, Written
    <3> QED BY <2>4, <3>1
  <2>9. CASE StoresNames(p)
    <3>1. ~ flag' /\ Written(p)'
      BY <2>2, <2>9 DEF StoresNames, Written
    <3> QED BY <2>4, <3>1
  <2>10. CASE TimesIds(p)
    <3>1. /\ at'[p] = "time names" /\ UNCHANGED <<flag, userIds, names, ids, got>>
          /\ IF got[p] # {} /\ userIds # {} THEN Times("users") ELSE UNCHANGED due
      BY <2>10 DEF TimesIds, TimesKey
    <3>2. /\ ids = got[p] /\ userIds = got[p] /\ names = got[p]
          /\ due["users"] = {} /\ due["names"] = {}
      BY <2>2, <2>10 DEF TimesIds, Written
    <3>3. due'["names"] = {} /\ (got[p] # {} => "users" \in due'["users"])
      <4>1. CASE got[p] = {}
        BY <3>1, <3>2, <4>1
      <4>2. CASE got[p] # {}
        <5>1. Times("users")
          BY <3>1, <3>2, <4>2
        <5>2. "users" \in due'["users"] /\ due'["names"] = due["names"] \ {"users"}
          BY <5>1, TimesApart DEF Keys
        <5> QED BY <3>2, <5>2
      <4> QED BY <4>1, <4>2
    <3>4. Written(p)'
      BY <3>1, <3>2, <3>3 DEF Written
    <3> QED BY <2>2, <2>4, <3>1, <3>4
  <2>11. CASE TimesNames(p)
    <3>1. /\ at'[p] = "store topics" /\ UNCHANGED <<flag, userIds, names, ids, got>>
          /\ IF got[p] # {} /\ names # {} THEN Times("names") ELSE UNCHANGED due
      BY <2>11 DEF TimesNames, TimesKey
    <3>2. /\ ids = got[p] /\ userIds = got[p] /\ names = got[p]
          /\ got[p] # {} => "users" \in due["users"]
      BY <2>2, <2>11 DEF TimesNames, Written
    <3>3. got[p] # {} => "users" \in due'["names"]
      BY <3>1, <3>2 DEF Times, Keys
    <3>4. Written(p)'
      BY <3>1, <3>2, <3>3 DEF Written
    <3> QED BY <2>2, <2>4, <3>1, <3>4
  <2>12. CASE StoresTopics(p) \/ StoresTexts(p)
    <3>1. /\ at[p] \in {"store topics", "store texts"} /\ at'[p] \in {"store texts", "set flag"}
          /\ UNCHANGED <<flag, userIds, names, ids, got>>
          /\ UNCHANGED due \/ Times("topics") \/ Times("texts")
      BY <2>12 DEF StoresTopics, StoresTexts
    <3>2. got[p] # {} => "users" \in due["names"]
      BY <2>2, <3>1 DEF Written
    <3>4. "users" \in due["names"] => "users" \in due'["names"]
      <4>1. CASE UNCHANGED due
        BY <4>1
      <4>2. ASSUME NEW k \in {"topics", "texts"}, Times(k)
            PROVE due'["names"] = due["names"] \ {k}
        BY <4>2, TimesApart DEF Keys
      <4> QED BY <3>1, <4>1, <4>2
    <3>3. Written(p)'
      BY <2>2, <3>1, <3>2, <3>4 DEF Written
    <3> QED BY <2>2, <2>4, <3>1, <3>3
  <2>13. CASE SetsFlag(p)
    <3>1. /\ at[p] = "set flag" /\ at'[p] = "pick" /\ loaded' = got[p]
          /\ UNCHANGED <<userIds, names, ids>> /\ Times("flag")
      BY <1>3, <2>13 DEF SetsFlag
    <3>2. \A q \in Processes : ~ Loading(q)'
      BY <2>3, <3>1 DEF Loading, Load
    <3>3. Kept'
      BY <2>2, <3>1 DEF Kept, Written, Times, Keys
    <3> QED BY <3>2, <3>3, Zenon DEF LoadsAlone
  <2> QED
    BY <2>5, <2>6, <2>7, <2>8, <2>9, <2>10, <2>11, <2>12, <2>13 DEF Loads
<1> QED BY <1>2, <1>3

\* No key of the bots runs out under a load that is alone; under the flag the bots
\* to pick from run out first.
LEMMA AloneExpires ==
  ASSUME BotTypeOK, LoadsAlone, CacheExpires
  PROVE LoadsAlone'
<1>1. PICK k \in Keys : Expires(k)
  BY DEF CacheExpires
<1>2. /\ UNCHANGED <<ids, at, got, crossed>>
      /\ k # "users" => userIds' = userIds
      /\ k # "names" => names' = names
      /\ k = "users" => userIds' = {}
      /\ k = "names" => names' = {}
  BY <1>1 DEF Expires, tickVars
<1>3. /\ due[k] = {k} /\ \A p \in Processes : k \notin Fresh(p)
      /\ UNCHANGED due \/ Untimes({k})
  BY <1>1 DEF Expires
<1>4. \A j \in Keys : due'[j] \subseteq due[j] /\ (j # k => due[j] \ {k} \subseteq due'[j])
  BY <1>3 DEF Untimes, BotTypeOK
<1>5. CASE crossed
  BY <1>2, <1>5 DEF LoadsAlone
<1>6. CASE ~ crossed
  <2>1. \A p \in Processes : Loading(p)' <=> Loading(p)
    BY <1>2 DEF Loading
  <2>2. flag' => flag
    <3>1. CASE k = "flag"
      BY <1>1, <3>1, Zenon DEF Expires, Unflagged
    <3>2. CASE k # "flag"
      BY <1>1, <3>2, Zenon DEF Expires
    <3> QED BY <3>1, <3>2
  <2>3. ASSUME NEW p \in Processes, Loading(p) PROVE ~ flag' /\ Written(p)'
    <3>1. ~ flag /\ Written(p)
      BY <1>6, <2>3, Zenon DEF LoadsAlone
    <3>2. CASE k \in {"users", "names"}
      <4>1. at[p] = "clear"
        BY <1>3, <2>3, <3>1, <3>2 DEF Written, Fresh, Loading, Load
      <4> QED BY <1>2, <2>2, <3>1, <4>1 DEF Written
    <3>3. CASE k \notin {"users", "names"}
      <4>1. userIds' = userIds /\ names' = names
        BY <1>2, <3>3
      <4>2. /\ \A j \in {"users", "names"} : due[j] = {} => due'[j] = {}
            /\ \A j \in {"users", "names"} : "users" \in due[j] => "users" \in due'[j]
        BY <1>4, <3>3 DEF Keys
      <4> QED BY <1>2, <2>2, <3>1, <4>1, <4>2 DEF Written
    <3> QED BY <3>2, <3>3
  <2>4. ASSUME flag' PROVE Kept'
    <3>1. flag /\ Kept
      BY <1>6, <2>2, <2>4, Zenon DEF LoadsAlone
    <3>2. k # "flag"
      BY <1>1, <2>4, Zenon DEF Expires, Unflagged
    <3>3. loaded' = loaded /\ worn'
      BY <1>1, <1>6, <3>1, <3>2, Zenon DEF Expires
    <3>4. CASE userIds = loaded /\ names = loaded /\ (loaded # {} => "users" \in due["names"])
      <4>1. CASE k = "users"
        BY <1>2, <3>1, <3>3, <3>4, <4>1 DEF Kept
      <4>2. CASE k = "names"
        <5>1. loaded = {}
          BY <1>3, <3>4, <4>2
        <5> QED BY <1>2, <3>1, <3>3, <3>4, <4>2, <5>1 DEF Kept
      <4>3. CASE k \notin {"users", "names"}
        <5>1. loaded # {} => "users" \in due'["names"]
          BY <1>4, <3>4, <4>3 DEF Keys
        <5> QED BY <1>2, <3>1, <3>3, <3>4, <4>3, <5>1 DEF Kept
      <4> QED BY <4>1, <4>2, <4>3
    <3>5. CASE userIds = {} /\ names \in {loaded, {}}
      BY <1>2, <3>1, <3>3, <3>5 DEF Kept
    <3> QED BY <3>1, <3>4, <3>5 DEF Kept
  <2>5. \A p, q \in Processes : Loading(p) /\ Loading(q) => p = q
    BY <1>6, Zenon DEF LoadsAlone
  <2> QED BY <2>1, <2>3, <2>4, <2>5, Zenon DEF LoadsAlone
<1> QED BY <1>5, <1>6

\* A tick, a death and the world around leave a lonely load alone.
LEMMA AloneStep == BotTypeOK /\ LoadsAlone /\ [BotNext]_vars => LoadsAlone'
<1> SUFFICES ASSUME BotTypeOK, LoadsAlone, [BotNext]_vars PROVE LoadsAlone'
  OBVIOUS
<1>1. ASSUME NEW p \in Processes, Starts(p) PROVE LoadsAlone'
  BY <1>1, AloneStarts
<1>2. ASSUME NEW p \in Processes, Loads(p) PROVE LoadsAlone'
  BY <1>2, AloneLoads
<1> USE DEF BotTypeOK, Goes, Ends, cacheVars, botKeyVars, topicKeyVars, tickVars, ghostVars,
            Load, Tick
<1>3. ASSUME NEW p \in Processes, Picks(p) \/ Names(p) \/ Selects(p) \/ MarksAndSends(p) \/ Dies(p)
      PROVE LoadsAlone'
  <2>1. UNCHANGED <<cacheVars, ghostVars>>
    BY <1>3 DEF Picks, Names, Selects, MarksAndSends, Dies
  <2>2. /\ at'[p] \notin Load
        /\ \A q \in Processes \ {p} : at'[q] = at[q] /\ got'[q] = got[q]
    BY <1>3 DEF Picks, Names, Selects, MarksAndSends, Dies
  <2>3. \A q \in Processes : Loading(q)' => Loading(q) /\ at'[q] = at[q] /\ got'[q] = got[q]
    BY <2>2 DEF Loading
  <2> QED BY <2>1, <2>3, AloneKeeps
<1>4. CASE (\E b \in Bots : BotChanges(b)) \/ (\E m \in Messages : MarkExpires(m)) \/ UNCHANGED vars
  <2>1. UNCHANGED <<cacheVars, at, got, ghostVars>>
    BY <1>4 DEF BotChanges, MarkExpires, vars
  <2> QED BY <2>1, AloneKeeps DEF Loading
<1>5. CASE FlagDeleted
  <2>1. flag /\ ~ flag' /\ UNCHANGED <<at, crossed>>
    BY <1>5, Zenon DEF FlagDeleted, Unflagged
  <2>2. CASE crossed
    BY <2>1, <2>2 DEF LoadsAlone
  <2>3. CASE ~ crossed
    <3>1. \A q \in Processes : ~ Loading(q)
      BY <2>1, <2>3, Zenon DEF LoadsAlone
    <3>2. \A q \in Processes : ~ Loading(q)'
      BY <2>1, <3>1 DEF Loading
    <3> QED BY <2>1, <3>2, Zenon DEF LoadsAlone
  <2> QED BY <2>2, <2>3
<1>6. CASE CacheExpires
  BY <1>6, AloneExpires
<1> QED
  BY <1>1, <1>2, <1>3, <1>4, <1>5, <1>6 DEF BotNext, Ticks

(* LoadedIsCached: a load that no other overlapped leaves its bots and no  *)
(* other in the three keys, whatever an earlier one left there; the bots   *)
(* to pick from and their names stay until their week is over, the bots no *)
(* longer than the names.                                                  *)
THEOREM LoadIsExact == BotSpec => []LoadedIsCached
<1>1. BotInit => BotTypeOK /\ LoadsAlone
  <2> SUFFICES ASSUME BotInit PROVE LoadsAlone
    BY BotTypesInit
  <2> QED BY DEF BotInit, LoadsAlone, Loading, Load
<1>2. BotTypeOK /\ LoadsAlone /\ [BotNext]_vars => (BotTypeOK /\ LoadsAlone)'
  BY BotTypesStep, AloneStep
<1>3. LoadsAlone => LoadedIsCached
  BY DEF LoadsAlone, LoadedIsCached, Kept
<1> QED
  BY <1>1, <1>2, <1>3, PTL DEF BotSpec
===============================================================================
