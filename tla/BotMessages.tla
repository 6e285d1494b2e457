------------------------------ MODULE BotMessages ------------------------------
(***************************************************************************)
(* The automatic messages of the public room: a Celery beat tick loads the *)
(* bot cache into Redis when its flag is missing, picks a bot, selects a   *)
(* message that was not sent recently, marks it and broadcasts it.  Ticks  *)
(* run in several Celery processes with nothing between them but Redis     *)
(* commands; a process may die at any of them.  Each cached key runs out a *)
(* week after its own EXPIRE.  Someone is online and no tick is skipped at *)
(* random: such ticks end before they touch anything.                      *)
(***************************************************************************)
EXTENDS Naturals, FiniteSets

CONSTANTS Bots,       \* users that may be flagged is_bot
          Messages,   \* the ConversationFlow rows that are not promotional
          Topics,
          TopicOf,    \* the topic of each message
          Processes,  \* Celery processes
          NoBot, NoMessage,
          MaxChanges, \* bound on changes of is_bot
          MaxDeaths   \* bound on processes that die within a tick

ASSUME BotAssumption ==
  /\ TopicOf \in [Messages -> Topics]
  /\ NoBot \notin Bots
  /\ NoMessage \notin Messages
  /\ IsFiniteSet(Processes)
  /\ MaxChanges \in Nat
  /\ MaxDeaths \in Nat

VARIABLES
  isBot,     \* User.is_bot in the database
  flag,      \* BOT_MESSAGE_CACHE_LOADED
  userIds,   \* BOT_USER_IDS: whom a tick picks from
  names,     \* the fields of BOT_USERNAMES
  ids,       \* REDIS_BOT_USER_IDS_KEY: who counts as a bot when invited
  topicIds,  \* BOT_TOPIC_IDS
  texts,     \* the messages in the hashes of their topics
  due,       \* for a cached key with a timeout: the keys that run out by then, it
             \* included, for all have the same timeout; {} for a key without one
  sent,      \* BOT_MESSAGE_SENT: the messages marked as sent
  marks,     \* how often each was marked since its mark last ran out
  at,        \* the step each process has reached
  got,       \* the bots a load has read from the database
  bot,       \* the bot a tick has picked
  message,   \* the message it has selected
  loaded,    \* the bots of the load that set the flag, while it is set
  crossed,   \* did the latest loads overlap?
  worn,      \* has a cached key run out under the flag?  (both of loads apart)
  changes, deaths

botKeyVars == <<userIds, names, ids>>
topicKeyVars == <<topicIds, texts>>
cacheVars == <<flag, botKeyVars, topicKeyVars, due>>
tickVars == <<got, bot, message>>
countVars == <<changes, deaths>>
ghostVars == <<loaded, crossed, worn>>
vars == <<isBot, cacheVars, sent, marks, at, tickVars, ghostVars, countVars>>

Load == {"clear", "read", "register", "store ids", "store names", "time ids", "time names",
         "store topics", "store texts", "set flag"}
Tick == {"pick", "name", "select", "mark"}

\* The keys that expire; ids does not.
Keys == {"users", "names", "topics", "texts", "flag"}

BotTypeOK ==
  /\ isBot \subseteq Bots
  /\ flag \in BOOLEAN
  /\ userIds \subseteq Bots /\ names \subseteq Bots /\ ids \subseteq Bots
  /\ topicIds \subseteq Topics
  /\ texts \subseteq Messages
  /\ due \in [Keys -> SUBSET Keys]
  /\ sent \subseteq Messages
  /\ marks \in [Messages -> Nat]
  /\ at \in [Processes -> {"idle"} \cup Load \cup Tick]
  /\ got \in [Processes -> SUBSET Bots]
  /\ bot \in [Processes -> Bots \cup {NoBot}]
  /\ message \in [Processes -> Messages \cup {NoMessage}]
  /\ \A p \in Processes : at[p] = "mark" => message[p] # NoMessage
  /\ loaded \subseteq Bots
  /\ crossed \in BOOLEAN /\ worn \in BOOLEAN
  /\ changes \in Nat /\ deaths \in Nat

BotInit ==
  /\ isBot \in SUBSET Bots
  /\ flag = FALSE
  /\ userIds = {} /\ names = {} /\ ids = {} /\ topicIds = {} /\ texts = {}
  /\ due = [k \in Keys |-> {}]
  /\ sent = {}
  /\ marks = [m \in Messages |-> 0]
  /\ at = [p \in Processes |-> "idle"]
  /\ got = [p \in Processes |-> {}]
  /\ bot = [p \in Processes |-> NoBot]
  /\ message = [p \in Processes |-> NoMessage]
  /\ loaded = {} /\ crossed = FALSE /\ worn = FALSE
  /\ changes = 0 /\ deaths = 0
-------------------------------------------------------------------------------
Goes(p, step) == at' = [at EXCEPT ![p] = step]

\* A tick that ends, or dies, forgets what it had read.
Ends(p) ==
  /\ Goes(p, "idle")
  /\ got' = [got EXCEPT ![p] = {}]
  /\ bot' = [bot EXCEPT ![p] = NoBot]
  /\ message' = [message EXCEPT ![p] = NoMessage]

Loading(p) == at[p] \in Load
OthersLoad(p) == \E q \in Processes \ {p} : Loading(q)

\* _ensure_cache_is_loaded
Starts(p) ==
  /\ at[p] = "idle"
  /\ IF flag
     THEN Goes(p, "pick") /\ UNCHANGED crossed
     ELSE Goes(p, "clear") /\ crossed' = OthersLoad(p)
  /\ UNCHANGED <<isBot, cacheVars, sent, marks, tickVars, loaded, worn, countVars>>

\* EXPIRE, or SET with a timeout: k runs out after every key that has a timeout.
Times(k) ==
  due' = [j \in Keys |-> IF j = k THEN {i \in Keys : due[i] # {}} \cup {k} ELSE due[j] \ {k}]

\* DEL of the keys in gone, or their end.
Untimes(gone) == due' = [j \in Keys |-> IF j \in gone THEN {} ELSE due[j] \ gone]

(* BotCacheLoader.load                                                     *)

\* Mutant: REDIS_BOT_USER_IDS_KEY is not cleared.
ClearsSome(p) ==
  /\ at[p] = "clear" /\ Goes(p, "read")
  /\ userIds' = {} /\ names' = {} /\ Untimes({"users", "names"})
  /\ UNCHANGED <<isBot, flag, ids, topicKeyVars, sent, marks, tickVars, ghostVars, countVars>>

Clears(p) ==
  /\ at[p] = "clear" /\ Goes(p, "read")
  /\ userIds' = {} /\ names' = {} /\ ids' = {} /\ Untimes({"users", "names"})
  /\ UNCHANGED <<isBot, flag, topicKeyVars, sent, marks, tickVars, ghostVars, countVars>>

ReadsBots(p) ==
  /\ at[p] = "read" /\ Goes(p, "register")
  /\ got' = [got EXCEPT ![p] = isBot]
  /\ UNCHANGED <<isBot, cacheVars, sent, marks, bot, message, ghostVars, countVars>>

RegistersBots(p) ==
  /\ at[p] = "register" /\ Goes(p, "store ids")
  /\ ids' = ids \cup got[p]
  /\ UNCHANGED <<isBot, flag, userIds, names, topicKeyVars, due, sent, marks, tickVars,
                 ghostVars, countVars>>

StoresIds(p) ==
  /\ at[p] = "store ids" /\ Goes(p, "store names")
  /\ userIds' = userIds \cup got[p]
  /\ UNCHANGED <<isBot, flag, names, ids, topicKeyVars, due, sent, marks, tickVars, ghostVars,
                 countVars>>

StoresNames(p) ==
  /\ at[p] = "store names" /\ Goes(p, "time ids")
  /\ names' = names \cup got[p]
  /\ UNCHANGED <<isBot, flag, userIds, ids, topicKeyVars, due, sent, marks, tickVars, ghostVars,
                 countVars>>

\* EXPIRE of a key another load has deleted does nothing; nor does a load that read
\* no bots.
TimesKey(p, k, data) ==
  /\ IF got[p] # {} /\ data # {} THEN Times(k) ELSE UNCHANGED due
  /\ UNCHANGED <<isBot, flag, botKeyVars, topicKeyVars, sent, marks, tickVars, ghostVars,
                 countVars>>

TimesIds(p) == at[p] = "time ids" /\ Goes(p, "time names") /\ TimesKey(p, "users", userIds)
TimesNames(p) == at[p] = "time names" /\ Goes(p, "store topics") /\ TimesKey(p, "names", names)

StoresTopics(p) ==
  /\ at[p] = "store topics" /\ Goes(p, "store texts")
  /\ topicIds' = Topics
  /\ IF Topics # {} THEN Times("topics") ELSE UNCHANGED due
  /\ UNCHANGED <<isBot, flag, botKeyVars, texts, sent, marks, tickVars, ghostVars, countVars>>

StoresTexts(p) ==
  /\ at[p] = "store texts" /\ Goes(p, "set flag")
  /\ texts' = Messages
  /\ IF Messages # {} THEN Times("texts") ELSE UNCHANGED due
  /\ UNCHANGED <<isBot, flag, botKeyVars, topicIds, sent, marks, tickVars, ghostVars, countVars>>

\* Mutant: the flag is set without a timeout.
SetsFlagForever(p) ==
  /\ at[p] = "set flag" /\ Goes(p, "pick")
  /\ flag' = TRUE /\ Untimes({"flag"})
  /\ loaded' = (IF crossed THEN {} ELSE got[p]) /\ worn' = FALSE
  /\ got' = [got EXCEPT ![p] = {}]
  /\ UNCHANGED <<isBot, botKeyVars, topicKeyVars, sent, marks, bot, message, crossed, countVars>>

SetsFlag(p) ==
  /\ at[p] = "set flag" /\ Goes(p, "pick")
  /\ flag' = TRUE /\ Times("flag")
  /\ loaded' = (IF crossed THEN {} ELSE got[p]) /\ worn' = FALSE
  /\ got' = [got EXCEPT ![p] = {}]
  /\ UNCHANGED <<isBot, botKeyVars, topicKeyVars, sent, marks, bot, message, crossed, countVars>>

Loads(p) ==
  \/ Clears(p) \/ ReadsBots(p) \/ RegistersBots(p)
  \/ StoresIds(p) \/ StoresNames(p) \/ TimesIds(p) \/ TimesNames(p)
  \/ StoresTopics(p) \/ StoresTexts(p) \/ SetsFlag(p)

(* BotMessageService.get_message_to_send                                   *)

Picks(p) ==
  /\ at[p] = "pick"
  /\ \/ /\ userIds = {} /\ Ends(p)
     \/ /\ Goes(p, "name") /\ UNCHANGED <<got, message>>
        /\ \E b \in userIds : bot' = [bot EXCEPT ![p] = b]
  /\ UNCHANGED <<isBot, cacheVars, sent, marks, ghostVars, countVars>>

\* get_bot_username; from here on the bot is only part of the payload.
Names(p) ==
  /\ at[p] = "name"
  /\ IF bot[p] \in names
     THEN Goes(p, "select") /\ bot' = [bot EXCEPT ![p] = NoBot] /\ UNCHANGED <<got, message>>
     ELSE Ends(p)
  /\ UNCHANGED <<isBot, cacheVars, sent, marks, ghostVars, countVars>>

Cached(t) == {m \in texts : TopicOf[m] = t}

\* Mutant: message_was_sent is not asked.
SelectsAny(p) ==
  /\ at[p] = "select"
  /\ \/ /\ \E m \in texts : message' = [message EXCEPT ![p] = m]
        /\ Goes(p, "mark") /\ UNCHANGED <<got, bot>>
     \/ /\ texts = {}
        /\ Ends(p)
  /\ UNCHANGED <<isBot, cacheVars, sent, marks, ghostVars, countVars>>

\* Up to ten topics drawn at random: the draws may all be of topics that have
\* nothing left to send.
Selects(p) ==
  /\ at[p] = "select"
  /\ \/ /\ \E t \in topicIds : \E m \in Cached(t) \ sent :
             message' = [message EXCEPT ![p] = m]
        /\ Goes(p, "mark") /\ UNCHANGED <<got, bot>>
     \/ /\ topicIds = {} \/ \E t \in topicIds : Cached(t) \subseteq sent
        /\ Ends(p)
  /\ UNCHANGED <<isBot, cacheVars, sent, marks, ghostVars, countVars>>

\* mark_message_as_sent; the broadcast that follows keeps no state.
MarksAndSends(p) ==
  /\ at[p] = "mark"
  /\ sent' = sent \cup {message[p]}
  /\ marks' = [marks EXCEPT ![message[p]] = @ + 1]
  /\ Ends(p)
  /\ UNCHANGED <<isBot, cacheVars, ghostVars, countVars>>

Ticks(p) == Starts(p) \/ Loads(p) \/ Picks(p) \/ Names(p) \/ Selects(p) \/ MarksAndSends(p)

Dies(p) ==
  /\ at[p] # "idle"
  /\ deaths < MaxDeaths
  /\ deaths' = deaths + 1
  /\ Ends(p)
  /\ UNCHANGED <<isBot, cacheVars, sent, marks, ghostVars, changes>>
-------------------------------------------------------------------------------
(* Around the ticks.                                                       *)

BotChanges(b) ==
  /\ changes < MaxChanges
  /\ changes' = changes + 1
  /\ isBot' = IF b \in isBot THEN isBot \ {b} ELSE isBot \cup {b}
  /\ UNCHANGED <<cacheVars, sent, marks, at, tickVars, ghostVars, deaths>>

Unflagged == flag' = FALSE /\ loaded' = {} /\ worn' = FALSE

\* The operator deletes the flag to force a reload.
FlagDeleted ==
  /\ flag
  /\ Unflagged /\ Untimes({"flag"})
  /\ UNCHANGED <<isBot, botKeyVars, topicKeyVars, sent, marks, at, tickVars, crossed, countVars>>

\* The keys whose timeouts the load of p has set: none runs out before it is done.
Fresh(p) ==
  CASE at[p] = "time names" -> {"users"}
    [] at[p] = "store topics" -> {"users", "names"}
    [] at[p] = "store texts" -> {"users", "names", "topics"}
    [] at[p] = "set flag" -> {"users", "names", "topics", "texts"}
    [] OTHER -> {}

\* BOT_MESSAGE_CACHE_TTL, of the keys one by one, the one whose timeout was set
\* first before the others.  The hashes of the topics are a key each.
Expires(k) ==
  /\ due[k] = {k}
  /\ \A p \in Processes : k \notin Fresh(p)
  /\ userIds' = IF k = "users" THEN {} ELSE userIds
  /\ names' = IF k = "names" THEN {} ELSE names
  /\ topicIds' = IF k = "topics" THEN {} ELSE topicIds
  /\ IF k = "texts"
     THEN \E m \in texts : texts' = texts \ Cached(TopicOf[m])
     ELSE UNCHANGED texts
  /\ IF k = "texts" /\ texts' # {} THEN UNCHANGED due ELSE Untimes({k})
  /\ IF k = "flag" THEN Unflagged ELSE worn' = (flag /\ ~ crossed) /\ UNCHANGED <<flag, loaded>>
  /\ UNCHANGED <<isBot, ids, sent, marks, at, tickVars, crossed, countVars>>

CacheExpires == \E k \in Keys : Expires(k)

\* BOT_MESSAGE_SENT_TTL
MarkExpires(m) ==
  /\ m \in sent
  /\ sent' = sent \ {m}
  /\ marks' = [marks EXCEPT ![m] = 0]
  /\ UNCHANGED <<isBot, cacheVars, at, tickVars, ghostVars, countVars>>

BotNext ==
  \/ \E p \in Processes : Ticks(p) \/ Dies(p)
  \/ \E b \in Bots : BotChanges(b)
  \/ FlagDeleted
  \/ CacheExpires
  \/ \E m \in Messages : MarkExpires(m)

BotSpec == BotInit /\ [][BotNext]_vars

(* Fairness: beat ticks for ever and a process that lives ends its tick;   *)
(* Redis expires what has a timeout.                                       *)
FairBotSpec ==
  BotSpec /\ WF_vars(CacheExpires) /\ \A p \in Processes : WF_vars(Ticks(p))
-------------------------------------------------------------------------------
(* A message is not repeated while it is marked, but by processes that     *)
(* selected it before the first of them marked it: at most one each        *)
(* (message_was_sent, "to avoid repeating the same conversation message    *)
(* too often").                                                            *)
RepeatsBounded == \A m \in Messages : marks[m] <= Cardinality(Processes)

(* Unless loads overlapped, the flag means that ids holds the bots that    *)
(* load read and no other, and the two keys a tick picks from do too until *)
(* their week is over: who is no longer a bot stops being selected         *)
(* (_load_bot_users), whatever an earlier load that died, or an earlier    *)
(* week, left behind.  The keys get their timeouts before the flag does,   *)
(* so they may run out under it; the bots to pick from go before their     *)
(* names do.                                                               *)
LoadedIsCached ==
  flag /\ ~ crossed /\ (\A p \in Processes : ~ Loading(p)) =>
    /\ ids = loaded
    /\ \/ userIds = loaded /\ names = loaded
       \/ worn /\ userIds = {} /\ names \in {loaded, {}}

(* The room does not stay without bots while the database has some.        *)
BotsComeBack == isBot # {} ~> (userIds # {} \/ isBot = {})
===============================================================================
