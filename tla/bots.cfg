SPECIFICATION FairBotSpec
CONSTANTS
  b1 = b1
  b2 = b2
  m1 = m1
  t1 = t1
  t2 = t2
  p1 = p1
  p2 = p2
  Bots <- MCBots
  Messages <- MCMessages
  Topics <- MCTopics
  TopicOf <- MCTopicOf
  Processes <- MCProcesses
  NoBot = NoBot
  NoMessage = NoMessage
  MaxChanges = 1
  MaxDeaths = 1
INVARIANTS
  RepeatsBounded
  LoadedIsCached
PROPERTY BotsComeBack
