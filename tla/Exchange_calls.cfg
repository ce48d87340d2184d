\* Two requests on one connection, over one channel that answers (COMMAND),
\* one never resolved (CONFIG) and one never subscribed to (DEBUG).
SPECIFICATION FairSpec
CONSTANTS
  COMMAND = COMMAND
  CONFIG = CONFIG
  DEBUG = DEBUG
  start = start
  selfTest = selfTest
  none = none
  Channels = {COMMAND, CONFIG, DEBUG}
  Command = COMMAND
  Subscribed = {COMMAND, CONFIG}
  Resolved = {COMMAND, DEBUG}
  Heard = {COMMAND}
  CommandIds = {start, selfTest}
  SlowCommands = {selfTest}
  NoId = none
  WriteAttempts = 2
  ReplyTimeout = 1
  SlowReplyTimeout = 2
  MaxRequests = 2
  MaxQueued = 2
INVARIANTS
  TypeOK
  WaitingRegistered
  FreshReply
  SameQuestion
PROPERTIES
  KnownDropIsNotWaitedOut
  CallsEnd
  KeepsPromise
CHECK_DEADLOCK FALSE
