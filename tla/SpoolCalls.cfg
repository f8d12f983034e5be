SPECIFICATION Spec
CONSTANTS
  Calls = {1, 2}
  Hosts = {h1}
  NoHost = NoHost
  Kinds = {"pipes", "refused"}
  Exits <- OneExit
  MaxWrites <- BothStreams
  Concurrency = 0
  Radix = 10
  SequenceLimit = 10
  OneOwner = TRUE
  Interruptible = {2}
  MaxLaunches = 1
  MaxCleans = 0
  Faults = FALSE
  Replies <- MCReplies
INVARIANTS TypeOK OutputComplete WithinLimit
PROPERTIES NoChunkAfterStatus ImplementsHostCall
CHECK_DEADLOCK FALSE
