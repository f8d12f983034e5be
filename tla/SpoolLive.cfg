SPECIFICATION FairSpec
CONSTANTS
  Calls = {1, 2}
  Hosts = {h1}
  NoHost = NoHost
  Kinds = {"terminal", "unreadable"}
  Exits <- OneExit
  MaxWrites <- FewWrites
  Concurrency = 0
  Radix = 10
  SequenceLimit = 10
  OneOwner = TRUE
  Interruptible = {}
  MaxLaunches = 1
  MaxCleans = 0
  Faults = FALSE
  Replies <- MCReplies
PROPERTIES CallsSettle OwnersLeave
CHECK_DEADLOCK FALSE
