SPECIFICATION Spec
CONSTANTS
  Calls = {1}
  Hosts = {h1}
  NoHost = NoHost
  Kinds = {"pipes"}
  Exits <- OneExit
  MaxWrites <- FewWrites
  Concurrency = 0
  Radix = 10
  SequenceLimit = 10
  OneOwner = TRUE
  Interruptible = {}
  MaxLaunches = 2
  MaxCleans = 0
  Faults = FALSE
  Replies <- MCReplies
CHECK_DEADLOCK FALSE
INVARIANT RequestsAreLive
