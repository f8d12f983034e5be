SPECIFICATION Spec
CONSTANTS
  Calls = {1}
  Hosts = {h1, h2}
  NoHost = NoHost
  Kinds = {"terminal", "refused"}
  Exits <- OneExit
  MaxWrites <- OneWriter
  Concurrency = 0
  Radix = 10
  SequenceLimit = 10
  OneOwner = FALSE
  Interruptible = {}
  MaxLaunches = 2
  MaxCleans = 1
  Faults = TRUE
  Replies <- MCReplies
INVARIANTS AtMostOnce OutputInOrder AnswersAreReal
SYMMETRY AnyHost
CHECK_DEADLOCK FALSE
