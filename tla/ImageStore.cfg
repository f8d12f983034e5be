SPECIFICATION LibrarySpec
CONSTANTS
  Builders = {b1, b2}
  Plain = {b2}
  Fresh = {}
  NewVersion = {}
  Booters = {o1}
  Cleaners = {o1}
  NoProc = NoProc
  Keep = 2
  MaxFaults = 1
  Situations <- MCSituations
  b1 = b1
  b2 = b2
  o1 = o1
  r1 = r1
  r2 = r2
  r3 = r3
  Provisioners = {r1, r2, r3}
  Pin <- MCPin
  Number <- MCNumber
  ScriptCount = 1
INVARIANTS LibraryTypeOK ImagesComplete BasesHeld CacheHonest NothingLeftBehind ReadyUntilNewer
CHECK_DEADLOCK FALSE
