SPECIFICATION Spec
CONSTANTS
  Home <- MCHome
  Cwd <- MCCwd
  ConfigDir <- MCConfigDir
  Links <- MCLinks
  Spelling <- MCSpelling
  SourceOrder <- MCSourceOrder
  MemoryUnit <- MCMemoryUnit
  MemoryLimit = 256
  GuestOverhead = 2
  Hash <- MCHash
  WalkLimit = 2
  Procs = {"t1", "t2"}
  Schedules <- MCSchedules
  AddArgs <- MCAddArgs
  SharedTables <- MCSharedTables
  LocalTables <- MCLocalTables
  UserTables <- MCUserTables
  Hosts <- MCHosts
  Removable <- MCRemovable
  MaxEdits = 1
  MaxFaults = 1
INVARIANTS TypeOK NamesAreDistinct RecordedWhereAsked KeychainKept
PROPERTIES AddsOnlyAMount DriftHonest HealthyStarts InstallConverges
CHECK_DEADLOCK FALSE
