SPECIFICATION FairSpec
CONSTANTS
  Procs = {p1, p2, p3}
  NoProc = NoProc
  Commands = {"run", "build", "clean", "clean --all"}
INVARIANTS TypeOK OneVmWhenCalm KeptWhileLive OwnerReachable LaunchesSucceed
PROPERTIES CommandsSettle
CHECK_DEADLOCK FALSE
