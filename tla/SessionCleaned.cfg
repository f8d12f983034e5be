SPECIFICATION Spec
CONSTANTS
  Procs = {p1, p2, p3}
  NoProc = NoProc
  Commands = {"run", "clean --all"}
INVARIANT OneVmUnlessHasty
CHECK_DEADLOCK FALSE
