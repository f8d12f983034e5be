CONSTANTS
  Newline = "newline"
  Unit = "unit"
  Unattached = Unattached
  MaxRequest = 20
  Buffer = 20
  Requests <- MCRequests
  Ttys <- MCTtys
SPECIFICATION Spec
INVARIANT RunsWhatWasAsked
CHECK_DEADLOCK FALSE
