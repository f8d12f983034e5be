SPECIFICATION PatientSpec
CONSTANTS
  MaxInput = 4
  Capacity = 2
  Sinks = {"pipe"}
  Heirs = TRUE
INVARIANTS TypeOK InputOnTheWay EndMeansAll
PROPERTIES EndArrives PumpReturns
CHECK_DEADLOCK FALSE
