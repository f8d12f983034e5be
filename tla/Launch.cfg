CONSTANTS
  p1 = p1
  p2 = p2
  h1 = h1
  Procs = {p1, p2}
  Homes = {h1}
  Conns = {c1}
  Setups <- MCSetups
  MaxLogin = 2
  MaxChunks = 2
  MaxWindow = 2
SPECIFICATION FairSpec
INVARIANTS TypeOK LoginSaved EofMeansAll WindowSettles
PROPERTY LaunchesEnd
CHECK_DEADLOCK FALSE
