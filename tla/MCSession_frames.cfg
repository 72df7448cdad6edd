CONSTANTS
  Procs = {p1, p2, p3}
  Conns = {c1, c2}
  Null = Null
SPECIFICATION FairSpec
INVARIANTS NeverLost NoSecondServer ServerOwned
PROPERTIES ServerReleased RestartPossible
CHECK_DEADLOCK FALSE
