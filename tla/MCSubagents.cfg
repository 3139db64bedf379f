SPECIFICATION FairSpec
CONSTANTS
  Main = Main
  User = User
  None = None
  Children = {c1, c2}
  c1 = c1
  c2 = c2
  MaxCalls = 3
  MaxRunning = 2
  MaxMoves = 2
CHECK_DEADLOCK FALSE
INVARIANTS NoWaitCycle JoinIsFresh EndsInHand
PROPERTIES JoinsEnd EndsAreTold
