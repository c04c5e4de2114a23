SPECIFICATION MicroturnSpec
CONSTANTS
  Null = Null
  S = S
  T = T
  march = march
  pass = pass
  k1 = k1
  k2 = k2
  v = v
  w = w
  Seats <- MCSeats
  Actions <- MCActions
  Passes <- MCPasses
  Keys <- MCKeys
  Values <- MCValues
  Ranges <- MCRanges
  MaxTurns = 2
INVARIANTS
  MicroturnTypeOK
  StackIsOfTheOpenTurn
  BarredActionsStayAway
  RecoveriesAreBounded
  PassesOweNothing
PROPERTIES
  MovesAreAsDecided
  DeadEndsAreRecovered
SYMMETRY MCSymmetry
CHECK_DEADLOCK FALSE
