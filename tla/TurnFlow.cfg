SPECIFICATION TurnFlowSpec
CONSTANTS
  Null = Null
  A = A
  B = B
  C = C
  x = x
  y = y
  z = z
  c1 = c1
  c2 = c2
  c3 = c3
  b = b
  Seats <- MCSeats
  Labels <- MCLabels
  Cards <- MCCards
  Coups <- MCCoups
  Decks <- MCDecks
  OrderOf <- MCOrderOf
  EventOf <- MCEventOf
  DefaultOrder <- MCOrder
  CoupOrder <- MCOrder
  MainPhases <- MCMainPhases
  CoupPhases <- MCCoupPhases
  FinalOmit <- MCFinalOmit
  MaxRounds = 1
  MaxActions = 3
  Accumulating = FALSE
  OptionMatrix <- MCOptionMatrix
INVARIANTS
  TurnFlowTypeOK
  CardsConserved
  LaterStepsWaitForTheFirst
  TheFirstCandidateIsAsked
PROPERTIES
  DeferredEffectsWait
  TheCardEndsWhenItIsDue
  CoupPhaseAsksEverySeat
  LoopEnds
  ImplementsCardRow
CHECK_DEADLOCK FALSE
