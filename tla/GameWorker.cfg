SPECIFICATION WorkerSpec
CONSTANTS
  Null = Null
  MaxTurns = 2
  GameState <- MCGameState
  Seed <- MCSeed
  Decision <- MCDecision
  Move <- MCMove
  InitialState <- MCInitialState
  LegalActions <- MCLegalActions
  ApplyDecision <- MCApplyDecision
  Autoresolve <- MCAutoresolve
  LegalMoves <- MCLegalMoves
  ApplyMove <- MCApplyMove
  TerminalResult <- MCTerminalResult
  NextTurnId <- MCNextTurnId
  DecisionStackEmpty <- MCDecisionStackEmpty
  AgentToMove <- MCAgentToMove
  Stamps <- MCStamps
  Histories <- MCHistories
INVARIANTS
  WorkerTypeOK
  HistoryIsAPlay
PROPERTIES
  RejectedCallsChangeNothing
  OnlyTheNewestStampActs
CHECK_DEADLOCK FALSE
