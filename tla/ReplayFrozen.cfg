SPECIFICATION Spec
CONSTANTS
  Null = Null
  MaxTurns = 2
  GameState <- MCGameState
  Seed <- MCSeed
  Decision <- MCDecision
  Move <- MCMove
  InitialState <- MCInitialState
  LegalActions <- MCLegalActions
  ApplyDecision <- MCApplyDecision
  Autoresolve <- MCAutoresolve
  LegalMoves <- MCLegalMoves
  ApplyMove <- MCApplyMove
  TerminalResult <- MCTerminalResult
  NextTurnId <- MCNextTurnId
  DecisionStackEmpty <- MCDecisionStackEmpty
  AgentToMove <- MCAgentToMove
  Stamps <- MCReplayStamps
  Histories <- MCReplayHistories
  Recordings <- OneRecording
  MaxCommands = 4
INVARIANTS
  BoardMatchesIndex
CHECK_DEADLOCK FALSE
