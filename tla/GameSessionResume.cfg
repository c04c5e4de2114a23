SPECIFICATION Spec
CONSTANTS
  Null = Null
  MaxTurns = 2
  GameState <- OneSeedGameState
  Seed <- OneSeed
  Decision <- MCDecision
  Move <- MCMove
  InitialState <- MCInitialState
  LegalActions <- MCLegalActions
  ApplyDecision <- MCApplyDecision
  Autoresolve <- MCAutoresolve
  LegalMoves <- MCLegalMoves
  ApplyMove <- MCApplyMove
  TerminalResult <- MCTerminalResult
  NextTurnId <- MCNextTurnId
  DecisionStackEmpty <- MCDecisionStackEmpty
  AgentToMove <- MCAgentToMove
  Stamps <- MCSessionStamps
  Histories <- MCSessionHistories
  MaxCalls = 3
  MaxAiSkipMoves = 3
INVARIANT ResumeReplaysItsMoves
CHECK_DEADLOCK FALSE
