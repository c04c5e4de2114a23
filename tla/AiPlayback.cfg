SPECIFICATION FairSpec
CONSTANTS
  MaxQueuedTimelines = 2
  MaxNoOpRetries = 3
  MaxDriveMoves = 3
INVARIANTS
  PlaybackTypeOK
  StoreMatchesQueue
  AiTurnIsPlayedOrReported
  SkipLeavesNoDelay
  DrainHasAnimations
PROPERTIES
  StepsOnlyInTheAiTurn
  DriveEnds
