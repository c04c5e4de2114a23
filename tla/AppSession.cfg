\* What the flag for unsaved changes covers.
CONSTANTS
  Moves <- MCMoves
  MaxMoves = 3
  MaxSaves = 2
SPECIFICATION Spec
INVARIANT UnsavedProgressIsFlagged
