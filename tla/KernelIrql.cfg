SPECIFICATION Spec
CONSTANTS
  MAX_QUEUE = 8
  MAX_NESTING = 3
  InterruptLevels = {3, 4, 5}
  IsrCalls = 2
  DpcCalls = 0
INVARIANTS
    NoBugcheck
    LevelOfActivity
