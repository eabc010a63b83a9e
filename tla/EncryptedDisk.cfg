SPECIFICATION Spec
CONSTANTS
  Memories <- MCMemories
  Disks <- MCDisks
  MaxTerms = 2
INVARIANTS TypeOK EraseAgreed SwapFits ClosedAtEnd RunningSystemKept SuccessIsComplete
CHECK_DEADLOCK FALSE
