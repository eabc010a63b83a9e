SPECIFICATION Spec
CONSTANTS
  Memories <- MCMemories
  Disks <- MCDisks
  MaxTerms = 0
INVARIANT EmmcPolicy
CHECK_DEADLOCK FALSE
