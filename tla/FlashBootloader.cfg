SPECIFICATION Spec
CONSTANTS
  Machines <- MCMachines
  Invocations <- MCInvocations
  Layouts <- MCLayouts
  Size = 2097152
  MaxRuns = 2
  MaxFaults = 2
INVARIANTS TypeOK PartitionsKept SuccessMeansFlashed Boot0ReadOnly
PROPERTY WritesAllowed
CHECK_DEADLOCK FALSE
