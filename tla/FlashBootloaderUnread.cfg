SPECIFICATION Spec
CONSTANTS
  Machines <- MCMachines
  Invocations <- MCInvocations
  Layouts <- MCLayouts
  Size = 2097152
  MaxRuns = 2
  MaxFaults = 2
INVARIANT SpaceChecked
CHECK_DEADLOCK FALSE
