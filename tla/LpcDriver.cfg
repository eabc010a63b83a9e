SPECIFICATION FairSpec
CONSTANTS
  Readers = {r1}
  Prober = prober
  Stopper = stopper
  NoThread = NoThread
  Measures <- MCMeasures
  Versions <- MCVersions
  Handlers <- MCHandlers
  Flips <- MCFlips
  MaxFaults = 1
INVARIANTS TypeOK OwnAnswer ReportPlausible
PROPERTIES DamageCaught PowersOff
CHECK_DEADLOCK FALSE
