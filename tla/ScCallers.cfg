SPECIFICATION FairSpec
CONSTANTS
  Users = {"user"}
  Suspender = "suspender"
  Stopper = "stopper"
  Threads = {"user", "suspender", "stopper"}
  Commands <- MCCommands
  Reads <- MCReads
  MaxRetries = 2
  MaxEvents = 2
  MaxLost = 1
  MaxInbox = 2
  MaxProbes = 2
VIEW CallersView
INVARIANTS Settled LiveData
PROPERTY PowersOff
CHECK_DEADLOCK FALSE
