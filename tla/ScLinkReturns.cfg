SPECIFICATION FairSpec
CONSTANTS
  Threads = {t1, t2}
  Commands = {c1}
  NoThread = NoThread
  Frames <- MCNumFrames
  MaxRetries = 2
  RxMaxDelay = 1
  RxSz = 3
  MayJam = TRUE
  MaxCalls = 2
PROPERTY CallReturns
