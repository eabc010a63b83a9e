SPECIFICATION Spec
CONSTANTS
  Threads = {t1, t2}
  Commands = {c1}
  NoThread = NoThread
  Frames <- MCFrames
  MaxRetries = 2
  RxMaxDelay = 1
  RxSz = 3
  MayJam = FALSE
  MaxCalls = 2
SYMMETRY ThreadSymmetry
INVARIANTS TypeOK OneTransaction WholeNumber InStep Backlog
PROPERTIES FreshAnswers ImplementsScCommand
