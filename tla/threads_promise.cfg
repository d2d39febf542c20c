SPECIFICATION Spec
CONSTANTS
  OtherThreads = {t1, t2}
  Home = home
  NumberRetries = 2
  TimeDeltas = {0, 1}
  MaxWaiting = 4
INVARIANT
  ThreadsInv
PROPERTIES
  ListStableInLoop
  PromiseKeptToThreads
