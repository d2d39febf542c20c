SPECIFICATION Spec
CONSTANTS
  OtherThreads = {t1, t2}
  Home = home
  NumberRetries = 1
  TimeDeltas = {0, 1}
  MaxWaiting = 3
INVARIANT
  PendingReplyGuarded
