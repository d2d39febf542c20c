SPECIFICATION Spec
CONSTANTS
  RestApis = {a1, a2}
  NumberRetries = 2
  LowestLongLong <- MCLowestLongLong
  HighestLongLong = 3
  TimeDeltaMax = 2
  TimeDeltaAnswers <- AllAnswers
  Uninitialized <- MCUninitialized
  MaxWaiting = 3
  ForcedTimeDeltas <- MCForcedTimeDeltas
INVARIANTS
  ServerTypeOK
  SlotReadsItsReply
  WaitersHaveAReplyToCome
  AttemptsAccounted
  NoCallbackOwedWhenIdle
PROPERTIES
  UpdateDrawsNearer
  EveryWaiterCalledBack
  PromiseKept
