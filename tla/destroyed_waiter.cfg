SPECIFICATION Spec
CONSTANTS
  RestApis = {j}
  BinaryHandlers = {}
  NumberRetries = 1
  LowestLongLong <- MCLowestLongLong
  HighestLongLong = 3
  TimeDeltaMax = 2
  TimeDeltaAnswers <- MCTimeDeltaAnswers
  Uninitialized <- MCUninitialized
  Payloads = {1}
  HandlerAnswers <- FewHandlerAnswers
  Liberties <- DestroyingWaiting
  MaxOpen = 1
INVARIANT
  WaitingListHoldsInstances
CHECK_DEADLOCK FALSE
