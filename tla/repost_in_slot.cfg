SPECIFICATION Spec
CONSTANTS
  RestApis = {j}
  BinaryHandlers = {}
  NumberRetries = 1
  LowestLongLong <- MCLowestLongLong
  HighestLongLong = 3
  TimeDeltaMax = 2
  TimeDeltaAnswers <- MCTimeDeltaAnswers
  Uninitialized <- MCUninitialized
  Payloads = {1}
  HandlerAnswers <- FewHandlerAnswers
  Liberties <- Reposting
  MaxOpen = 1
INVARIANT
  PostInSlotReturns
CHECK_DEADLOCK FALSE
