SPECIFICATION Spec
CONSTANTS
  RestApis = {j, b}
  BinaryHandlers = {b}
  NumberRetries = 2
  LowestLongLong <- MCLowestLongLong
  HighestLongLong = 3
  TimeDeltaMax = 2
  TimeDeltaAnswers <- MCTimeDeltaAnswers
  Uninitialized <- MCUninitialized
  Payloads = {1}
  HandlerAnswers <- FewHandlerAnswers
  Liberties <- DestroyingIdle
  MaxOpen = 1
INVARIANTS
  HandlersTypeOK
  OneContinuation
  HandlerSlotReadsItsReply
  TransmissionsAccounted
  ThreadGoesOn
PROPERTIES
  ResponseSignalMeansResponse
  SignedWithTheMeasuredDelta
  EveryPostHasAnOutcome
  Delivers
CHECK_DEADLOCK FALSE
