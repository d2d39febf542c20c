SPECIFICATION Spec
CONSTANTS
  RestApis = {b}
  BinaryHandlers = {b}
  NumberRetries = 1
  LowestLongLong <- MCLowestLongLong
  HighestLongLong = 3
  TimeDeltaMax = 2
  TimeDeltaAnswers <- MCTimeDeltaAnswers
  Uninitialized <- MCUninitialized
  Payloads = {1}
  HandlerAnswers <- FewHandlerAnswers
  Liberties <- Overlapping
  MaxOpen = 2
PROPERTY
  ResponseSignalMeansResponse
CHECK_DEADLOCK FALSE
