SPECIFICATION Spec
CONSTANTS
  RestApis = {j}
  BinaryHandlers = {}
  NumberRetries = 2
  LowestLongLong <- MCLowestLongLong
  HighestLongLong = 3
  TimeDeltaMax = 2
  TimeDeltaAnswers <- MCTimeDeltaAnswers
  Uninitialized <- MCUninitialized
  Payloads = {1}
  HandlerAnswers <- AllHandlerAnswers
  Liberties <- AnyUse
  MaxOpen = 3
INVARIANTS
  HandlersInv
  NoOutcomeTwice
PROPERTY
  UpdatesAreShared
CHECK_DEADLOCK FALSE
