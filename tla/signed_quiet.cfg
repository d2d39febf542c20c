SPECIFICATION SigningSpec
CONSTANTS
  RestApis = {j, b}
  BinaryHandlers = {b}
  NumberRetries = 0
  LowestLongLong <- MCLowestLongLong
  HighestLongLong = 127
  TimeDeltaMax = 100
  UnsignedRange = 256
  TimeDeltaAnswers <- MCTimeDeltaAnswers
  Uninitialized <- MCUninitialized
  Payloads = {1}
  HandlerAnswers <- MCHandlerAnswers
  Liberties <- OneAtATime
  MaxOpen = 1
  Hosts = {"ahead", "behind"}
  ClockOffset <- MCClockOffset
  Slugs = {"/td"}
  ServedSlug = "/td"
  Times <- MCTimes
  Secrets = {}
  NoSecret = none
  FirstDefaults = {none}
  SwitchesAnytime = FALSE
INVARIANT
  RetryIsInTime
