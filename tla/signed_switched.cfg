SPECIFICATION SigningSpec
CONSTANTS
  RestApis = {j}
  BinaryHandlers = {}
  NumberRetries = 1
  LowestLongLong <- MCLowestLongLong
  HighestLongLong = 127
  TimeDeltaMax = 100
  UnsignedRange = 256
  TimeDeltaAnswers <- MCTimeDeltaAnswers
  Uninitialized <- MCUninitialized
  Payloads = {1}
  HandlerAnswers <- MCHandlerAnswers
  Liberties <- OneAtATime
  MaxOpen = 1
  Hosts = {"ahead", "behind"}
  ClockOffset <- MCClockOffset
  Slugs = {"/td", "/moved"}
  ServedSlug = "/td"
  Times <- MCTimes
  Secrets = {s}
  NoSecret = none
  FirstDefaults = {s}
  SwitchesAnytime = TRUE
INVARIANT
  HashesAreKeyed
PROPERTY
  OneDestination
