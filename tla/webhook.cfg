SPECIFICATION Spec
CONSTANTS
  Messages = {1, 2}
  MaximumNumberRetries = 3
  MessageAnswers <- MCMessageAnswers
  TimestampAnswers <- MCTimestampAnswers
  CallsInSlots = TRUE
INVARIANTS
  WebHookTypeOK
  OneThingPending
  TransmissionsBounded
  ForcedAdjustmentSendsNothing
PROPERTY
  EverySendHasAnOutcome
