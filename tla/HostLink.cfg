SPECIFICATION HostSpec
CONSTANTS
  Dt = {200}
  LinkTimeoutMs = 2000
  MaxPayload = 32
  TickMs = 200
  RequestTicks = 5
  MaxEvents = 3
  MaxLosses = 2
  MaxClicks = 3
  MaxAge = 4
INVARIANTS
  HostKeepsLink
  LinkLossTimely
  AnswersNeverGoBack
PROPERTY InterfaceReturns
