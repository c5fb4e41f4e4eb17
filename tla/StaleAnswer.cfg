SPECIFICATION HostSpec
CONSTANTS
  Dt = {200}
  LinkTimeoutMs = 2000
  MaxPayload = 32
  TickMs = 200
  RequestTicks = 5
  MaxEvents = 1
  MaxLosses = 0
  MaxClicks = 0
  MaxAge = 4
INVARIANT NoStaleAnswer
