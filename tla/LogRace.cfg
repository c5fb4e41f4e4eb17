SPECIFICATION TasksSpec
CONSTANTS
  WatchdogTicks = 2
  IwdgTicks = 10
  LogCapacity = 3
  QueueLength = 2
  MaxEvents = 6
INVARIANT LogHasOneOwner
