SPECIFICATION PartsSpec
CONSTANTS
  Dt = {1, 2, 9}
  AutoLockDelay = 5
  WelcomeDuration = 3
  ChirpMs = 2
  ChirpGapMs = 3
  HornMaxOn = 4
  WakeMs = 2
  ShutdownMs = 4
  SleepAfter = 6
  BatteryLow = 300
  BatteryOk = 350
  BatteryLevels = {0, 300, 301, 349, 350, 1000}
  AmbientDark = 300
  AmbientLight = 400
  FullScale = 1000
  AmbientLevels = {0, 299, 300, 500, 600, 601, 699, 700, 1001}
  MaxPayload = 8
  CrcUpdate <- Crc8Update
  Frames <- AllFrames
  Noise = {8, 9, 170}
  MaxFaults = 2
INVARIANTS
  TransitionsInFull
  ShedFollowsReadings
  LampOwnership
  HazardLatched
  AutoFollowsDusk
  ParserBounds
  FramesArrive
  OnlyWholeFrames
PROPERTIES
  KeepsLockPromise
  NotLeftUnlocked
  ChirpsEnd
  TransientStatesEnd
  DriverAndHazardStand
  NoChatter
  Recovers
