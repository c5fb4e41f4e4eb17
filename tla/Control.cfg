SPECIFICATION ControlSpec
CONSTANTS
  Dt = {1, 2}
  AutoLockDelay = 4
  WelcomeDuration = 3
  WakeMs = 3
  ShutdownMs = 3
  SleepAfter = 5
  BatteryLow = 300
  BatteryOk = 400
  BatteryLevels <- Readings
  AmbientDark = 300
  AmbientLight = 400
  FullScale = 1000
  AmbientLevels = {0, 1000}
  ChirpMs = 2
  ChirpGapMs = 2
  HornMaxOn = 0
  MaxDtc = 8
  MaxOccurrences = 1
  LongPressMs = 6
  HeldRange = 10
  InputRecords <- AllInputs
  HostRequests <- LampRequests
  HostFlags = {"lock", "unlock", "light_mode"}
  AppFaults = {"UartOverrun"}
  LinkTimeoutMs = 3
  MaxPayload = 32
  NoLamp = NoLamp
  DebounceMs = 3
  BlinkOnMs = 3
  BlinkOffMs = 2
  FilterWeight = 2
  AdcFullScale = 20
  CycleMs = 1
  SensorCycles = 2
  DoorContacts = {FALSE}
  Scenes = {"press", "lamps", "doors", "pedal", "flash", "host", "battery"}
INVARIANTS
  ManagersConsistent
  LampsObeyRules
  OnePressOneEffect
  EventsTellTheState
  CodesMirrorConditions
  LampFollowsPedal
  FlashersFlash
  StatusOfOneCycle
  HostReadsItsWrites
  NoShedOnHealthyBattery
PROPERTIES
  LocksOnlyClosed
  HostLockServed
