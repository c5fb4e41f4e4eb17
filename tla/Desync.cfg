SPECIFICATION FairSpec
CONSTANTS
  MaxPayload = 32
  CrcUpdate <- Crc8Update
  Frames <- PingOnly
  Noise = {}
  MaxFaults = 0
PROPERTIES
  NeverDesynchronised
