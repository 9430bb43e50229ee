SPECIFICATION AtFairSpec
CONSTANTS
  Key = {k1, k2}
  HoldWifi = 2
  HoldAll = 4
  WifiDelay = 3
  AllDelay = 1
  ChipDelay = 2
  Watch = 7
  Stalls = 1
  Reports = 2
PROPERTIES WifiResetIsShort WipeNeedsLongHold OneTogglePerPress LongHoldWipes WatchdogWaits OfflineRestarts
