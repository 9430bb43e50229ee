SPECIFICATION CalmSpec
CONSTANTS
  Dev = {d1, d2}
  Addr = {a1, a2}
  Ep = {1, 2}
  PortNum = {1,2,3,4,5,6,7,8}
  DEVICE_TRY = 2
  Calm = TRUE
  Reannounce = FALSE
  MaxDevices = 2
  MaxZdoMsgs = 3
  MaxAsked = 2
  MaxCount = 4
INVARIANTS OnePortPerTry
PROPERTIES InterviewComplete DeviceGetsPorts
