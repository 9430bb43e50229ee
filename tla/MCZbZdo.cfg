SPECIFICATION ZdoSpec
CONSTANTS
  Dev = {d1, d2}
  Addr = {a1, a2}
  Ep = {1}
  PortNum = {4, 5}
  DEVICE_TRY = 2
  Calm = FALSE
  Reannounce = TRUE
  MaxDevices = 2
  MaxZdoMsgs = 2
  MaxAsked = 1
  MaxCount = 1
SYMMETRY MCSymmetry
INVARIANTS ZdoTypeOK DeviceServed
PROPERTIES OldPortsGo PortsFromTheList
