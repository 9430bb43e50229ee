SPECIFICATION GwFairSpec
CONSTANTS
  Block = {b1, b2}
  Addr = {a1}
  SeqNum = {1}
  IO_SEND_TRY = 2
  MaxIoMsgs = 1
  Dev = {d1}
  Ep = {1}
  PortNum = {4}
  DEVICE_TRY = 2
  Reannounce = FALSE
  MaxDevices = 1
  MaxZdoMsgs = 2
  MaxCount = 1
PROPERTIES ImplementsZdo GwInterviewEnds
