SPECIFICATION ZaFairSpec
CONSTANTS
  a1 = a1
  p1 = p1
  p2 = p2
  Block = {b1, b2}
  Addr = {a1}
  SeqNum <- MCSeqNum
  IO_SEND_TRY = 2
  MaxIoMsgs = 1
  Port = {p1, p2}
  AddrOf <- OneDevice
  Val = {0, 1}
  Payload = {0, 1}
  SeqMod = 4
  DevSeq = {1}
  Reporting = {p1}
  MaxCmds = 2
  MaxLocal = 1
  MaxLoss = 2
  MaxAir = 1
INVARIANTS ZaTypeOK Agreement
PROPERTIES FailuresHaveCauses ComesToRest
CHECK_DEADLOCK FALSE
