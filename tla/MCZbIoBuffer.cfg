SPECIFICATION IoFairSpec
CONSTANTS
  Block = {b1, b2, b3}
  Addr = {a1, a2}
  SeqNum = {0, 1}
  IO_SEND_TRY = 3
  MaxIoMsgs = 2
INVARIANTS NoLostWakeup BudgetKept
PROPERTIES UnsentDropped ImplementsStopAndWait EveryCommandLeaves
