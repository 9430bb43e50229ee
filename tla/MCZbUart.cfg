SPECIFICATION UartFairSpec
CONSTANTS
  ByteValues = 16
  Frames <- MCFrames
  Asked <- MCAsked
  UART_BUFFER_SIZE = 8
  UART_CHUNK = 3
  ZB_RX_BUFFER_SIZE = 11
  RX_TIMEOUT = 2
  READ_TRY = 2
  MaxBurst = 2
INVARIANTS UartTypeOK FramesInOrder AllHandled
PROPERTIES LineSettles ReadReturns
