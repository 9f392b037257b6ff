\* Two UARTs, buffers of two bytes: disabling one disarms the other.
SPECIFICATION Spec
CONSTANTS
  u1 = u1
  u2 = u2
  x = x
  y = y
  NoByte = NoByte
  Uarts <- TwoUarts
  Bytes <- TwoBytes
  LogSizes <- TwoLogSizes
INVARIANT
  BufferedUartHasHandler
CHECK_DEADLOCK FALSE
