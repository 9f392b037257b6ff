\* One UART, buffers of two and four bytes, two bytes to tell apart.
SPECIFICATION FairSpec
CONSTANTS
  u1 = u1
  u2 = u2
  x = x
  y = y
  NoByte = NoByte
  Uarts <- OneUart
  Bytes <- OneBytes
  LogSizes <- OneLogSizes
INVARIANTS
  BufferIsQueue
  OverfullByOne
PROPERTIES
  ReadsOldestFirst
  WildOnlyByResizing
  RecvReturns
