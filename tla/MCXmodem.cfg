SPECIFICATION Spec
CONSTANTS
  File <- MCFile
  Numbers = 4
  RetryLimit = 4
  InitialBuffer = 2
  Increment = 2
  MaxLost = 3
INVARIANTS StoredIsPrefix SuccessIsWhole LossInsideIsRepaired
PROPERTY ReceiveReturns
CHECK_DEADLOCK FALSE
