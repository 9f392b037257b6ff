\* Interrupt period 3 us, overflow after 10 us.
SPECIFICATION Spec
CONSTANTS
  TicksForUs = 2
  Period = 3
  SysMax = 10
  Word = 8
  Delays = {1, 7}
  MaxCounter = 12
INVARIANTS
  AtMostOnePeriodAhead
  ExactUnlessLate
PROPERTY
  DelayIsWaited
