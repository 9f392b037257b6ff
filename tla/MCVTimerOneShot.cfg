\* A one-shot timer fires twice when another timer's mask update is interrupted.
SPECIFICATION Spec
CONSTANTS
  NumTimers = 2
  FreqHz = 4
  MaxPeriod = 1000000
  CountMod = 3
  Periods <- MCPeriods
INVARIANT
  OneShotOnce
