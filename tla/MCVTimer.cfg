\* Two timers that share their masks; counters wrap after three ticks.
SPECIFICATION FairSpec
CONSTANTS
  NumTimers = 2
  FreqHz = 4
  MaxPeriod = 1000000
  CountMod = 3
  Periods <- MCPeriods
INVARIANTS
  CyclicBelowLimit
  OneShotOnceUnlessRevived
PROPERTIES
  CallsReturn
  HangsForever
  CyclicKeepsFiring
