SPECIFICATION Spec
CONSTANTS
  MaxSize = 48
  NameLength = 4
  MaxFds = 2
  SectorSize = 16
  MaxSteps = 6
  MaxSpoilt = 4
  Names <- MCNames
  Chunks <- MCChunks
INVARIANTS ContentsKept WriteOnce SearchEnds SpaceKept
CHECK_DEADLOCK FALSE
