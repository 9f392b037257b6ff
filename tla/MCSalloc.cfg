\* Two areas of memory, all sequences of calls.
SPECIFICATION Spec
CONSTANTS
  Areas <- MCAreas
  Sizes = {0, 8, 9, 24}
INVARIANTS
  ChainIsSound
  NoFreeNeighbours
  TakenIffLive
  HeadersOutsideLive
PROPERTY
  RefinesAllocator
