SPECIFICATION Spec
CONSTANTS
  HDR = 3
  FTR = 2
  PAGE = 16
  Word = 1024
  START = 16
  INITIAL = 32
  MIN_SIZE = 32
  MAX_END = 64
  Clients <- MCClients
  Disciplined = TRUE
INVARIANTS NoFault Tiling Coalesced LiveBacked FootersInside
PROPERTY ImplementsAllocator
CHECK_DEADLOCK FALSE
