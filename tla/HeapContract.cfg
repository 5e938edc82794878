SPECIFICATION Spec
CONSTANTS
  HDR = 3
  FTR = 2
  PAGE = 16
  Word = 1024
  START = 16
  INITIAL = 64
  MIN_SIZE = 32
  MAX_END = 96
  Clients <- MCPlain
  Disciplined = FALSE
INVARIANT ContractKeepsLive
CHECK_DEADLOCK FALSE
