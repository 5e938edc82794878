SPECIFICATION KSpec
CONSTANTS
  HDR = 12
  FTR = 8
  PAGE = 4096
  Word = 1073741824
  START = 524288
  INITIAL = 524288
  MIN_SIZE = 458752
  MAX_END = 268431360
  NFRAMES = 4096
  InitrdEnds = {1134432, 1138592}
  NFILES = 3
  MaxPages = 12
INVARIANTS Tiling PageAligned NeverResizes IdentityMapped FramesExclusive PhysicalAddresses KernelShared BitmapFits Cr3Intact
CHECK_DEADLOCK FALSE
