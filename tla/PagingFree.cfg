SPECIFICATION Spec
CONSTANTS
  NFRAMES = 64
  LowPages = 4
  MaxHeapPages = 4
INVARIANT LowMemoryKept
