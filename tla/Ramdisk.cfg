SPECIFICATION RSpec
CONSTANTS
  MaxN = 35
  Fills = {0}
  NFILES = 2
  Lengths = {0, 3, 35}
  Names = {"dev", "f", "g"}
  HEADERS = 20
  LOCATION = 100
  Word = 1024
  Behind = {0, 2}
  Offsets = {0, 1, 34, 35, 36}
  Sizes = {0, 1, 9, 35, 1023}
INVARIANTS PrefixDone Correct ShowsImage ReadsInside
PROPERTY TraversalEnds
CHECK_DEADLOCK FALSE
