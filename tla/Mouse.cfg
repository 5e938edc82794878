SPECIFICATION Spec
CONSTANTS
  COLS = 80
  ROWS = 25
  BYTE = 256
  ACK = 250
  Packets <- MCPackets
  SLOW = 48
  Spots <- MCSpots
  MaxPackets = 4
  MaxLost = 1
  MaxPrints = 2
INVARIANTS PointerOnScreen FollowsDevice TrailBounded
CHECK_DEADLOCK FALSE
