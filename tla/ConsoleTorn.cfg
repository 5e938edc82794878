SPECIFICATION Spec
CONSTANTS
  ROWS = 4
  COLS = 3
  TAB = 2
  BYTE = 4
  KEY_BUFFER_SIZE = 3
  Letters = {"a", "b", " "}
  Upper <- MCUpper
  Commands <- MCCommands
  Printers <- MCPrinters
  Users <- MCUsers
INVARIANT CursorOnScreen
CHECK_DEADLOCK FALSE
