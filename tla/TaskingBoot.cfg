SPECIFICATION Spec
CONSTANTS
    MaxPid = 3
    NBoot = 3
    Program <- MCProgram
INVARIANT AlwaysFindsProcess
CHECK_DEADLOCK FALSE
