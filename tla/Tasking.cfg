SPECIFICATION FairSpec
CONSTANTS
    MaxPid = 5
    NBoot = 4
    Program <- MCProgram
INVARIANTS TypeOK ListSound IdleProtected RunsListed PreemptionRestored
PROPERTIES LeavesByOwnKill RoundRobin
CHECK_DEADLOCK FALSE
