SPECIFICATION ShellSpec
CONSTANTS
    MaxPid = 4
    Calls = {"yield", "exit", "fork", "exec", "kill", "setpriority", "waitpid_nohang"}
    WaitKinds = {"exited"}
    Keys = {"ctrl-c", "job", "job !", "job &", "kill", "kill &"}
    MaxTyped = 3
INVARIANTS
    ForegroundWaits
    NoZombies
    NeverWild
    InputInOrder
    ChildFindsZero
PROPERTIES
    CtrlCTerminates
CHECK_DEADLOCK FALSE
