SPECIFICATION ShellSpec
CONSTANTS
    MaxPid = 3
    Calls = {"yield", "exit", "fork", "exec", "kill", "setpriority", "waitpid_nohang"}
    WaitKinds = {"exited"}
    Keys = {"job", "kill &"}
    MaxTyped = 2
INVARIANTS
    OnlyChildExecs
CHECK_DEADLOCK FALSE
