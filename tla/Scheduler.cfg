SPECIFICATION FairSpec
CONSTANTS
    MaxPid = 3
    Calls = {"yield", "exit", "fork", "exec", "kill", "kill_other", "setpriority", "waitpid", "waitpid_nohang"}
    WaitKinds = {"exited"}
INVARIANTS
    TypeOK
    QueuesWellFormed
    RunnableIsQueued
    CurrentIsQueued
    TerminatedIsRecorded
PROPERTIES
    NoMissedWakeup
    HighFirst
    LowRuns
    RaisedRuns
CHECK_DEADLOCK FALSE
VIEW ControlView
