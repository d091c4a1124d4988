CONSTANTS
    Parts = {"stream", "reconnect", "sockets", "loop", "timers", "net", "ps", "tics"}
    short = short
    long = long
    alien = alien
    NONE = NONE
    Timers = {t1, t2}
    eth = eth
    Iface = eth
    Bad = {bad}
    BufSize = 5
    Servers = {s1, s2}
    MaxFd = 6
    MaxReconnects = 3
    MaxStarts = 2
    MaxFails = 2
    MaxConns = 3
    Names = {eth, wlan}
    Cmd = "up"
    MaxNetChanges = 2
    Pids = {1, 2}
    ClockSteps = TRUE
    MaxPsChanges = 3
    Failures = {"bus event", "event", "settime", "opendir", "fopen"}
    MaxPsFails = 1
SPECIFICATION Spec
CHECK_DEADLOCK FALSE
INVARIANTS InOrder NothingSkipped
INVARIANTS OneAttempt
INVARIANTS CalledInTable WalkInArray
INVARIANTS NoLateCallback
INVARIANTS Published ProcessesPublished
PROPERTY TicsOfProcess
