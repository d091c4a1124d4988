CONSTANTS
    Parts = {"stream", "sockets", "loop", "timers"}
    short = short
    long = long
    alien = alien
    NONE = NONE
    Timers = {t1, t2}
    eth = eth
    Iface = eth
    Bad = {}
    BufSize = 9
    Servers = {s1}
    MaxFd = 4
    MaxReconnects = 2
    MaxStarts = 2
    MaxFails = 0
    MaxConns = 2
    Names = {eth}
    Cmd = "monitor"
    MaxNetChanges = 3
    Pids = {1}
    ClockSteps = FALSE
    MaxPsChanges = 4
    Failures = {"bus event", "opendir", "fopen"}
    MaxPsFails = 2
SPECIFICATION FairPlatform
CHECK_DEADLOCK FALSE
PROPERTIES Delivered ClientConnects ServerListens Served Fires
