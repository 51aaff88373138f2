SPECIFICATION DaemonFairSpec
CONSTANTS
    Connections = {c1, c2, c3, c4}
    Backlog = 2
    MaxProcs = 3
    Daemon = daemon
    Listen = listen
    None = None
INVARIANTS DaemonTypes PrivateSockets ZombiesAreAccounted
PROPERTIES NobodyIsLeftWaiting
CHECK_DEADLOCK FALSE
