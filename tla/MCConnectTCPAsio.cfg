SPECIFICATION FairSpec
CONSTANTS
    conn = conn
    recv = recv
    send = send
    disc = disc
    acc = acc
    Cmds = {conn, recv, send, disc, acc}
    NULL = NULL
    MaxAborts = 1
    MaxCalls = 3
    MaxSleep = 2
    Resolutions = {0, 2}
    Op <- const_Op
INVARIANTS TcpInv EveryCommandCounted AbortNotLost
PROPERTIES NothingHangs
CHECK_DEADLOCK FALSE
