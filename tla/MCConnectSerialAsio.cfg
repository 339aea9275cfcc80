SPECIFICATION FairSpec
CONSTANTS
    conn = conn
    again = again
    recv = recv
    send = send
    disc = disc
    Cmds = {conn, again, recv, send, disc}
    NULL = NULL
    MaxAborts = 1
    MaxCalls = 3
    MaxSleep = 2
    Op <- const_Op
INVARIANTS SerialInv ConnectTellsTheTruth
PROPERTIES NothingHangs
CHECK_DEADLOCK FALSE
