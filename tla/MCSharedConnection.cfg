SPECIFICATION FairSpec
CONSTANTS
    s1 = s1  s2 = s2
    Slaves = {s1, s2}
    Owner = s1
    Commands = {1, 2, 3}
    Apis = {"SEND", "DISCONNECT"}
    MaxTickets = 3
INVARIANTS SharedInv BlocksInTurn
PROPERTIES EveryCallAnswered
CHECK_DEADLOCK FALSE
