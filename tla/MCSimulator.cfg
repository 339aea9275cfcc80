SPECIFICATION FairSimulator
CONSTANTS
    PAC = PAC  XYZ = XYZ
    Known = {PAC}
    Requests <- Asked
    MaxSessions = 2
    MaxDisconnects = 1
INVARIANTS SimulatorInv
PROPERTIES ListensAgain
CHECK_DEADLOCK FALSE
