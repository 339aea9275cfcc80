SPECIFICATION MSpec
CONSTANTS
    first = first
    second = second
    inverter = inverter
    filter = filter
    NULL = NULL
    Main = Main
    SigHandler = SigHandler
    Shutdown = Shutdown
    Timer = Timer
    Connection = Connection
    Terminator = Terminator
    Commands <- MCCommands
    Targets <- MCTargets
    Code <- MCCode
    Trgt <- MCTrgt
    Workers <- MCWorkers
INVARIANTS MainInv
PROPERTIES SigtermTerminates
CHECK_DEADLOCK FALSE
