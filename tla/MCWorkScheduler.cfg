SPECIFICATION FairSpec
CONSTANTS
    shutdown = shutdown
    unaddressed = unaddressed
    first = first
    second = second
    inverter = inverter
    filter = filter
    NULL = NULL
    w1 = w1
    Main = Main
    SigHandler = SigHandler
    Commands <- MCCommands
    Targets <- MCTargets
    Code <- MCCode
    Trgt <- MCTrgt
    Workers <- MCWorkers
INVARIANTS SchedulerInv SemaphoreCountsQueue OneOwner
PROPERTIES NonBlockingReturns ImplementsWorkQueue
CHECK_DEADLOCK FALSE
