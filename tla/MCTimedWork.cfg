SPECIFICATION FairSpec
CONSTANTS
    first = first
    second = second
    third = third
    c1 = c1
    c2 = c2
    Commands <- MCCommands
    Callers <- MCCallers
    Delays <- MCDelays
    Offsets <- SummerTime
    Hour = 3
    MaxTime = 3
    Horizon = 4
INVARIANTS TimedInv OnTimeBySteadyClock
PROPERTIES TerminationCompletes ImplementsDelayQueue
CHECK_DEADLOCK FALSE
