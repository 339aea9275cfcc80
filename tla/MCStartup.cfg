SPECIFICATION StartupSpec
CONSTANTS
    t1 = t1  t2 = t2  a = a  b = b  none = none
    Threads <- Both  Texts <- TwoTexts  NoText = none
    sa_max_suppress_repetitions = 1  sa_max_time_suppress = 2  MaxClock = 2
    FLT_MAX = 1000  MaxNesting = 2
    Files <- AllFiles
INVARIANTS StartupInv LogInv
PROPERTY InitFindsItsSource
CHECK_DEADLOCK FALSE
