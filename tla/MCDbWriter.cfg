SPECIFICATION FairSpec
CONSTANTS
    power = power  energy = energy  name = name
    Data = {power, energy, name}
    Early = {name}
    Jobs <- AllJobs
    DayLength = 2
    MaxTime = 2
    MaxFailures = 2
INVARIANTS DbInv
PROPERTIES CompleteRows WipesOnlyOldRows ValueLogged
CHECK_DEADLOCK FALSE
