SPECIFICATION FiltersFairSpec
CONSTANTS
    inverter = inverter  f1 = f1  f2 = f2  null = null
    Inverter = inverter
    Loggers <- FilterOrder
    Filters = {f1, f2}
    NoCap = null
    NameOrder <- Order
    Chains <- Stacks
    Listed <- Array
    Searched = "DC Power"
    Containing = {"DC Power"}
    MaxDay = 2
INVARIANTS FilterInv ColumnNumberRight
PROPERTIES OnlyValidData CapabilityLogged
CHECK_DEADLOCK FALSE
