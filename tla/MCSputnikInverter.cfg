SPECIFICATION FairSpec
CONSTANTS
    SWV = SWV  PAC = PAC  UL2 = UL2  KYR = KYR
    bdn = bdn  swv = swv  pac = pac  ul2 = ul2  kyr = kyr
    Queries = {SWV, PAC, UL2, KYR}
    Order <- MCOrder
    Strategy <- MCStrategy
    Token <- MCToken
    Needed <- MCNeeded
    AnswerLen <- MCAnswerLen
    MaxAnswer = 4
    Retries = 2
    Interval = 1
    MaxTime = 3
INVARIANTS SputnikInv OneContinuation BlockCeased
PROPERTIES AlwaysComesBack NoQueryDropped
CHECK_DEADLOCK FALSE
