SPECIFICATION ReadsSpec
CONSTANTS
    s1 = s1  s2 = s2
    Readers <- TwoSlaves
    Timeouts <- ShortAndLong
    MaxTime = 2
    MaxQueue = 2
SYMMETRY Symmetric
INVARIANTS SharedReadsInv
CHECK_DEADLOCK FALSE
