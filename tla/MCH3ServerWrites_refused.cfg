SPECIFICATION SafeSpec
CONSTANTS
    s1 = s1
    s2 = s2
    StreamIds = {s1, s2}
    NoStreamId = none
    Setups <- ResponseSetups
    HighParam = 1
    LowParam = 0
INVARIANT FinOwed
