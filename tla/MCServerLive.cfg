SPECIFICATION ServerSpec
CONSTANTS
    s1 = s1
    StreamIds = {s1}
    NoStreamId = none
    Setups <- WritesSetups
    HighParam = 1
    LowParam = 0
PROPERTIES
    DataMoves ClosesComplete
