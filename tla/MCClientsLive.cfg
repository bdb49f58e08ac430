SPECIFICATION ClientsSpec
CONSTANTS
    HighParam = 2
    LowParam = 1
    Setups <- QuicSetups
PROPERTIES
    DataMoves CallsAndClosesReturn
CHECK_DEADLOCK FALSE
