SPECIFICATION QuicSpec
CONSTANTS
    HighParam = 2
    LowParam = 1
    Setups <- ServerSetups
INVARIANTS
    WindowsTight BodyIntact WritersHaveWakers SessionsAgree
CHECK_DEADLOCK FALSE
