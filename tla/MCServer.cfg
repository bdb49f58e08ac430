SPECIFICATION ServerSpec
CONSTANTS
    s1 = s1
    s2 = s2
    StreamIds = {s1, s2}
    NoStreamId = none
    Setups <- WritesSetups
    HighParam = 2
    LowParam = 1
INVARIANTS
    WindowsTight BodyIntact WritersHaveWakers SessionsAgree RoutesToOwners LoopIsArmed
