SPECIFICATION ClientsSpec
CONSTANTS
    HighParam = 2
    LowParam = 1
    Setups <- SharingSetups
INVARIANTS
    SessionsAreTold WindowsTight BodyIntact CreditKept WritersHaveWakers NothingLeft
PROPERTIES
    CloseLeaves
CHECK_DEADLOCK FALSE
