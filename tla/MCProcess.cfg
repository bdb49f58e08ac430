SPECIFICATION ProcessSpec
CONSTANTS
    w1 = w1
    w2 = w2
    MaxCommands = 1
    Setups <- DeliverySetups
INVARIANTS
    GaugeTracksBacklog AppBacklogBounded AppEventsNotStranded NoEventAfterClose
    WorkersAccounted AnswersAreOwn KernelAgrees
PROPERTIES
    DriversKeepPromise
